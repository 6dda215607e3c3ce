-------------------------- MODULE PodFaultsProofs --------------------------
(***************************************************************************)
(* The waits of module PodFaults miss no update, a crash that is counted   *)
(* is a restart and few kills are wasted, and a call that returns nil did  *)
(* what it says: for any number of pods, changes and errors, any Count and *)
(* any maxConsecutiveFailures.                                             *)
(*                                                                         *)
(* The invariant is stated per pod, of the values that one pod has: its    *)
(* log, and what the loop and the Terminate of that pod hold.  An event    *)
(* of the pod leaves it true because the log only grows; a step of a task  *)
(* is a step of one pod.                                                   *)
(***************************************************************************)
EXTENDS PodFaults, FiniteSetTheorems, SequenceTheorems, TLAPS

EventSet == [type : {"Added", "Modified", "Deleted"}, state : States, restarts : Nat]
WaitSet == [for : {"nothing", "running", "restarted", "deleted"}, start : Nat, seen : Nat,
            closed : BOOLEAN]

\* A log holds its events, a recreated pod starts anew, and where the restarts
\* of two events differ there is an event between them that is a restart.
Rise(l, i) == l[i].restarts > l[i - 1].restarts
Rises(l, m) == {i \in 2..m : Rise(l, i)}
LogOK(l) ==
  /\ l \in Seq(EventSet) /\ Len(l) >= 1
  /\ \A i \in 2..Len(l) : l[i].type = "Added" => l[i].state = "created" /\ l[i].restarts = 0
  /\ \A m, j \in 1..Len(l) :
       m < j /\ l[m].restarts < l[j].restarts => \E i \in m + 1 .. j : Rise(l, i)

\* What a log says at its end, and what it says later.
Grows(l, m) == LogOK(l) /\ LogOK(m) /\ Len(l) <= Len(m) /\ \A i \in 1..Len(l) : m[i] = l[i]

\* A wait w of a task at step c.
Watching == {"watch", "get", "select"}
WaitOK(l, c, w) ==
  /\ w \in WaitSet
  /\ c \in Watching <=> w.for # "nothing"
  /\ w.start <= w.seen /\ w.seen <= Len(l)
  /\ w.closed => c = "select"
  /\ c \in {"get", "select"} => w.start >= 1

\* The kills of a loop: each one that is not counted as a crash is a failure,
\* or the last one is not yet decided.
Budget(c, w, f, n, k) ==
  /\ n <= CrashCount
  /\ n = CrashCount => c \in {"top", "done"} /\ (c = "top" => f = 0)
  /\ c # "done" => k <= n * MaxFailures + f
                        + (IF c = "killed" \/ w.for = "restarted" THEN 1 ELSE 0)
  /\ c = "done" => k <= CrashCount * MaxFailures

\* The crash loop of a pod with log l: step c, wait w, restartCountBefore b,
\* failures f, crashes n, kills k and result r.  restartCountBefore is that of
\* an event at which the crashes so far had been seen, and which the watch for
\* the next one does not reach back to.
LoopOK(l, c, w, b, f, n, k, r) ==
  /\ WaitOK(l, c, w)
  /\ c \in Steps \ {"delete"} /\ w.for # "deleted"
  /\ b \in Nat /\ f \in 0..MaxFailures /\ n \in Nat /\ k \in Nat
  /\ r \in {"none", "ok", "error"}
  /\ c = "done" <=> r # "none"
  /\ f = MaxFailures <=> r = "error"
  /\ n <= Cardinality(Rises(l, Len(l)))
  /\ c \in {"kill", "killed"} \/ w.for = "restarted" =>
       \E m \in 1..Len(l) : /\ l[m].restarts = b
                            /\ n <= Cardinality(Rises(l, m))
                            /\ c \in {"get", "select"} => m <= w.start
  /\ c = "select" /\ l[Len(l)].type # "Deleted" =>
       \/ w.seen < Len(l)
       \/ w.for = "running" /\ l[Len(l)].state # "running"
       \/ w.for = "restarted" /\ l[Len(l)].restarts <= b
  /\ CrashCount > 0 => Budget(c, w, f, n, k)

\* The Terminate of a pod: step c, wait w, aim a and result r.
StopOK(l, c, w, a, r) ==
  /\ WaitOK(l, c, w)
  /\ c \in {"idle", "delete", "done"} \cup Watching
  /\ w.for \in {"nothing", "deleted"}
  /\ r \in {"none", "ok", "error"} /\ a \in Nat
  /\ c = "done" <=> r # "none"
  /\ c \in Watching => a \in 1..Len(l) /\ l[a].type # "Deleted"
  /\ c \in {"get", "select"} => a <= w.start
  /\ c \in {"get", "select"} => \A i \in w.start + 1 .. w.seen : l[i].type # "Deleted"
  /\ r = "ok" => a > 0 /\ \E i \in a + 1 .. Len(l) : l[i].type = "Deleted"

Loop(p) == LoopOK(log[p], pc[<<"crash", p>>], wait[<<"crash", p>>], before[p], failures[p],
                  crashes[p], kills[p], result[<<"crash", p>>])
Stop(p) == StopOK(log[p], pc[<<"terminate", p>>], wait[<<"terminate", p>>], aim[p],
                  result[<<"terminate", p>>])

\* What the variables are functions of.
Shape ==
  /\ log \in [Pod -> Seq(EventSet)]
  /\ alive \in [Pod -> BOOLEAN] /\ doomed \in [Pod -> BOOLEAN]
  /\ ctx \in [Fault -> {"open", "cancelled"}] /\ due \in BOOLEAN
  /\ pc \in [Task -> Steps] /\ wait \in [Task -> WaitSet]
  /\ before \in [Pod -> Nat] /\ failures \in [Pod -> 0..MaxFailures]
  /\ crashes \in [Pod -> Nat] /\ kills \in [Pod -> Nat] /\ aim \in [Pod -> Nat]
  /\ result \in [Task -> {"none", "ok", "error"}]
  /\ call \in [Fault -> {"idle", "running", "ok", "error", "panic"}]
  /\ chosen \subseteq Pod

\* What a call knows of its tasks.
Calls ==
  /\ \A f \in Fault : call[f] = "idle" => \A p \in Pod : pc[<<f, p>>] = "idle"
  /\ call["crash"] = "ok" => /\ \E p \in Pod : crashes[p] > 0
                             /\ \A p \in Looped : pc[<<"crash", p>>] = "done"
  /\ call["terminate"] = "ok" => \A p \in chosen : result[<<"terminate", p>>] = "ok"

IInv == Shape /\ Calls /\ \A p \in Pod : LogOK(log[p]) /\ Loop(p) /\ Stop(p)

USE PodFaultsAssumption

-----------------------------------------------------------------------------
(* Logs *)

LEMMA EventOf ==
  ASSUME NEW l \in Seq(EventSet), NEW i \in 1..Len(l)
  PROVE  /\ l[i] \in EventSet
         /\ l[i].type \in {"Added", "Modified", "Deleted"}
         /\ l[i].state \in States /\ l[i].restarts \in Nat
<1>1. l[i] \in EventSet
  BY ElementOfSeq
<1> QED BY <1>1 DEF EventSet

\* The restarts up to an event are finitely many, the more the later it is.
LEMMA RisesFinite ==
  ASSUME NEW l, NEW m \in Nat
  PROVE  IsFiniteSet(Rises(l, m)) /\ Cardinality(Rises(l, m)) \in Nat
<1>1. IsFiniteSet(2..m)
  BY FS_Interval
<1>2. Rises(l, m) \in SUBSET (2..m)
  BY DEF Rises
<1>3. IsFiniteSet(Rises(l, m))
  BY <1>1, <1>2, FS_Subset
<1> QED BY <1>3, FS_CardinalityType

LEMMA RisesMonotone ==
  ASSUME NEW l, NEW m \in Nat, NEW j \in Nat, m <= j
  PROVE  Cardinality(Rises(l, m)) <= Cardinality(Rises(l, j))
<1>1. Rises(l, m) \in SUBSET Rises(l, j)
  BY DEF Rises
<1> QED BY <1>1, RisesFinite, FS_Subset

\* A later event with more restarts comes after one restart more.
LEMMA RiseCounted ==
  ASSUME NEW l, LogOK(l), NEW m \in 1..Len(l), NEW j \in 1..Len(l), m <= j,
         l[m].restarts < l[j].restarts
  PROVE  Cardinality(Rises(l, m)) + 1 <= Cardinality(Rises(l, Len(l)))
<1>0. Len(l) \in Nat
  BY DEF LogOK
<1>1. m < j /\ m \in Nat
  <2>1. l[m].restarts \in Nat
    BY EventOf DEF LogOK
  <2> QED BY <1>0, <2>1
<1>2. PICK i \in m + 1 .. j : Rise(l, i)
  BY <1>1 DEF LogOK
<1>3. i \notin Rises(l, m) /\ i \in Rises(l, Len(l))
  BY <1>0, <1>1, <1>2 DEF Rises
<1>4. Rises(l, m) \cup {i} \in SUBSET Rises(l, Len(l))
  BY <1>0, <1>3, <1>1 DEF Rises
<1>5. Cardinality(Rises(l, m) \cup {i}) = Cardinality(Rises(l, m)) + 1
  BY <1>1, <1>3, RisesFinite, FS_AddElement
<1> QED BY <1>0, <1>4, <1>5, RisesFinite, FS_Subset

\* Appending an event that a pod can have makes a log grow.
LEMMA AppendGrows ==
  ASSUME NEW l, LogOK(l), NEW e \in EventSet,
         e.type = "Added" => e.state = "created" /\ e.restarts = 0
  PROVE  Grows(l, Append(l, e))
<1> DEFINE m == Append(l, e)
<1>0. l \in Seq(EventSet) /\ Len(l) \in Nat /\ Len(l) >= 1
  BY DEF LogOK
<1>1. /\ m \in Seq(EventSet) /\ Len(m) = Len(l) + 1
      /\ m[Len(l) + 1] = e /\ \A i \in 1..Len(l) : m[i] = l[i]
  BY <1>0, AppendProperties
<1> HIDE DEF m
<1>2. \A i \in 2..Len(m) : m[i].type = "Added" => m[i].state = "created" /\ m[i].restarts = 0
  BY <1>0, <1>1 DEF LogOK
<1>3. ASSUME NEW a \in 1..Len(m), NEW j \in 1..Len(m), a < j, m[a].restarts < m[j].restarts
      PROVE  \E i \in a + 1 .. j : Rise(m, i)
  <2>0. \A i \in 2..Len(l) : Rise(m, i) <=> Rise(l, i)
    BY <1>0, <1>1 DEF Rise
  <2>1. \A i \in 1..Len(m) : m[i].restarts \in Nat
    BY <1>1, EventOf
  <2>2. CASE j <= Len(l)
    <3>1. l[a].restarts < l[j].restarts
      BY <1>0, <1>1, <1>3, <2>2
    <3>2. PICK i \in a + 1 .. j : Rise(l, i)
      BY <1>0, <1>3, <2>2, <3>1 DEF LogOK
    <3> QED BY <1>0, <1>3, <2>0, <2>2, <3>2
  <2>3. CASE j = Len(l) + 1 /\ m[Len(l)].restarts < m[j].restarts
    <3>1. Rise(m, j)
      BY <1>0, <2>3 DEF Rise
    <3> QED BY <1>0, <1>3, <2>3, <3>1
  <2>4. CASE j = Len(l) + 1 /\ m[Len(l)].restarts >= m[j].restarts
    <3>1. a < Len(l) /\ m[a].restarts < m[Len(l)].restarts
      BY <1>0, <1>1, <1>3, <2>1, <2>4
    <3>2. PICK i \in a + 1 .. Len(l) : Rise(l, i)
      BY <1>0, <1>1, <3>1 DEF LogOK
    <3> QED BY <1>0, <1>3, <2>0, <2>4, <3>2
  <2> QED BY <1>0, <1>1, <2>1, <2>2, <2>3, <2>4
<1>4. LogOK(m)
  BY <1>0, <1>1, <1>2, <1>3 DEF LogOK
<1> QED BY <1>0, <1>1, <1>4 DEF Grows, m

\* What was true of a log is true of a longer one.
LEMMA RisesKept ==
  ASSUME NEW l, NEW g, Grows(l, g), NEW m \in 1..Len(l)
  PROVE  Rises(g, m) = Rises(l, m)
<1>1. \A i \in 2..m : g[i] = l[i] /\ g[i - 1] = l[i - 1]
  BY DEF Grows, LogOK
<1> QED BY <1>1 DEF Rises, Rise

LEMMA WaitGrows ==
  ASSUME NEW l, NEW g, Grows(l, g), NEW c, NEW w, WaitOK(l, c, w)
  PROVE  WaitOK(g, c, w)
BY DEF Grows, LogOK, WaitOK, WaitSet

LEMMA LoopGrows ==
  ASSUME NEW l, NEW g, Grows(l, g), NEW c, NEW w, NEW b, NEW f, NEW n, NEW k, NEW r,
         LoopOK(l, c, w, b, f, n, k, r)
  PROVE  LoopOK(g, c, w, b, f, n, k, r)
<1>0. /\ Len(l) \in Nat /\ Len(g) \in Nat /\ 1 <= Len(l) /\ Len(l) <= Len(g)
      /\ \A i \in 1..Len(l) : g[i] = l[i]
  BY DEF Grows, LogOK
<1>1. WaitOK(g, c, w)
  BY WaitGrows DEF LoopOK
<1>2. n <= Cardinality(Rises(g, Len(g)))
  <2>1. Rises(g, Len(l)) = Rises(l, Len(l))
    BY <1>0, RisesKept
  <2>2. Cardinality(Rises(g, Len(l))) <= Cardinality(Rises(g, Len(g)))
    BY <1>0, RisesMonotone
  <2> QED BY <1>0, <2>1, <2>2, RisesFinite DEF LoopOK
<1>3. ASSUME c \in {"kill", "killed"} \/ w.for = "restarted"
      PROVE  \E m \in 1..Len(g) : /\ g[m].restarts = b
                                  /\ n <= Cardinality(Rises(g, m))
                                  /\ c \in {"get", "select"} => m <= w.start
  <2>1. PICK m \in 1..Len(l) : /\ l[m].restarts = b
                               /\ n <= Cardinality(Rises(l, m))
                               /\ c \in {"get", "select"} => m <= w.start
    BY <1>3 DEF LoopOK
  <2> QED BY <1>0, <2>1, RisesKept
<1>4. c = "select" /\ g[Len(g)].type # "Deleted" =>
        \/ w.seen < Len(g)
        \/ w.for = "running" /\ g[Len(g)].state # "running"
        \/ w.for = "restarted" /\ g[Len(g)].restarts <= b
  <2>1. w.seen \in Nat /\ w.seen <= Len(l)
    BY DEF LoopOK, WaitOK, WaitSet
  <2>2. CASE Len(g) = Len(l)
    BY <1>0, <2>2 DEF LoopOK
  <2> QED BY <1>0, <2>1, <2>2
<1> QED BY <1>1, <1>2, <1>3, <1>4 DEF LoopOK

LEMMA StopGrows ==
  ASSUME NEW l, NEW g, Grows(l, g), NEW c, NEW w, NEW a, NEW r, StopOK(l, c, w, a, r)
  PROVE  StopOK(g, c, w, a, r)
<1>0. /\ Len(l) \in Nat /\ Len(g) \in Nat /\ 1 <= Len(l) /\ Len(l) <= Len(g)
      /\ \A i \in 1..Len(l) : g[i] = l[i]
  BY DEF Grows, LogOK
<1>1. WaitOK(g, c, w)
  BY WaitGrows DEF StopOK
<1>2. c \in Watching => a \in 1..Len(g) /\ g[a].type # "Deleted"
  BY <1>0 DEF StopOK
<1>3. c \in {"get", "select"} => \A i \in w.start + 1 .. w.seen : g[i].type # "Deleted"
  <2>1. w.seen \in Nat /\ w.start \in Nat /\ w.seen <= Len(l)
    BY DEF StopOK, WaitOK, WaitSet
  <2> QED BY <1>0, <2>1 DEF StopOK
<1>4. r = "ok" => a > 0 /\ \E i \in a + 1 .. Len(g) : g[i].type = "Deleted"
  <2>1. a \in Nat
    BY DEF StopOK
  <2> QED BY <1>0, <2>1 DEF StopOK
<1> QED BY <1>1, <1>2, <1>3, <1>4 DEF StopOK

-----------------------------------------------------------------------------
(* Steps of a crash loop *)

\* A wait that a task is not in.
Idling(l, w) ==
  /\ w \in WaitSet /\ w.for = "nothing" /\ ~w.closed
  /\ w.start <= w.seen /\ w.seen <= Len(l)

LEMMA NoWaitIdles == ASSUME NEW l, Len(l) \in Nat PROVE Idling(l, NoWait)
BY DEF Idling, NoWait, WaitSet

\* Count kills for one more crash are within the limit.
LEMMA KillsWithin ==
  ASSUME NEW n \in Nat, NEW f \in 0..MaxFailures, n < CrashCount
  PROVE  /\ n * MaxFailures + f <= CrashCount * MaxFailures
         /\ (n + 1) * MaxFailures = n * MaxFailures + MaxFailures
         /\ n * MaxFailures \in Nat /\ CrashCount * MaxFailures \in Nat
<1>1. CrashCount \in Nat /\ MaxFailures \in Nat
  OBVIOUS
<1>2. (n + 1) * MaxFailures = n * MaxFailures + MaxFailures
  BY <1>1
<1>3. (n + 1) * MaxFailures <= CrashCount * MaxFailures
  BY <1>1
<1>4. n * MaxFailures \in Nat /\ CrashCount * MaxFailures \in Nat
  BY <1>1
<1> QED BY <1>1, <1>2, <1>3, <1>4

\* A loop at the top goes on to the next crash or ends.
LEMMA TopOK ==
  ASSUME NEW l, NEW w, NEW b, NEW f, NEW n, NEW k, NEW r, LoopOK(l, "top", w, b, f, n, k, r)
  PROVE  /\ LoopOK(l, "done", w, b, f, n, k, "ok")
         /\ ~(CrashCount > 0 /\ n >= CrashCount) =>
              LoopOK(l, "watch", [w EXCEPT !.for = "running"], b, f, n, k, r)
<1> USE DEF LoopOK, WaitOK, WaitSet, Watching, Steps
<1>0. r = "none" /\ f \in 0..MaxFailures /\ f # MaxFailures /\ w.for = "nothing"
  OBVIOUS
<1>1. CrashCount > 0 => Budget("done", w, f, n, k)
  <2> SUFFICES ASSUME CrashCount > 0 PROVE Budget("done", w, f, n, k)
    OBVIOUS
  <2>1. /\ n <= CrashCount /\ (n = CrashCount => f = 0)
        /\ k <= n * MaxFailures + f /\ n \in Nat /\ k \in Nat
    BY <1>0 DEF Budget
  <2>2. k <= CrashCount * MaxFailures
    <3>1. CASE n = CrashCount
      BY <2>1, <3>1
    <3>2. CASE n < CrashCount
      BY <1>0, <2>1, <3>2, KillsWithin
    <3> QED BY <2>1, <3>1, <3>2
  <2> QED BY <2>1, <2>2 DEF Budget
<1>2. LoopOK(l, "done", w, b, f, n, k, "ok")
  BY <1>0, <1>1
<1>3. ASSUME ~(CrashCount > 0 /\ n >= CrashCount)
      PROVE  LoopOK(l, "watch", [w EXCEPT !.for = "running"], b, f, n, k, r)
  <2> DEFINE v == [w EXCEPT !.for = "running"]
  <2>1. v \in WaitSet /\ v.for = "running" /\ v.start = w.start /\ v.seen = w.seen /\ v.closed = w.closed
    OBVIOUS
  <2> HIDE DEF v
  <2>2. CrashCount > 0 => Budget("watch", v, f, n, k)
    BY <1>0, <1>3, <2>1 DEF Budget
  <2>3. WaitOK(l, "watch", v)
    BY <2>1
  <2>4. LoopOK(l, "watch", v, b, f, n, k, r)
    BY <1>0, <2>1, <2>2, <2>3
  <2> QED BY <2>4 DEF v
<1> QED BY <1>2, <1>3

\* A failed attempt, with or without one more kill: the wait is over.
LEMMA FailOK ==
  ASSUME NEW l, NEW c \in {"count", "kill"} \cup Watching, NEW w, NEW b, NEW f, NEW n, NEW k,
         NEW r, LoopOK(l, c, w, b, f, n, k, r),
         NEW v, Idling(l, v), NEW d \in 0..1, d = 1 => c = "kill"
  PROVE  /\ f + 1 >= MaxFailures => LoopOK(l, "done", v, b, f + 1, n, k + d, "error")
         /\ f + 1 < MaxFailures => LoopOK(l, "top", v, b, f + 1, n, k + d, r)
<1> USE DEF LoopOK, WaitOK, WaitSet, Watching, Steps, Idling
<1>0. /\ r = "none" /\ f \in 0..MaxFailures /\ f < MaxFailures /\ n \in Nat /\ k \in Nat
      /\ c # "top" /\ c # "done" /\ c # "killed"
  OBVIOUS
<1>1. CrashCount > 0 => /\ n < CrashCount
                        /\ k + d <= n * MaxFailures + f + 1
  BY <1>0 DEF Budget
<1>2. CrashCount > 0 /\ f + 1 >= MaxFailures => Budget("done", v, f + 1, n, k + d)
  BY <1>0, <1>1, KillsWithin DEF Budget
<1>3. CrashCount > 0 /\ f + 1 < MaxFailures => Budget("top", v, f + 1, n, k + d)
  BY <1>0, <1>1, KillsWithin DEF Budget
<1>4. f + 1 \in 0..MaxFailures /\ k + d \in Nat
  BY <1>0
<1>5. WaitOK(l, "done", v) /\ WaitOK(l, "top", v)
  OBVIOUS
<1> HIDE DEF WaitOK, WaitSet, Idling
<1>6. v.for = "nothing"
  BY DEF Idling
<1> QED BY <1>0, <1>2, <1>3, <1>4, <1>5, <1>6

\* The restart count is read at the end of the log.
LEMMA CountOK ==
  ASSUME NEW l, LogOK(l), NEW w, NEW b, NEW f, NEW n, NEW k, NEW r,
         LoopOK(l, "count", w, b, f, n, k, r)
  PROVE  LoopOK(l, "kill", w, l[Len(l)].restarts, f, n, k, r)
<1>1. Len(l) \in 1..Len(l) /\ l[Len(l)].restarts \in Nat
  BY EventOf DEF LogOK
<1>2. WaitOK(l, "kill", w) /\ w.for = "nothing"
  BY DEF LoopOK, WaitOK, Watching
<1>3. CrashCount > 0 => Budget("kill", w, f, n, k)
  BY DEF LoopOK, Budget
<1> QED BY <1>1, <1>2, <1>3 DEF LoopOK, Steps

\* The exec of the kill reports success, with or without effect.
LEMMA KillOK ==
  ASSUME NEW l, NEW w, NEW b, NEW f, NEW n, NEW k, NEW r,
         LoopOK(l, "kill", w, b, f, n, k, r), NEW d \in 0..1
  PROVE  LoopOK(l, "killed", w, b, f, n, k + d, r)
<1>1. WaitOK(l, "killed", w) /\ w.for = "nothing" /\ k \in Nat
  BY DEF LoopOK, WaitOK, Watching
<1>2. CrashCount > 0 => Budget("killed", w, f, n, k + d)
  <2>1. n \in Nat /\ f \in Nat /\ n * MaxFailures \in Nat
    BY DEF LoopOK
  <2> QED BY <1>1, <2>1 DEF LoopOK, Budget
<1> QED BY <1>1, <1>2 DEF LoopOK, Steps

\* After a kill, the loop ends because its time is up or waits for a restart.
LEMMA KilledOK ==
  ASSUME NEW l, NEW w, NEW b, NEW f, NEW n, NEW k, NEW r, LoopOK(l, "killed", w, b, f, n, k, r)
  PROVE  /\ LoopOK(l, "done", w, b, f, n, k, "ok")
         /\ LoopOK(l, "watch", [w EXCEPT !.for = "restarted"], b, f, n, k, r)
<1>0. /\ r = "none" /\ f \in 0..MaxFailures /\ f < MaxFailures /\ n \in Nat /\ k \in Nat
      /\ w.for = "nothing" /\ w \in WaitSet
  BY DEF LoopOK, WaitOK, Watching
<1>1. LoopOK(l, "done", w, b, f, n, k, "ok")
  <2>1. CrashCount > 0 => Budget("done", w, f, n, k)
    <3> SUFFICES ASSUME CrashCount > 0 PROVE Budget("done", w, f, n, k)
      OBVIOUS
    <3>1. n < CrashCount /\ k <= n * MaxFailures + f + 1
      BY <1>0 DEF LoopOK, Budget
    <3> QED BY <1>0, <3>1, KillsWithin DEF Budget
  <2>2. WaitOK(l, "done", w)
    BY DEF LoopOK, WaitOK, Watching
  <2> QED BY <1>0, <2>1, <2>2 DEF LoopOK, Steps
<1>2. LoopOK(l, "watch", [w EXCEPT !.for = "restarted"], b, f, n, k, r)
  <2> DEFINE v == [w EXCEPT !.for = "restarted"]
  <2>1. /\ v \in WaitSet /\ v.for = "restarted" /\ v.start = w.start /\ v.seen = w.seen
        /\ v.closed = w.closed
    BY <1>0 DEF WaitSet
  <2> HIDE DEF v
  <2>2. CrashCount > 0 => Budget("watch", v, f, n, k)
    BY <1>0, <2>1 DEF LoopOK, Budget
  <2>3. WaitOK(l, "watch", v)
    BY <2>1 DEF LoopOK, WaitOK, Watching
  <2>4. LoopOK(l, "watch", v, b, f, n, k, r)
    BY <1>0, <2>1, <2>2, <2>3 DEF LoopOK, Steps
  <2> QED BY <2>4 DEF v
<1> QED BY <1>1, <1>2

\* The waits of a loop: the watch starts where the log ends, ...
LEMMA LoopWatches ==
  ASSUME NEW l, LogOK(l), NEW w, NEW b, NEW f, NEW n, NEW k, NEW r,
         LoopOK(l, "watch", w, b, f, n, k, r)
  PROVE  LoopOK(l, "get", [w EXCEPT !.start = Len(l), !.seen = Len(l)], b, f, n, k, r)
<1> DEFINE v == [w EXCEPT !.start = Len(l), !.seen = Len(l)]
<1>0. w \in WaitSet /\ Len(l) \in Nat /\ Len(l) >= 1
  BY DEF LoopOK, WaitOK, LogOK
<1>1. /\ v \in WaitSet /\ v.for = w.for /\ v.start = Len(l) /\ v.seen = Len(l)
      /\ v.closed = w.closed
  BY <1>0 DEF WaitSet
<1> HIDE DEF v
<1>2. WaitOK(l, "get", v)
  BY <1>0, <1>1 DEF LoopOK, WaitOK, Watching
<1>3. CrashCount > 0 => Budget("get", v, f, n, k)
  BY <1>1 DEF LoopOK, Budget
<1>4. LoopOK(l, "get", v, b, f, n, k, r)
  BY <1>0, <1>1, <1>2, <1>3 DEF LoopOK, Steps
<1> QED BY <1>4 DEF v

\* ... goes on while the object does not have what is awaited, ...
LEMMA LoopSelects ==
  ASSUME NEW l, LogOK(l), NEW w, NEW b, NEW f, NEW n, NEW k, NEW r,
         LoopOK(l, "get", w, b, f, n, k, r),
         w.for = "running" => l[Len(l)].state # "running",
         w.for = "restarted" => l[Len(l)].restarts <= b
  PROVE  LoopOK(l, "select", w, b, f, n, k, r)
<1>1. WaitOK(l, "select", w) /\ w.for \in {"running", "restarted"}
  BY DEF LoopOK, WaitOK, WaitSet, Watching
<1>2. CrashCount > 0 => Budget("select", w, f, n, k)
  BY DEF LoopOK, Budget
<1> QED BY <1>1, <1>2 DEF LoopOK, Steps

\* ... passes the events that do not decide it, ...
LEMMA LoopPasses ==
  ASSUME NEW l, LogOK(l), NEW w, NEW b, NEW f, NEW n, NEW k, NEW r,
         LoopOK(l, "select", w, b, f, n, k, r), w.seen < Len(l),
         ~(/\ l[w.seen + 1].type = "Modified"
           /\ \/ w.for = "running" /\ l[w.seen + 1].state = "running"
              \/ w.for = "restarted" /\ l[w.seen + 1].restarts > b)
  PROVE  LoopOK(l, "select", [w EXCEPT !.seen = @ + 1], b, f, n, k, r)
<1> DEFINE v == [w EXCEPT !.seen = @ + 1]
<1>0. /\ w \in WaitSet /\ Len(l) \in Nat /\ Len(l) >= 1 /\ w.start >= 1
      /\ w.for \in {"running", "restarted"} /\ w.start <= w.seen
      /\ w.start \in Nat /\ w.seen \in Nat /\ b \in Nat
  BY DEF LoopOK, WaitOK, LogOK, Watching, WaitSet
<1>1. /\ v \in WaitSet /\ v.for = w.for /\ v.start = w.start /\ v.seen = w.seen + 1
      /\ v.closed = w.closed
  BY <1>0 DEF WaitSet
<1> HIDE DEF v
<1>2. WaitOK(l, "select", v)
  BY <1>0, <1>1 DEF LoopOK, WaitOK, Watching
<1>3. CrashCount > 0 => Budget("select", v, f, n, k)
  BY <1>1 DEF LoopOK, Budget
<1>4. l[Len(l)].type # "Deleted" =>
        \/ v.seen < Len(l)
        \/ v.for = "running" /\ l[Len(l)].state # "running"
        \/ v.for = "restarted" /\ l[Len(l)].restarts <= b
  <2> SUFFICES ASSUME l[Len(l)].type # "Deleted", v.seen >= Len(l)
               PROVE  \/ w.for = "running" /\ l[Len(l)].state # "running"
                      \/ w.for = "restarted" /\ l[Len(l)].restarts <= b
    BY <1>0, <1>1
  <2>1. w.seen + 1 = Len(l) /\ Len(l) \in 2..Len(l)
    BY <1>0, <1>1
  <2>2. l[Len(l)].type \in {"Added", "Modified"} /\ l[Len(l)].restarts \in Nat
    BY <2>1, EventOf DEF LogOK
  <2>3. CASE l[Len(l)].type = "Added"
    BY <1>0, <2>1, <2>3 DEF LogOK
  <2>4. CASE l[Len(l)].type = "Modified"
    BY <1>0, <2>1, <2>2, <2>4
  <2> QED BY <2>2, <2>3, <2>4
<1>5. LoopOK(l, "select", v, b, f, n, k, r)
  BY <1>0, <1>1, <1>2, <1>3, <1>4 DEF LoopOK, Steps
<1> QED BY <1>5 DEF v

\* ... may be closed, ...
LEMMA LoopCloses ==
  ASSUME NEW l, NEW w, NEW b, NEW f, NEW n, NEW k, NEW r,
         LoopOK(l, "select", w, b, f, n, k, r)
  PROVE  LoopOK(l, "select", [w EXCEPT !.closed = TRUE], b, f, n, k, r)
<1> DEFINE v == [w EXCEPT !.closed = TRUE]
<1>0. w \in WaitSet
  BY DEF LoopOK, WaitOK
<1>1. v \in WaitSet /\ v.for = w.for /\ v.start = w.start /\ v.seen = w.seen
  BY <1>0 DEF WaitSet
<1> HIDE DEF v
<1>2. WaitOK(l, "select", v)
  BY <1>0, <1>1 DEF LoopOK, WaitOK, Watching
<1>3. CrashCount > 0 => Budget("select", v, f, n, k)
  BY <1>1 DEF LoopOK, Budget
<1>4. LoopOK(l, "select", v, b, f, n, k, r)
  BY <1>0, <1>1, <1>2, <1>3 DEF LoopOK, Steps
<1> QED BY <1>4 DEF v

\* ... and ends when the container runs,
LEMMA LoopRuns ==
  ASSUME NEW l, NEW c, NEW w, NEW b, NEW f, NEW n, NEW k, NEW r, NEW v,
         LoopOK(l, c, w, b, f, n, k, r), c \in Watching, w.for = "running", Idling(l, v)
  PROVE  LoopOK(l, "count", v, b, f, n, k, r)
<1>1. WaitOK(l, "count", v) /\ v.for = "nothing"
  BY DEF LoopOK, WaitOK, Watching, Idling
<1>2. CrashCount > 0 => Budget("count", v, f, n, k)
  BY <1>1 DEF LoopOK, Budget, Watching
<1>3. r = "none"
  BY DEF LoopOK, Watching
<1> QED BY <1>1, <1>2, <1>3 DEF LoopOK, Steps

\* or at an event that the watch has reached and that has more restarts than
\* were counted: one crash more is verified.
LEMMA LoopRestarts ==
  ASSUME NEW l, LogOK(l), NEW c \in {"get", "select"}, NEW w, NEW b, NEW f, NEW n, NEW k, NEW r,
         NEW v, LoopOK(l, c, w, b, f, n, k, r), w.for = "restarted", Idling(l, v),
         NEW j \in 1..Len(l), w.start <= j, l[j].restarts > b
  PROVE  LoopOK(l, "top", v, b, 0, n + 1, k, r)
<1>1. WaitOK(l, "top", v) /\ v.for = "nothing" /\ r = "none"
  BY DEF LoopOK, WaitOK, Watching, Idling
<1>0. /\ n \in Nat /\ f \in 0..MaxFailures /\ f < MaxFailures /\ k \in Nat
      /\ w.start \in Nat /\ Len(l) \in Nat
  BY <1>1 DEF LoopOK, WaitOK, WaitSet, LogOK
<1>2. PICK m \in 1..Len(l) : /\ l[m].restarts = b
                             /\ n <= Cardinality(Rises(l, m))
                             /\ m <= w.start
  BY DEF LoopOK
<1>3. Cardinality(Rises(l, m)) + 1 <= Cardinality(Rises(l, Len(l)))
  BY <1>0, <1>2, RiseCounted
<1>4. n + 1 <= Cardinality(Rises(l, Len(l)))
  BY <1>0, <1>2, <1>3, RisesFinite
<1>5. CrashCount > 0 => Budget("top", v, 0, n + 1, k)
  <2> SUFFICES ASSUME CrashCount > 0 PROVE Budget("top", v, 0, n + 1, k)
    OBVIOUS
  <2>1. n < CrashCount /\ k <= n * MaxFailures + f + 1
    BY <1>0 DEF LoopOK, Budget
  <2>2. k <= (n + 1) * MaxFailures + 0
    BY <1>0, <2>1, KillsWithin
  <2> QED BY <1>0, <1>1, <2>1, <2>2 DEF Budget
<1> QED BY <1>0, <1>1, <1>4, <1>5 DEF LoopOK, Steps

-----------------------------------------------------------------------------
(* Steps of a Terminate *)

\* The pod is deleted by its name while it exists.
LEMMA StopDeletes ==
  ASSUME NEW l, LogOK(l), NEW w, NEW a, NEW r, StopOK(l, "delete", w, a, r)
  PROVE  /\ l[Len(l)].type # "Deleted" =>
              StopOK(l, "watch", [w EXCEPT !.for = "deleted"], Len(l), r)
         /\ StopOK(l, "done", w, a, "error")
<1> DEFINE v == [w EXCEPT !.for = "deleted"]
<1>0. w \in WaitSet /\ w.for = "nothing" /\ r = "none" /\ Len(l) \in 1..Len(l) /\ Len(l) \in Nat
  BY DEF StopOK, WaitOK, LogOK, Watching
<1>1. /\ v \in WaitSet /\ v.for = "deleted" /\ v.start = w.start /\ v.seen = w.seen
      /\ v.closed = w.closed
  BY <1>0 DEF WaitSet
<1> HIDE DEF v
<1>2. WaitOK(l, "watch", v) /\ WaitOK(l, "done", w)
  BY <1>0, <1>1 DEF StopOK, WaitOK, Watching
<1>3. l[Len(l)].type # "Deleted" => StopOK(l, "watch", v, Len(l), r)
  BY <1>0, <1>1, <1>2 DEF StopOK, Watching
<1>4. StopOK(l, "done", w, a, "error")
  BY <1>0, <1>2 DEF StopOK, Watching
<1> QED BY <1>3, <1>4 DEF v

\* Its wait: the watch starts where the log ends, ...
LEMMA StopWatches ==
  ASSUME NEW l, LogOK(l), NEW w, NEW a, NEW r, StopOK(l, "watch", w, a, r)
  PROVE  StopOK(l, "get", [w EXCEPT !.start = Len(l), !.seen = Len(l)], a, r)
<1> DEFINE v == [w EXCEPT !.start = Len(l), !.seen = Len(l)]
<1>0. w \in WaitSet /\ Len(l) \in Nat /\ Len(l) >= 1
  BY DEF StopOK, WaitOK, LogOK
<1>1. /\ v \in WaitSet /\ v.for = w.for /\ v.start = Len(l) /\ v.seen = Len(l)
      /\ v.closed = w.closed
  BY <1>0 DEF WaitSet
<1> HIDE DEF v
<1>2. WaitOK(l, "get", v)
  BY <1>0, <1>1 DEF StopOK, WaitOK, Watching
<1>3. StopOK(l, "get", v, a, r)
  BY <1>0, <1>1, <1>2 DEF StopOK, Watching
<1> QED BY <1>3 DEF v

\* ... goes on, ...
LEMMA StopSelects ==
  ASSUME NEW l, NEW w, NEW a, NEW r, StopOK(l, "get", w, a, r)
  PROVE  StopOK(l, "select", w, a, r)
<1>1. WaitOK(l, "select", w)
  BY DEF StopOK, WaitOK, Watching
<1> QED BY <1>1 DEF StopOK, Watching

\* ... passes the events that are no deletion, ...
LEMMA StopPasses ==
  ASSUME NEW l, LogOK(l), NEW w, NEW a, NEW r, StopOK(l, "select", w, a, r), w.seen < Len(l),
         l[w.seen + 1].type # "Deleted"
  PROVE  StopOK(l, "select", [w EXCEPT !.seen = @ + 1], a, r)
<1> DEFINE v == [w EXCEPT !.seen = @ + 1]
<1>0. w \in WaitSet /\ Len(l) \in Nat /\ w.start \in Nat /\ w.seen \in Nat
  BY DEF StopOK, WaitOK, LogOK, WaitSet
<1>1. /\ v \in WaitSet /\ v.for = w.for /\ v.start = w.start /\ v.seen = w.seen + 1
      /\ v.closed = w.closed
  BY <1>0 DEF WaitSet
<1> HIDE DEF v
<1>2. WaitOK(l, "select", v)
  BY <1>0, <1>1 DEF StopOK, WaitOK, Watching
<1>3. StopOK(l, "select", v, a, r)
  BY <1>0, <1>1, <1>2 DEF StopOK, Watching
<1> QED BY <1>3 DEF v

\* ... may be closed, ...
LEMMA StopCloses ==
  ASSUME NEW l, NEW w, NEW a, NEW r, StopOK(l, "select", w, a, r)
  PROVE  StopOK(l, "select", [w EXCEPT !.closed = TRUE], a, r)
<1> DEFINE v == [w EXCEPT !.closed = TRUE]
<1>0. w \in WaitSet
  BY DEF StopOK, WaitOK
<1>1. v \in WaitSet /\ v.for = w.for /\ v.start = w.start /\ v.seen = w.seen
  BY <1>0 DEF WaitSet
<1> HIDE DEF v
<1>2. WaitOK(l, "select", v)
  BY <1>0, <1>1 DEF StopOK, WaitOK, Watching
<1>3. StopOK(l, "select", v, a, r)
  BY <1>0, <1>1, <1>2 DEF StopOK, Watching
<1> QED BY <1>3 DEF v

\* ... and ends with an error, or at a deletion that the watch has reached.
LEMMA StopEnds ==
  ASSUME NEW l, LogOK(l), NEW c \in Watching, NEW w, NEW a, NEW r, NEW v,
         StopOK(l, c, w, a, r), Idling(l, v)
  PROVE  /\ StopOK(l, "done", v, a, "error")
         /\ \A j \in 1..Len(l) :
              c \in {"get", "select"} /\ w.start <= j /\ l[j].type = "Deleted" =>
                StopOK(l, "done", v, a, "ok")
<1>1. WaitOK(l, "done", v) /\ v.for = "nothing"
  BY DEF WaitOK, Watching, Idling
<1>2. StopOK(l, "done", v, a, "error")
  BY <1>1 DEF StopOK, Watching
<1>3. ASSUME NEW j \in 1..Len(l), c \in {"get", "select"}, w.start <= j, l[j].type = "Deleted"
      PROVE  StopOK(l, "done", v, a, "ok")
  <2>1. a \in 1..Len(l) /\ l[a].type # "Deleted" /\ a <= w.start /\ w.start \in Nat
    BY <1>3 DEF StopOK, Watching, WaitOK, WaitSet
  <2>2. Len(l) \in Nat /\ a # j
    BY <1>3, <2>1 DEF LogOK
  <2>3. j \in a + 1 .. Len(l) /\ a > 0
    BY <1>3, <2>1, <2>2
  <2> QED BY <1>1, <1>3, <2>1, <2>3 DEF StopOK, Watching
<1> QED BY <1>2, <1>3

-----------------------------------------------------------------------------
(* The invariant *)

\* A step of the loop of one pod, and of the Terminate of one pod, changes
\* nothing of the other tasks.
Functions8 ==
  /\ pc' = [t \in Task |-> pc'[t]] /\ wait' = [t \in Task |-> wait'[t]]
  /\ result' = [t \in Task |-> result'[t]]
  /\ before' = [p \in Pod |-> before'[p]] /\ failures' = [p \in Pod |-> failures'[p]]
  /\ crashes' = [p \in Pod |-> crashes'[p]] /\ kills' = [p \in Pod |-> kills'[p]]
  /\ aim' = [p \in Pod |-> aim'[p]]

SameTask(t) == pc'[t] = pc[t] /\ wait'[t] = wait[t] /\ result'[t] = result[t]
SameLoop(p) == /\ before'[p] = before[p] /\ failures'[p] = failures[p]
               /\ crashes'[p] = crashes[p] /\ kills'[p] = kills[p]

OnlyLoop(p) ==
  /\ log' = log /\ doomed' \in [Pod -> BOOLEAN] /\ alive' \in [Pod -> BOOLEAN]
  /\ UNCHANGED callVars
  /\ Functions8
  /\ \A q \in Pod : /\ SameTask(<<"terminate", q>>) /\ aim'[q] = aim[q]
                    /\ q # p => SameTask(<<"crash", q>>) /\ SameLoop(q)
  /\ pc[<<"crash", p>>] \notin {"idle", "done"}
  /\ crashes'[p] \in {crashes[p], crashes[p] + 1}

OnlyStop(p) ==
  /\ log' = log /\ doomed' \in [Pod -> BOOLEAN] /\ alive' \in [Pod -> BOOLEAN]
  /\ UNCHANGED callVars
  /\ Functions8
  /\ \A q \in Pod : /\ SameTask(<<"crash", q>>) /\ SameLoop(q)
                    /\ q # p => SameTask(<<"terminate", q>>) /\ aim'[q] = aim[q]
  /\ pc[<<"terminate", p>>] \notin {"idle", "done"}

\* What the values of the pods say of the variables.
LEMMA ShapeFromPods ==
  ASSUME Functions8, \A p \in Pod : Loop(p)' /\ Stop(p)'
  PROVE  /\ pc' \in [Task -> Steps] /\ wait' \in [Task -> WaitSet]
         /\ before' \in [Pod -> Nat] /\ failures' \in [Pod -> 0..MaxFailures]
         /\ crashes' \in [Pod -> Nat] /\ kills' \in [Pod -> Nat] /\ aim' \in [Pod -> Nat]
         /\ result' \in [Task -> {"none", "ok", "error"}]
<1>1. ASSUME NEW p \in Pod
      PROVE  /\ before'[p] \in Nat /\ failures'[p] \in 0..MaxFailures
             /\ crashes'[p] \in Nat /\ kills'[p] \in Nat /\ aim'[p] \in Nat
             /\ pc'[<<"crash", p>>] \in Steps /\ wait'[<<"crash", p>>] \in WaitSet
             /\ result'[<<"crash", p>>] \in {"none", "ok", "error"}
             /\ pc'[<<"terminate", p>>] \in Steps /\ wait'[<<"terminate", p>>] \in WaitSet
             /\ result'[<<"terminate", p>>] \in {"none", "ok", "error"}
  BY DEF Loop, Stop, LoopOK, StopOK, WaitOK, Steps, Watching
<1>2. ASSUME NEW t \in Task
      PROVE  /\ pc'[t] \in Steps /\ wait'[t] \in WaitSet
             /\ result'[t] \in {"none", "ok", "error"}
  <2>1. PICK p \in Pod : t = <<"crash", p>> \/ t = <<"terminate", p>>
    BY DEF Task, Fault
  <2> QED BY <1>1, <2>1
<1> QED BY <1>1, <1>2 DEF Functions8

LEMMA LoopFrame ==
  ASSUME IInv, NEW p \in Pod, OnlyLoop(p), Loop(p)'
  PROVE  IInv'
<1>0. Shape /\ Calls /\ \A q \in Pod : LogOK(log[q]) /\ Loop(q) /\ Stop(q)
  BY DEF IInv
<1>1. ASSUME NEW q \in Pod PROVE LogOK(log'[q]) /\ Loop(q)' /\ Stop(q)'
  BY <1>0 DEF OnlyLoop, SameTask, SameLoop, Loop, Stop
<1>2. Shape'
  <2>1. Functions8 /\ log' = log /\ UNCHANGED callVars
    BY DEF OnlyLoop
  <2>2. doomed' \in [Pod -> BOOLEAN] /\ alive' \in [Pod -> BOOLEAN]
    BY DEF OnlyLoop
  <2> QED BY <1>0, <1>1, <2>1, <2>2, ShapeFromPods DEF Shape, callVars
<1>3. Calls'
  <2>0. /\ call' = call /\ chosen' = chosen
        /\ \A q \in Pod : SameTask(<<"terminate", q>>)
        /\ \A q \in Pod : q # p => SameTask(<<"crash", q>>) /\ crashes'[q] = crashes[q]
        /\ pc[<<"crash", p>>] \notin {"idle", "done"}
        /\ crashes'[p] \in {crashes[p], crashes[p] + 1}
        /\ crashes[p] \in Nat /\ chosen \subseteq Pod /\ Looped \subseteq Pod
    BY <1>0 DEF OnlyLoop, callVars, SameLoop, Shape, Pod
  <2>1. ASSUME NEW f \in Fault, call[f] = "idle", NEW q \in Pod
        PROVE  pc'[<<f, q>>] = "idle"
    BY <1>0, <2>0, <2>1 DEF Calls, Fault, SameTask
  <2>2. ASSUME call["crash"] = "ok"
        PROVE  /\ \E q \in Pod : crashes'[q] > 0
               /\ \A q \in Looped : pc'[<<"crash", q>>] = "done"
    <3>1. PICK q \in Pod : crashes[q] > 0
      BY <1>0, <2>2 DEF Calls
    <3>2. crashes'[q] > 0
      <4>1. CASE q = p
        BY <2>0, <3>1, <4>1
      <4>2. CASE q # p
        <5>1. crashes'[q] = crashes[q]
          BY <2>0, <4>2, Zenon
        <5> QED BY <3>1, <5>1
      <4> QED BY <4>1, <4>2
    <3>3. \A o \in Looped : o # p /\ pc[<<"crash", o>>] = "done"
      BY <1>0, <2>0, <2>2 DEF Calls
    <3>4. \A o \in Looped : pc'[<<"crash", o>>] = "done"
      BY <2>0, <3>3 DEF SameTask
    <3> QED BY <3>2, <3>4
  <2>3. ASSUME call["terminate"] = "ok"
        PROVE  \A q \in chosen : result'[<<"terminate", q>>] = "ok"
    BY <1>0, <2>0, <2>3 DEF Calls, SameTask
  <2> QED BY <2>0, <2>1, <2>2, <2>3 DEF Calls
<1> QED BY <1>1, <1>2, <1>3 DEF IInv

LEMMA StopFrame ==
  ASSUME IInv, NEW p \in Pod, OnlyStop(p), Stop(p)'
  PROVE  IInv'
<1>0. Shape /\ Calls /\ \A q \in Pod : LogOK(log[q]) /\ Loop(q) /\ Stop(q)
  BY DEF IInv
<1>1. ASSUME NEW q \in Pod PROVE LogOK(log'[q]) /\ Loop(q)' /\ Stop(q)'
  BY <1>0 DEF OnlyStop, SameTask, SameLoop, Loop, Stop
<1>2. Shape'
  <2>1. Functions8 /\ log' = log /\ UNCHANGED callVars
    BY DEF OnlyStop
  <2>2. doomed' \in [Pod -> BOOLEAN] /\ alive' \in [Pod -> BOOLEAN]
    BY DEF OnlyStop
  <2> QED BY <1>0, <1>1, <2>1, <2>2, ShapeFromPods DEF Shape, callVars
<1>3. Calls'
  <2>0. /\ call' = call /\ chosen' = chosen
        /\ \A q \in Pod : SameTask(<<"crash", q>>) /\ crashes'[q] = crashes[q]
        /\ \A q \in Pod : q # p => SameTask(<<"terminate", q>>)
        /\ pc[<<"terminate", p>>] \notin {"idle", "done"}
        /\ chosen \subseteq Pod /\ Looped \subseteq Pod
    BY <1>0 DEF OnlyStop, callVars, SameLoop, Shape, Pod
  <2>1. ASSUME NEW f \in Fault, call[f] = "idle", NEW q \in Pod
        PROVE  pc'[<<f, q>>] = "idle"
    BY <1>0, <2>0, <2>1 DEF Calls, Fault, SameTask
  <2>2. ASSUME call["crash"] = "ok"
        PROVE  /\ \E q \in Pod : crashes'[q] > 0
               /\ \A q \in Looped : pc'[<<"crash", q>>] = "done"
    BY <1>0, <2>0, <2>2 DEF Calls, SameTask
  <2>3. ASSUME call["terminate"] = "ok", NEW q \in chosen
        PROVE  result'[<<"terminate", q>>] = "ok"
    <3>1. result[<<"terminate", q>>] = "ok" /\ q \in Pod
      BY <1>0, <2>0, <2>3 DEF Calls
    <3>2. pc[<<"terminate", q>>] = "done"
      BY <1>0, <3>1 DEF Stop, StopOK
    <3> QED BY <2>0, <3>1, <3>2 DEF SameTask
  <2> QED BY <2>0, <2>1, <2>2, <2>3 DEF Calls
<1> QED BY <1>1, <1>2, <1>3 DEF IInv

\* A step of a pod, of the deadline or of the caller lets the logs grow and
\* leaves the tasks alone.
OnlyPods ==
  /\ UNCHANGED <<wait, loopVars, chosen, call, pc, aim, result>>
  /\ log' = [p \in Pod |-> log'[p]]
  /\ \A p \in Pod : log'[p] = log[p] \/ Grows(log[p], log'[p])
  /\ alive' \in [Pod -> BOOLEAN] /\ doomed' \in [Pod -> BOOLEAN]
  /\ ctx' \in [Fault -> {"open", "cancelled"}] /\ due' \in BOOLEAN

LEMMA PodsFrame == ASSUME IInv, OnlyPods PROVE IInv'
<1>0. Shape /\ Calls /\ \A q \in Pod : LogOK(log[q]) /\ Loop(q) /\ Stop(q)
  BY DEF IInv
<1>1. ASSUME NEW q \in Pod PROVE LogOK(log'[q]) /\ Loop(q)' /\ Stop(q)'
  <2>1. CASE log'[q] = log[q]
    BY <1>0, <2>1 DEF OnlyPods, Loop, Stop, loopVars
  <2>2. CASE Grows(log[q], log'[q])
    <3>1. LogOK(log'[q])
      BY <2>2 DEF Grows
    <3>2. Loop(q)'
      BY <1>0, <2>2, LoopGrows DEF OnlyPods, Loop, loopVars
    <3>3. Stop(q)'
      BY <1>0, <2>2, StopGrows DEF OnlyPods, Stop
    <3> QED BY <3>1, <3>2, <3>3
  <2> QED BY <2>1, <2>2 DEF OnlyPods
<1>2. log' \in [Pod -> Seq(EventSet)]
  BY <1>1 DEF OnlyPods, LogOK
<1>3. Shape'
  BY <1>0, <1>2 DEF OnlyPods, Shape, loopVars
<1>4. Calls'
  BY <1>0 DEF OnlyPods, Calls, loopVars
<1> QED BY <1>1, <1>3, <1>4 DEF IInv

\* The event that a pod appends to its log.
LEMMA RecordGrows ==
  ASSUME IInv, NEW p \in Pod, NEW e \in EventSet,
         e.type = "Added" => e.state = "created" /\ e.restarts = 0, Record(p, e)
  PROVE  /\ log' = [q \in Pod |-> log'[q]]
         /\ \A q \in Pod : log'[q] = log[q] \/ Grows(log[q], log'[q])
<1>1. log \in [Pod -> Seq(EventSet)] /\ LogOK(log[p])
  BY DEF IInv, Shape
<1>2. log' = [log EXCEPT ![p] = Append(log[p], e)]
  BY DEF Record
<1>3. log'[p] = Append(log[p], e) /\ \A q \in Pod \ {p} : log'[q] = log[q]
  BY <1>1, <1>2
<1>4. Grows(log[p], log'[p])
  BY <1>1, <1>3, AppendGrows
<1>5. log' = [q \in Pod |-> log'[q]]
  BY <1>1, <1>2
<1> QED BY <1>3, <1>4, <1>5

LEMMA ClusterKeeps == ASSUME IInv, NEW p \in Pod, Cluster(p) PROVE IInv'
<1>0. Shape /\ LogOK(log[p]) /\ Len(log[p]) \in 1..Len(log[p])
  BY DEF IInv, LogOK
<1>1. /\ Current(p) \in EventSet /\ Current(p).restarts \in Nat
      /\ Current(p).restarts + 1 \in Nat /\ Current(p).restarts + 0 \in Nat
  BY <1>0, EventOf DEF Current, LogOK
<1>2. UNCHANGED <<wait, loopVars, callVars, pc, aim, result>> /\ alive' \in [Pod -> BOOLEAN]
      /\ doomed' \in [Pod -> BOOLEAN]
  <2>1. UNCHANGED <<wait, loopVars, callVars, pc, aim, result>>
    BY Zenon DEF Cluster, ReportDown, StartContainer, Die, Evict, Vanish, Recreate
  <2>2. /\ alive' \in {alive, [alive EXCEPT ![p] = TRUE], [alive EXCEPT ![p] = FALSE]}
        /\ doomed' \in {doomed, [doomed EXCEPT ![p] = TRUE], [doomed EXCEPT ![p] = FALSE]}
    BY Zenon DEF Cluster, ReportDown, StartContainer, Die, Evict, Vanish, Recreate
  <2>3. alive \in [Pod -> BOOLEAN] /\ doomed \in [Pod -> BOOLEAN]
    BY <1>0 DEF Shape
  <2>4. alive' \in [Pod -> BOOLEAN] /\ doomed' \in [Pod -> BOOLEAN]
    BY <2>2, <2>3
  <2> QED BY <2>1, <2>4
<1>3. log' = log \/ \E e \in EventSet : /\ e.type = "Added" => e.state = "created" /\ e.restarts = 0
                                        /\ Record(p, e)
  <2> DEFINE known == \E e \in EventSet :
                        /\ e.type = "Added" => e.state = "created" /\ e.restarts = 0
                        /\ Record(p, e)
  <2>1. CASE ReportDown(p)
    <3> DEFINE e == Event("Modified", "waiting", Current(p).restarts)
    <3>1. e \in EventSet /\ e.type = "Modified" /\ Record(p, e)
      BY <1>1, <2>1 DEF ReportDown, Event, EventSet, States
    <3> QED BY <3>1
  <2>2. CASE StartContainer(p)
    <3> DEFINE e == Event("Modified", "running",
                      Current(p).restarts + (IF Current(p).state = "created" THEN 0 ELSE 1))
    <3>1. e \in EventSet /\ e.type = "Modified"
      BY <1>1 DEF Event, EventSet, States
    <3>2. Record(p, e)
      BY <2>2 DEF StartContainer
    <3> QED BY <3>1, <3>2
  <2>3. CASE Vanish(p)
    <3> DEFINE e == Event("Deleted", "waiting", Current(p).restarts)
    <3>1. e \in EventSet /\ e.type = "Deleted" /\ Record(p, e)
      BY <1>1, <2>3 DEF Vanish, Event, EventSet, States
    <3> QED BY <3>1
  <2>4. CASE Recreate(p)
    <3> DEFINE e == Event("Added", "created", 0)
    <3>1. e \in EventSet /\ e.state = "created" /\ e.restarts = 0 /\ Record(p, e)
      BY <2>4 DEF Recreate, Event, EventSet, States
    <3> QED BY <3>1
  <2>5. CASE Die(p) \/ Evict(p)
    BY <2>5 DEF Die, Evict
  <2> QED BY <2>1, <2>2, <2>3, <2>4, <2>5 DEF Cluster
<1>4. /\ log' = [q \in Pod |-> log'[q]]
      /\ \A q \in Pod : log'[q] = log[q] \/ Grows(log[q], log'[q])
  <2>1. CASE log' = log
    BY <1>0, <2>1 DEF Shape
  <2> QED BY <1>3, <2>1, RecordGrows
<1>5. OnlyPods
  BY <1>0, <1>2, <1>4 DEF OnlyPods, callVars, Shape
<1> QED BY <1>5, PodsFrame

LEMMA ContextKeeps == ASSUME IInv, Deadline \/ \E f \in Fault : Cancel(f) PROVE IInv'
<1>0. Shape
  BY DEF IInv
<1>1. /\ UNCHANGED <<podVars, wait, loopVars, chosen, call, pc, aim, result>>
      /\ due' \in {due, TRUE}
      /\ ctx' = ctx \/ \E f \in Fault : ctx' = [ctx EXCEPT ![f] = "cancelled"]
  BY Zenon DEF Deadline, Cancel, podVars, callVars
<1>2. ctx' \in [Fault -> {"open", "cancelled"}]
  BY <1>0, <1>1 DEF Shape
<1>3. due' \in BOOLEAN
  <2>1. due \in BOOLEAN
    BY <1>0 DEF Shape
  <2> QED BY <1>1, <2>1
<1>4. log' = [q \in Pod |-> log'[q]] /\ \A q \in Pod : log'[q] = log[q]
  BY <1>0, <1>1 DEF Shape, podVars
<1>5. OnlyPods
  BY <1>0, <1>1, <1>2, <1>3, <1>4 DEF OnlyPods, Shape, podVars
<1> QED BY <1>5, PodsFrame

\* The loop of a pod moves to these values and nothing else of the tasks does.
LoopTo(p, c, w, b, f, n, k, r) ==
  LET t == <<"crash", p>> IN
  /\ pc' = [pc EXCEPT ![t] = c] /\ wait' = [wait EXCEPT ![t] = w]
  /\ result' = [result EXCEPT ![t] = r] /\ before' = [before EXCEPT ![p] = b]
  /\ failures' = [failures EXCEPT ![p] = f] /\ crashes' = [crashes EXCEPT ![p] = n]
  /\ kills' = [kills EXCEPT ![p] = k]
  /\ UNCHANGED <<log, doomed, callVars, aim>>
  /\ alive' \in [Pod -> BOOLEAN]

LEMMA LoopMoves ==
  ASSUME IInv, NEW p \in Pod, pc[<<"crash", p>>] \notin {"idle", "done"},
         NEW c, NEW w, NEW b, NEW f, NEW n \in {crashes[p], crashes[p] + 1}, NEW k, NEW r,
         LoopTo(p, c, w, b, f, n, k, r), LoopOK(log[p], c, w, b, f, n, k, r)
  PROVE  IInv'
<1> DEFINE t == <<"crash", p>>
<1>0. Shape /\ t \in Task /\ \A q \in Pod : <<"crash", q>> \in Task /\ <<"terminate", q>> \in Task
  BY DEF IInv, Task, Fault
<1>1. /\ pc' = [pc EXCEPT ![t] = c] /\ wait' = [wait EXCEPT ![t] = w]
      /\ result' = [result EXCEPT ![t] = r] /\ before' = [before EXCEPT ![p] = b]
      /\ failures' = [failures EXCEPT ![p] = f] /\ crashes' = [crashes EXCEPT ![p] = n]
      /\ kills' = [kills EXCEPT ![p] = k]
      /\ UNCHANGED <<log, doomed, callVars, aim>>
      /\ alive' \in [Pod -> BOOLEAN]
  BY DEF LoopTo
<1>2. /\ pc'[t] = c /\ wait'[t] = w /\ result'[t] = r /\ before'[p] = b
      /\ failures'[p] = f /\ crashes'[p] = n /\ kills'[p] = k
  BY <1>0, <1>1 DEF Shape
<1>3. Functions8
  BY <1>0, <1>1 DEF Shape, Functions8
<1>4. \A u \in Task : u # t => SameTask(u)
  BY <1>0, <1>1 DEF Shape, SameTask
<1>5. \A q \in Pod : q # p => SameLoop(q)
  BY <1>0, <1>1 DEF Shape, SameLoop
<1>6. \A q \in Pod : <<"terminate", q>> # t /\ (q # p => <<"crash", q>> # t)
  OBVIOUS
<1>7. OnlyLoop(p)
  BY <1>0, <1>1, <1>2, <1>3, <1>4, <1>5, <1>6 DEF Shape, OnlyLoop
<1>8. Loop(p)'
  BY <1>1, <1>2 DEF Loop
<1> QED BY <1>7, <1>8, LoopFrame

\* The Terminate of a pod moves to these values.
StopTo(p, c, w, a, r) ==
  LET t == <<"terminate", p>> IN
  /\ pc' = [pc EXCEPT ![t] = c] /\ wait' = [wait EXCEPT ![t] = w]
  /\ result' = [result EXCEPT ![t] = r] /\ aim' = [aim EXCEPT ![p] = a]
  /\ UNCHANGED <<log, alive, callVars, loopVars>>
  /\ doomed' \in [Pod -> BOOLEAN]

LEMMA StopMoves ==
  ASSUME IInv, NEW p \in Pod, pc[<<"terminate", p>>] \notin {"idle", "done"},
         NEW c, NEW w, NEW a, NEW r, StopTo(p, c, w, a, r), StopOK(log[p], c, w, a, r)
  PROVE  IInv'
<1> DEFINE t == <<"terminate", p>>
<1>0. Shape /\ t \in Task /\ \A q \in Pod : <<"crash", q>> \in Task /\ <<"terminate", q>> \in Task
  BY DEF IInv, Task, Fault
<1>1. /\ pc' = [pc EXCEPT ![t] = c] /\ wait' = [wait EXCEPT ![t] = w]
      /\ result' = [result EXCEPT ![t] = r] /\ aim' = [aim EXCEPT ![p] = a]
      /\ UNCHANGED <<log, alive, callVars, loopVars>>
      /\ doomed' \in [Pod -> BOOLEAN]
  BY DEF StopTo
<1>2. pc'[t] = c /\ wait'[t] = w /\ result'[t] = r /\ aim'[p] = a
  BY <1>0, <1>1 DEF Shape
<1>3. Functions8
  BY <1>0, <1>1 DEF Shape, Functions8, loopVars
<1>4. \A u \in Task : u # t => SameTask(u)
  BY <1>0, <1>1 DEF Shape, SameTask
<1>5. \A q \in Pod : SameLoop(q) /\ (q # p => aim'[q] = aim[q])
  BY <1>0, <1>1 DEF Shape, SameLoop, loopVars
<1>6. \A q \in Pod : <<"crash", q>> # t /\ (q # p => <<"terminate", q>> # t)
  OBVIOUS
<1>7. OnlyStop(p)
  BY <1>0, <1>1, <1>2, <1>3, <1>4, <1>5, <1>6 DEF Shape, OnlyStop
<1>8. Stop(p)'
  BY <1>1, <1>2 DEF Stop
<1> QED BY <1>7, <1>8, StopFrame

\* What a variable that does not change is, in the form of LoopTo and StopTo.
LEMMA Unmoved ==
  ASSUME Shape, NEW p \in Pod, NEW t \in Task
  PROVE  /\ pc = [pc EXCEPT ![t] = pc[t]] /\ wait = [wait EXCEPT ![t] = wait[t]]
         /\ result = [result EXCEPT ![t] = result[t]]
         /\ before = [before EXCEPT ![p] = before[p]]
         /\ failures = [failures EXCEPT ![p] = failures[p]]
         /\ crashes = [crashes EXCEPT ![p] = crashes[p]]
         /\ kills = [kills EXCEPT ![p] = kills[p]] /\ aim = [aim EXCEPT ![p] = aim[p]]
         /\ alive \in [Pod -> BOOLEAN] /\ doomed \in [Pod -> BOOLEAN]
         /\ \A x : [wait EXCEPT ![t].for = x] = [wait EXCEPT ![t] = [wait[t] EXCEPT !.for = x]]
BY DEF Shape

-----------------------------------------------------------------------------
(* The steps of the crash loops *)

LEMMA TopKeeps == ASSUME IInv, NEW p \in Pod, Top(p) PROVE IInv'
<1> DEFINE t == <<"crash", p>>
<1>0. Shape /\ Loop(p) /\ t \in Task
  BY DEF IInv, Task, Fault
<1>1. /\ pc[t] = "top" /\ UNCHANGED <<podVars, loopVars, callVars, errors, aim>>
      /\ \/ Return(t, "ok") /\ UNCHANGED wait
         \/ /\ ~(CrashCount > 0 /\ crashes[p] >= CrashCount)
            /\ WaitFor(t, "running") /\ UNCHANGED result
  BY DEF Top
<1>2. LoopOK(log[p], "top", wait[t], before[p], failures[p], crashes[p], kills[p], result[t])
  BY <1>0, <1>1 DEF Loop
<1>3. CASE Return(t, "ok") /\ UNCHANGED wait
  <2>1. LoopTo(p, "done", wait[t], before[p], failures[p], crashes[p], kills[p], "ok")
    BY <1>0, <1>1, <1>3, Unmoved DEF LoopTo, Return, Goto, podVars, loopVars
  <2> QED BY <1>1, <1>2, <2>1, TopOK, LoopMoves
<1>4. CASE /\ ~(CrashCount > 0 /\ crashes[p] >= CrashCount)
           /\ WaitFor(t, "running") /\ UNCHANGED result
  <2>1. LoopTo(p, "watch", [wait[t] EXCEPT !.for = "running"], before[p], failures[p],
               crashes[p], kills[p], result[t])
    BY <1>0, <1>1, <1>4, Unmoved DEF LoopTo, WaitFor, Goto, podVars, loopVars
  <2> QED BY <1>1, <1>2, <1>4, <2>1, TopOK, LoopMoves
<1> QED BY <1>1, <1>3, <1>4

\* A failed attempt, wherever it fails.
LEMMA FailKeeps ==
  ASSUME IInv, NEW p \in Pod, NEW v, NEW d \in 0..1,
         pc[<<"crash", p>>] \in {"count", "kill"} \cup Watching,
         d = 1 => pc[<<"crash", p>>] = "kill",
         Idling(log[p], v), wait' = [wait EXCEPT ![<<"crash", p>>] = v],
         kills' = [kills EXCEPT ![p] = kills[p] + d], Fail(p),
         UNCHANGED <<log, doomed, callVars, aim, before, crashes>>, alive' \in [Pod -> BOOLEAN]
  PROVE  IInv'
<1> DEFINE t == <<"crash", p>>
           f == failures[p] + 1
<1>0. Shape /\ Loop(p) /\ t \in Task
  BY DEF IInv, Task, Fault
<1>1. /\ failures' = [failures EXCEPT ![p] = f]
      /\ \/ f >= MaxFailures /\ Return(t, "error")
         \/ ~(f >= MaxFailures) /\ Goto(t, "top") /\ UNCHANGED result
  BY DEF Fail
<1>2. LoopOK(log[p], pc[t], wait[t], before[p], failures[p], crashes[p], kills[p], result[t])
  BY <1>0 DEF Loop
<1>3. pc[t] \notin {"idle", "done"} /\ failures[p] \in Nat
  BY <1>2 DEF Watching, LoopOK
<1>4. CASE f >= MaxFailures /\ Return(t, "error")
  <2>1. LoopTo(p, "done", v, before[p], f, crashes[p], kills[p] + d, "error")
    BY <1>0, <1>1, <1>4, Unmoved DEF LoopTo, Return, Goto
  <2>2. LoopOK(log[p], "done", v, before[p], f, crashes[p], kills[p] + d, "error")
    BY <1>2, <1>4, FailOK
  <2> QED BY <1>3, <2>1, <2>2, LoopMoves
<1>5. CASE ~(f >= MaxFailures) /\ Goto(t, "top") /\ UNCHANGED result
  <2>1. LoopTo(p, "top", v, before[p], f, crashes[p], kills[p] + d, result[t])
    BY <1>0, <1>1, <1>5, Unmoved DEF LoopTo, Goto
  <2>2. f < MaxFailures
    BY <1>3, <1>5
  <2>3. LoopOK(log[p], "top", v, before[p], f, crashes[p], kills[p] + d, result[t])
    BY <1>2, <2>2, FailOK
  <2> QED BY <1>3, <2>1, <2>3, LoopMoves
<1> QED BY <1>1, <1>4, <1>5

\* A loop that is not in a wait idles.
LEMMA LoopIdles ==
  ASSUME NEW p \in Pod, Loop(p), pc[<<"crash", p>>] \notin Watching
  PROVE  Idling(log[p], wait[<<"crash", p>>])
BY DEF Loop, LoopOK, WaitOK, Idling, Watching

LEMMA ReadCountKeeps == ASSUME IInv, NEW p \in Pod, ReadCount(p) PROVE IInv'
<1> DEFINE t == <<"crash", p>>
<1>0. Shape /\ Loop(p) /\ t \in Task /\ LogOK(log[p])
  BY DEF IInv, Task, Fault
<1>1. /\ pc[t] = "count" /\ UNCHANGED <<podVars, wait, callVars, crashes, kills, aim>>
      /\ \/ /\ before' = [before EXCEPT ![p] = Current(p).restarts]
            /\ Goto(t, "kill") /\ UNCHANGED <<failures, errors, result>>
         \/ Fail(p) /\ UNCHANGED before
  BY DEF ReadCount
<1>2. LoopOK(log[p], "count", wait[t], before[p], failures[p], crashes[p], kills[p], result[t])
  BY <1>0, <1>1 DEF Loop
<1>3. CASE /\ before' = [before EXCEPT ![p] = Current(p).restarts]
           /\ Goto(t, "kill") /\ UNCHANGED <<failures, errors, result>>
  <2>1. LoopTo(p, "kill", wait[t], log[p][Len(log[p])].restarts, failures[p],
               crashes[p], kills[p], result[t])
    BY <1>0, <1>1, <1>3, Unmoved DEF LoopTo, Goto, podVars, Current
  <2> QED BY <1>0, <1>1, <1>2, <2>1, CountOK, LoopMoves
<1>4. CASE Fail(p) /\ UNCHANGED before
  <2>1. Idling(log[p], wait[t])
    BY <1>0, <1>1, LoopIdles DEF Watching
  <2>2. kills[p] + 0 = kills[p]
    BY <1>0 DEF Shape
  <2>3. kills' = [kills EXCEPT ![p] = kills[p] + 0] /\ wait' = [wait EXCEPT ![t] = wait[t]]
    BY <1>0, <1>1, <2>2, Unmoved
  <2>4. UNCHANGED <<log, doomed, callVars, aim, before, crashes>> /\ alive' \in [Pod -> BOOLEAN]
    BY <1>0, <1>1, <1>4 DEF podVars, Shape
  <2>5. /\ pc[t] \in {"count", "kill"} \cup Watching
        /\ 0 \in 0..1 /\ (0 = 1 => pc[t] = "kill")
    BY <1>1
  <2> QED BY <1>4, <2>1, <2>3, <2>4, <2>5, FailKeeps, Zenon
<1> QED BY <1>1, <1>3, <1>4

LEMMA KillKeeps == ASSUME IInv, NEW p \in Pod, Kill(p) PROVE IInv'
<1> DEFINE t == <<"crash", p>>
<1>0. Shape /\ Loop(p) /\ t \in Task /\ kills[p] \in Nat
  BY DEF IInv, Task, Fault, Shape
<1>1. PICK effect \in BOOLEAN, answered \in BOOLEAN :
        /\ pc[t] = "kill" /\ UNCHANGED <<log, doomed, wait, callVars, before, crashes, errors, aim>>
        /\ alive' = [alive EXCEPT ![p] = @ /\ ~effect]
        /\ kills' = [kills EXCEPT ![p] = @ + (IF effect THEN 1 ELSE 0)]
        /\ IF answered THEN Goto(t, "killed") /\ UNCHANGED <<failures, result>> ELSE Fail(p)
  BY DEF Kill
<1> DEFINE d == IF effect THEN 1 ELSE 0
<1>2. LoopOK(log[p], "kill", wait[t], before[p], failures[p], crashes[p], kills[p], result[t])
  BY <1>0, <1>1 DEF Loop
<1>3. d \in 0..1
  OBVIOUS
<1>4. kills' = [kills EXCEPT ![p] = kills[p] + d]
  BY <1>0, <1>1 DEF Shape
<1>5. alive' \in [Pod -> BOOLEAN]
  <2>1. (alive[p] /\ ~effect) \in BOOLEAN
    BY Zenon
  <2>2. alive' = [alive EXCEPT ![p] = alive[p] /\ ~effect]
    BY <1>1
  <2>3. alive \in [Pod -> BOOLEAN]
    BY <1>0 DEF Shape
  <2> QED BY <2>1, <2>2, <2>3
<1> HIDE DEF d
<1>6. CASE answered
  <2>1. LoopTo(p, "killed", wait[t], before[p], failures[p], crashes[p], kills[p] + d, result[t])
    BY <1>0, <1>1, <1>4, <1>5, <1>6, Unmoved DEF LoopTo, Goto
  <2> QED BY <1>1, <1>2, <1>3, <2>1, KillOK, LoopMoves
<1>7. CASE ~answered
  <2>1. Idling(log[p], wait[t])
    BY <1>0, <1>1, LoopIdles DEF Watching
  <2>2. wait' = [wait EXCEPT ![t] = wait[t]]
    BY <1>0, <1>1, Unmoved
  <2> QED BY <1>0, <1>1, <1>3, <1>4, <1>5, <1>7, <2>1, <2>2, FailKeeps
<1> QED BY <1>6, <1>7

LEMMA KilledKeeps == ASSUME IInv, NEW p \in Pod, Killed(p) PROVE IInv'
<1> DEFINE t == <<"crash", p>>
<1>0. Shape /\ Loop(p) /\ t \in Task
  BY DEF IInv, Task, Fault
<1>1. /\ pc[t] = "killed" /\ UNCHANGED <<podVars, loopVars, callVars, errors, aim>>
      /\ \/ Return(t, "ok") /\ UNCHANGED wait
         \/ WaitFor(t, "restarted") /\ UNCHANGED result
  BY DEF Killed
<1>2. LoopOK(log[p], "killed", wait[t], before[p], failures[p], crashes[p], kills[p], result[t])
  BY <1>0, <1>1 DEF Loop
<1>3. CASE Return(t, "ok") /\ UNCHANGED wait
  <2>1. LoopTo(p, "done", wait[t], before[p], failures[p], crashes[p], kills[p], "ok")
    BY <1>0, <1>1, <1>3, Unmoved DEF LoopTo, Return, Goto, podVars, loopVars
  <2> QED BY <1>1, <1>2, <2>1, KilledOK, LoopMoves
<1>4. CASE WaitFor(t, "restarted") /\ UNCHANGED result
  <2>1. LoopTo(p, "watch", [wait[t] EXCEPT !.for = "restarted"], before[p], failures[p],
               crashes[p], kills[p], result[t])
    BY <1>0, <1>1, <1>4, Unmoved DEF LoopTo, WaitFor, Goto, podVars, loopVars
  <2> QED BY <1>1, <1>2, <2>1, KilledOK, LoopMoves
<1> QED BY <1>1, <1>3, <1>4

-----------------------------------------------------------------------------
(* The steps of the waits *)

LEMMA LoopWaitEnds ==
  ASSUME IInv, NEW p \in Pod, NEW outcome, pc[<<"crash", p>>] \in Watching,
         WaitEnds(<<"crash", p>>, outcome), UNCHANGED <<podVars, callVars, aim>>,
         outcome = "yes" /\ wait[<<"crash", p>>].for = "restarted" =>
           /\ pc[<<"crash", p>>] \in {"get", "select"}
           /\ \E j \in 1..Len(log[p]) : /\ wait[<<"crash", p>>].start <= j
                                        /\ log[p][j].restarts > before[p]
  PROVE  IInv'
<1> DEFINE t == <<"crash", p>>
<1>0. Shape /\ Loop(p) /\ t \in Task /\ LogOK(log[p]) /\ Len(log[p]) \in Nat
  <2>1. Shape /\ Loop(p) /\ t \in Task /\ LogOK(log[p])
    BY DEF IInv, Task, Fault
  <2> QED BY <2>1 DEF LogOK
<1>1. LoopOK(log[p], pc[t], wait[t], before[p], failures[p], crashes[p], kills[p], result[t])
  BY <1>0 DEF Loop
<1>2. wait[t].for \in {"running", "restarted"} /\ pc[t] \notin {"idle", "done"}
  BY <1>1 DEF LoopOK, WaitOK, WaitSet, Watching
<1>3. wait' = [wait EXCEPT ![t] = NoWait] /\ Idling(log[p], NoWait)
  BY <1>0, NoWaitIdles DEF WaitEnds
<1>4. \/ /\ wait[t].for = "running" /\ outcome = "yes"
         /\ Goto(t, "count") /\ UNCHANGED <<loopVars, result>>
      \/ /\ wait[t].for = "restarted" /\ outcome = "yes"
         /\ crashes' = [crashes EXCEPT ![p] = @ + 1]
         /\ failures' = [failures EXCEPT ![p] = 0]
         /\ Goto(t, "top") /\ UNCHANGED <<before, kills, result>>
      \/ Fail(p) /\ UNCHANGED <<before, crashes, kills>>
  BY <1>2 DEF WaitEnds
<1>5. CASE /\ wait[t].for = "running" /\ outcome = "yes"
           /\ Goto(t, "count") /\ UNCHANGED <<loopVars, result>>
  <2>1. LoopTo(p, "count", NoWait, before[p], failures[p], crashes[p], kills[p], result[t])
    BY <1>0, <1>3, <1>5, Unmoved DEF LoopTo, Goto, podVars, loopVars
  <2>2. LoopOK(log[p], "count", NoWait, before[p], failures[p], crashes[p], kills[p], result[t])
    BY <1>1, <1>3, <1>5, LoopRuns
  <2> QED BY <1>2, <2>1, <2>2, LoopMoves
<1>6. CASE /\ wait[t].for = "restarted" /\ outcome = "yes"
           /\ crashes' = [crashes EXCEPT ![p] = @ + 1]
           /\ failures' = [failures EXCEPT ![p] = 0]
           /\ Goto(t, "top") /\ UNCHANGED <<before, kills, result>>
  <2>1. LoopTo(p, "top", NoWait, before[p], 0, crashes[p] + 1, kills[p], result[t])
    BY <1>0, <1>3, <1>6, Unmoved DEF LoopTo, Goto, podVars
  <2>2. PICK j \in 1..Len(log[p]) : wait[t].start <= j /\ log[p][j].restarts > before[p]
    BY <1>6
  <2>3. LoopOK(log[p], "top", NoWait, before[p], 0, crashes[p] + 1, kills[p], result[t])
    BY <1>0, <1>1, <1>3, <1>6, <2>2, LoopRestarts
  <2> QED BY <1>2, <2>1, <2>3, LoopMoves
<1>7. CASE Fail(p) /\ UNCHANGED <<before, crashes, kills>>
  <2>1. kills[p] + 0 = kills[p]
    BY <1>0 DEF Shape
  <2>2. kills' = [kills EXCEPT ![p] = kills[p] + 0]
    BY <1>0, <1>7, <2>1, Unmoved
  <2>3. UNCHANGED <<log, doomed, callVars, aim, before, crashes>> /\ alive' \in [Pod -> BOOLEAN]
    BY <1>0, <1>7 DEF podVars, Shape
  <2>4. /\ pc[t] \in {"count", "kill"} \cup Watching
        /\ 0 \in 0..1 /\ (0 = 1 => pc[t] = "kill")
    OBVIOUS
  <2> QED BY <1>3, <1>7, <2>2, <2>3, <2>4, FailKeeps, Zenon
<1> QED BY <1>4, <1>5, <1>6, <1>7

LEMMA LoopWaitKeeps == ASSUME IInv, NEW p \in Pod, WaitStep(<<"crash", p>>) PROVE IInv'
<1> DEFINE t == <<"crash", p>>
           w == wait[t]
<1>0. Shape /\ Loop(p) /\ t \in Task /\ LogOK(log[p]) /\ Len(log[p]) \in Nat /\ Len(log[p]) >= 1
  <2>1. Shape /\ Loop(p) /\ t \in Task /\ LogOK(log[p])
    BY DEF IInv, Task, Fault
  <2> QED BY <2>1 DEF LogOK
<1>1. LoopOK(log[p], pc[t], w, before[p], failures[p], crashes[p], kills[p], result[t])
  BY <1>0 DEF Loop
<1>2. /\ w \in WaitSet /\ w.start \in Nat /\ w.seen \in Nat /\ w.start <= w.seen
      /\ w.seen <= Len(log[p])
      /\ pc[t] \in Watching => w.for \in {"running", "restarted"}
  BY <1>1 DEF LoopOK, WaitOK, WaitSet
<1>3. t[1] = "crash" /\ t[2] = p
  OBVIOUS
<1> HIDE DEF t
<1>4. CASE Watch(t)
  <2>1. pc[t] = "watch" /\ UNCHANGED <<podVars, callVars, aim>>
    BY <1>4 DEF Watch
  <2>2. CASE WaitEnds(t, "failed")
    BY <2>1, <2>2, LoopWaitEnds DEF t, Watching
  <2>3. CASE /\ wait' = [wait EXCEPT ![t].start = Len(log[p]), ![t].seen = Len(log[p])]
             /\ Goto(t, "get") /\ UNCHANGED <<loopVars, errors, result>>
    <3>1. wait' = [wait EXCEPT ![t] = [w EXCEPT !.start = Len(log[p]), !.seen = Len(log[p])]]
      BY <1>0, <2>3 DEF Shape
    <3>2. LoopTo(p, "get", [w EXCEPT !.start = Len(log[p]), !.seen = Len(log[p])], before[p],
                 failures[p], crashes[p], kills[p], result[t])
      BY <1>0, <2>1, <2>3, <3>1, Unmoved DEF LoopTo, Goto, podVars, loopVars, t
    <3>3. LoopOK(log[p], "get", [w EXCEPT !.start = Len(log[p]), !.seen = Len(log[p])], before[p],
                 failures[p], crashes[p], kills[p], result[t])
      BY <1>0, <1>1, <2>1, LoopWatches
    <3> QED BY <2>1, <3>2, <3>3, LoopMoves DEF t
  <2> QED BY <1>3, <1>4, <2>2, <2>3 DEF Watch
<1>5. CASE Get(t)
  <2>1. pc[t] = "get" /\ UNCHANGED <<podVars, callVars, aim>> /\ w.for \in {"running", "restarted"}
    BY <1>2, <1>5 DEF Get, Watching
  <2>2. \/ WaitEnds(t, "failed")
        \/ Holds(t, Current(p)) /\ WaitEnds(t, "yes")
        \/ ~Holds(t, Current(p)) /\ Goto(t, "select") /\ UNCHANGED <<wait, loopVars, result>>
    BY <1>3, <1>5, <2>1 DEF Get
  <2>3. CASE WaitEnds(t, "failed")
    BY <2>1, <2>3, LoopWaitEnds DEF t, Watching
  <2>4. CASE Holds(t, Current(p)) /\ WaitEnds(t, "yes")
    <3>1. w.for = "restarted" => /\ Len(log[p]) \in 1..Len(log[p]) /\ w.start <= Len(log[p])
                                 /\ log[p][Len(log[p])].restarts > before[p]
      BY <1>0, <1>2, <1>3, <2>4 DEF Holds, Current
    <3> QED BY <2>1, <2>4, <3>1, LoopWaitEnds DEF t, Watching
  <2>5. CASE ~Holds(t, Current(p)) /\ Goto(t, "select") /\ UNCHANGED <<wait, loopVars, result>>
    <3>1. LoopTo(p, "select", w, before[p], failures[p], crashes[p], kills[p], result[t])
      BY <1>0, <2>1, <2>5, Unmoved DEF LoopTo, Goto, podVars, loopVars, t
    <3>2. /\ w.for = "running" => log[p][Len(log[p])].state # "running"
          /\ w.for = "restarted" => log[p][Len(log[p])].restarts <= before[p]
      <4>1. log[p][Len(log[p])].restarts \in Nat /\ before[p] \in Nat
        BY <1>0, EventOf DEF Shape, LogOK
      <4>2. w.for = "running" => log[p][Len(log[p])].state # "running"
        BY <1>3, <2>5 DEF Holds, Current
      <4>3. w.for = "restarted" => ~(log[p][Len(log[p])].restarts > before[p])
        BY <1>3, <2>5 DEF Holds, Current
      <4> QED BY <4>1, <4>2, <4>3
    <3>3. LoopOK(log[p], "select", w, before[p], failures[p], crashes[p], kills[p], result[t])
      BY <1>0, <1>1, <2>1, <3>2, LoopSelects
    <3> QED BY <2>1, <3>1, <3>3, LoopMoves DEF t
  <2> QED BY <2>2, <2>3, <2>4, <2>5
<1>6. CASE TakeEvent(t)
  <2> DEFINE e == log[p][w.seen + 1]
  <2>1. /\ pc[t] = "select" /\ w.seen < Len(log[p]) /\ UNCHANGED <<podVars, callVars, errors, aim>>
        /\ w.for \in {"running", "restarted"}
    BY <1>2, <1>3, <1>6 DEF TakeEvent, Watching
  <2>2. \/ Decides(t, e) /\ WaitEnds(t, "yes")
        \/ /\ ~Decides(t, e) /\ wait' = [wait EXCEPT ![t].seen = @ + 1]
           /\ UNCHANGED <<pc, loopVars, result>>
    BY <1>3, <1>6 DEF TakeEvent
  <2>3. CASE Decides(t, e) /\ WaitEnds(t, "yes")
    <3>1. w.for = "restarted" => /\ w.seen + 1 \in 1..Len(log[p]) /\ w.start <= w.seen + 1
                                 /\ e.restarts > before[p]
      BY <1>0, <1>2, <1>3, <2>1, <2>3 DEF Decides, Holds
    <3> QED BY <2>1, <2>3, <3>1, LoopWaitEnds DEF t, Watching
  <2>4. CASE /\ ~Decides(t, e) /\ wait' = [wait EXCEPT ![t].seen = @ + 1]
             /\ UNCHANGED <<pc, loopVars, result>>
    <3>1. wait' = [wait EXCEPT ![t] = [w EXCEPT !.seen = @ + 1]]
      BY <1>0, <2>4 DEF Shape
    <3>2. LoopTo(p, "select", [w EXCEPT !.seen = @ + 1], before[p], failures[p], crashes[p],
                 kills[p], result[t])
      BY <1>0, <2>1, <2>4, <3>1, Unmoved DEF LoopTo, podVars, loopVars, t
    <3>3. ~(/\ e.type = "Modified"
            /\ \/ w.for = "running" /\ e.state = "running"
               \/ w.for = "restarted" /\ e.restarts > before[p])
      BY <1>3, <2>1, <2>4 DEF Decides, Holds
    <3>4. LoopOK(log[p], "select", [w EXCEPT !.seen = @ + 1], before[p], failures[p], crashes[p],
                 kills[p], result[t])
      BY <1>0, <1>1, <2>1, <3>3, LoopPasses
    <3> QED BY <2>1, <3>2, <3>4, LoopMoves DEF t
  <2> QED BY <2>2, <2>3, <2>4
<1>7. CASE WatchEnds(t)
  <2>1. pc[t] = "select" /\ UNCHANGED <<podVars, callVars, aim>>
    BY <1>7 DEF WatchEnds
  <2>2. CASE WaitEnds(t, "failed")
    BY <2>1, <2>2, LoopWaitEnds DEF t, Watching
  <2>3. CASE wait' = [wait EXCEPT ![t].closed = TRUE] /\ UNCHANGED <<pc, loopVars, result>>
    <3>1. wait' = [wait EXCEPT ![t] = [w EXCEPT !.closed = TRUE]]
      BY <1>0, <2>3 DEF Shape
    <3>2. LoopTo(p, "select", [w EXCEPT !.closed = TRUE], before[p], failures[p], crashes[p],
                 kills[p], result[t])
      BY <1>0, <2>1, <2>3, <3>1, Unmoved DEF LoopTo, podVars, loopVars, t
    <3>3. LoopOK(log[p], "select", [w EXCEPT !.closed = TRUE], before[p], failures[p], crashes[p],
                 kills[p], result[t])
      BY <1>1, <2>1, LoopCloses
    <3> QED BY <2>1, <3>2, <3>3, LoopMoves DEF t
  <2> QED BY <1>7, <2>2, <2>3 DEF WatchEnds
<1>8. CASE Expire(t)
  BY <1>8, LoopWaitEnds DEF Expire, t, Watching
<1> QED BY <1>4, <1>5, <1>6, <1>7, <1>8 DEF WaitStep, t

LEMMA StopWaitEnds ==
  ASSUME IInv, NEW p \in Pod, NEW outcome, pc[<<"terminate", p>>] \in Watching,
         WaitEnds(<<"terminate", p>>, outcome), UNCHANGED <<podVars, callVars, aim>>,
         outcome = "yes" =>
           /\ pc[<<"terminate", p>>] \in {"get", "select"}
           /\ \E j \in 1..Len(log[p]) : /\ wait[<<"terminate", p>>].start <= j
                                        /\ log[p][j].type = "Deleted"
  PROVE  IInv'
<1> DEFINE t == <<"terminate", p>>
<1>0. Shape /\ Stop(p) /\ t \in Task /\ LogOK(log[p]) /\ Len(log[p]) \in Nat
  <2>1. Shape /\ Stop(p) /\ t \in Task /\ LogOK(log[p])
    BY DEF IInv, Task, Fault
  <2> QED BY <2>1 DEF LogOK
<1>1. StopOK(log[p], pc[t], wait[t], aim[p], result[t])
  BY <1>0 DEF Stop
<1>2. wait[t].for = "deleted" /\ pc[t] \notin {"idle", "done"}
  BY <1>1 DEF StopOK, WaitOK, WaitSet, Watching
<1>3. wait' = [wait EXCEPT ![t] = NoWait] /\ Idling(log[p], NoWait)
  BY <1>0, NoWaitIdles DEF WaitEnds
<1> DEFINE r == IF outcome = "yes" THEN "ok" ELSE "error"
<1>4. Return(t, r) /\ UNCHANGED loopVars
  BY <1>2 DEF WaitEnds
<1>5. StopTo(p, "done", NoWait, aim[p], r)
  BY <1>0, <1>3, <1>4, Unmoved DEF StopTo, Return, Goto, podVars
<1>6. StopOK(log[p], "done", NoWait, aim[p], r)
  BY <1>0, <1>1, <1>3, StopEnds
<1> QED BY <1>2, <1>5, <1>6, StopMoves

LEMMA StopWaitKeeps == ASSUME IInv, NEW p \in Pod, WaitStep(<<"terminate", p>>) PROVE IInv'
<1> DEFINE t == <<"terminate", p>>
           w == wait[t]
<1>0. Shape /\ Stop(p) /\ t \in Task /\ LogOK(log[p]) /\ Len(log[p]) \in Nat /\ Len(log[p]) >= 1
  <2>1. Shape /\ Stop(p) /\ t \in Task /\ LogOK(log[p])
    BY DEF IInv, Task, Fault
  <2> QED BY <2>1 DEF LogOK
<1>1. StopOK(log[p], pc[t], w, aim[p], result[t])
  BY <1>0 DEF Stop
<1>2. /\ w \in WaitSet /\ w.start \in Nat /\ w.seen \in Nat /\ w.start <= w.seen
      /\ w.seen <= Len(log[p])
      /\ pc[t] \in Watching => w.for = "deleted"
  BY <1>1 DEF StopOK, WaitOK, WaitSet
<1>3. t[1] = "terminate" /\ t[2] = p
  OBVIOUS
<1> HIDE DEF t
<1>4. CASE Watch(t)
  <2>1. pc[t] = "watch" /\ UNCHANGED <<podVars, callVars, aim>>
    BY <1>4 DEF Watch
  <2>2. CASE WaitEnds(t, "failed")
    BY <2>1, <2>2, StopWaitEnds DEF t, Watching
  <2>3. CASE /\ wait' = [wait EXCEPT ![t].start = Len(log[p]), ![t].seen = Len(log[p])]
             /\ Goto(t, "get") /\ UNCHANGED <<loopVars, errors, result>>
    <3>1. wait' = [wait EXCEPT ![t] = [w EXCEPT !.start = Len(log[p]), !.seen = Len(log[p])]]
      BY <1>0, <2>3 DEF Shape
    <3>2. StopTo(p, "get", [w EXCEPT !.start = Len(log[p]), !.seen = Len(log[p])], aim[p],
                 result[t])
      BY <1>0, <2>1, <2>3, <3>1, Unmoved DEF StopTo, Goto, podVars, t
    <3>3. StopOK(log[p], "get", [w EXCEPT !.start = Len(log[p]), !.seen = Len(log[p])], aim[p],
                 result[t])
      BY <1>0, <1>1, <2>1, StopWatches
    <3> QED BY <2>1, <3>2, <3>3, StopMoves DEF t
  <2> QED BY <1>3, <1>4, <2>2, <2>3 DEF Watch
<1>5. CASE Get(t)
  <2>1. pc[t] = "get" /\ UNCHANGED <<podVars, callVars, aim>> /\ w.for = "deleted"
    BY <1>2, <1>5 DEF Get, Watching
  <2>2. ~Holds(t, Current(p))
    BY <2>1 DEF Holds
  <2>3. \/ ~Exists(p) /\ WaitEnds(t, "yes")
        \/ Goto(t, "select") /\ UNCHANGED <<wait, loopVars, result>>
    BY <1>3, <1>5, <2>1, <2>2 DEF Get
  <2>4. CASE ~Exists(p) /\ WaitEnds(t, "yes")
    <3>1. /\ Len(log[p]) \in 1..Len(log[p]) /\ w.start <= Len(log[p])
          /\ log[p][Len(log[p])].type = "Deleted"
      BY <1>0, <1>2, <2>4 DEF Exists, Current
    <3> QED BY <2>1, <2>4, <3>1, StopWaitEnds DEF t, Watching
  <2>5. CASE Goto(t, "select") /\ UNCHANGED <<wait, loopVars, result>>
    <3>1. StopTo(p, "select", w, aim[p], result[t])
      BY <1>0, <2>1, <2>5, Unmoved DEF StopTo, Goto, podVars, t
    <3>2. StopOK(log[p], "select", w, aim[p], result[t])
      BY <1>0, <1>1, <2>1, StopSelects
    <3> QED BY <2>1, <3>1, <3>2, StopMoves DEF t
  <2> QED BY <2>3, <2>4, <2>5
<1>6. CASE TakeEvent(t)
  <2> DEFINE e == log[p][w.seen + 1]
  <2>1. /\ pc[t] = "select" /\ w.seen < Len(log[p]) /\ UNCHANGED <<podVars, callVars, errors, aim>>
        /\ w.for = "deleted"
    BY <1>2, <1>3, <1>6 DEF TakeEvent, Watching
  <2>2. \/ e.type = "Deleted" /\ WaitEnds(t, "yes")
        \/ /\ e.type # "Deleted" /\ wait' = [wait EXCEPT ![t].seen = @ + 1]
           /\ UNCHANGED <<pc, loopVars, result>>
    BY <1>3, <1>6, <2>1 DEF TakeEvent, Decides
  <2>3. CASE e.type = "Deleted" /\ WaitEnds(t, "yes")
    <3>1. w.seen + 1 \in 1..Len(log[p]) /\ w.start <= w.seen + 1
      BY <1>0, <1>2, <2>1
    <3> QED BY <2>1, <2>3, <3>1, StopWaitEnds DEF t, Watching
  <2>4. CASE /\ e.type # "Deleted" /\ wait' = [wait EXCEPT ![t].seen = @ + 1]
             /\ UNCHANGED <<pc, loopVars, result>>
    <3>1. wait' = [wait EXCEPT ![t] = [w EXCEPT !.seen = @ + 1]]
      BY <1>0, <2>4 DEF Shape
    <3>2. StopTo(p, "select", [w EXCEPT !.seen = @ + 1], aim[p], result[t])
      BY <1>0, <2>1, <2>4, <3>1, Unmoved DEF StopTo, podVars, t
    <3>3. StopOK(log[p], "select", [w EXCEPT !.seen = @ + 1], aim[p], result[t])
      BY <1>0, <1>1, <2>1, <2>4, StopPasses
    <3> QED BY <2>1, <3>2, <3>3, StopMoves DEF t
  <2> QED BY <2>2, <2>3, <2>4
<1>7. CASE WatchEnds(t)
  <2>1. pc[t] = "select" /\ UNCHANGED <<podVars, callVars, aim>>
    BY <1>7 DEF WatchEnds
  <2>2. CASE WaitEnds(t, "failed")
    BY <2>1, <2>2, StopWaitEnds DEF t, Watching
  <2>3. CASE wait' = [wait EXCEPT ![t].closed = TRUE] /\ UNCHANGED <<pc, loopVars, result>>
    <3>1. wait' = [wait EXCEPT ![t] = [w EXCEPT !.closed = TRUE]]
      BY <1>0, <2>3 DEF Shape
    <3>2. StopTo(p, "select", [w EXCEPT !.closed = TRUE], aim[p], result[t])
      BY <1>0, <2>1, <2>3, <3>1, Unmoved DEF StopTo, podVars, t
    <3>3. StopOK(log[p], "select", [w EXCEPT !.closed = TRUE], aim[p], result[t])
      BY <1>1, <2>1, StopCloses
    <3> QED BY <2>1, <3>2, <3>3, StopMoves DEF t
  <2> QED BY <1>7, <2>2, <2>3 DEF WatchEnds
<1>8. CASE Expire(t)
  BY <1>8, StopWaitEnds DEF Expire, t, Watching
<1> QED BY <1>4, <1>5, <1>6, <1>7, <1>8 DEF WaitStep, t

LEMMA DeleteKeeps == ASSUME IInv, NEW p \in Pod, Delete(p) PROVE IInv'
<1> DEFINE t == <<"terminate", p>>
<1>0. Shape /\ Stop(p) /\ t \in Task /\ LogOK(log[p])
  BY DEF IInv, Task, Fault
<1>1. /\ pc[t] = "delete" /\ UNCHANGED <<log, alive, loopVars, callVars>>
      /\ \/ /\ Exists(p)
            /\ doomed' = [doomed EXCEPT ![p] = TRUE]
            /\ aim' = [aim EXCEPT ![p] = Len(log[p])]
            /\ WaitFor(t, "deleted") /\ UNCHANGED <<errors, result>>
         \/ Return(t, "error") /\ UNCHANGED <<doomed, wait, aim>>
  BY DEF Delete
<1>2. StopOK(log[p], "delete", wait[t], aim[p], result[t])
  BY <1>0, <1>1 DEF Stop
<1>3. CASE /\ Exists(p)
           /\ doomed' = [doomed EXCEPT ![p] = TRUE]
           /\ aim' = [aim EXCEPT ![p] = Len(log[p])]
           /\ WaitFor(t, "deleted") /\ UNCHANGED <<errors, result>>
  <2>1. doomed' \in [Pod -> BOOLEAN]
    BY <1>0, <1>3 DEF Shape
  <2>2. StopTo(p, "watch", [wait[t] EXCEPT !.for = "deleted"], Len(log[p]), result[t])
    BY <1>0, <1>1, <1>3, <2>1, Unmoved DEF StopTo, WaitFor, Goto
  <2>3. StopOK(log[p], "watch", [wait[t] EXCEPT !.for = "deleted"], Len(log[p]), result[t])
    BY <1>0, <1>2, <1>3, StopDeletes DEF Exists, Current
  <2> QED BY <1>1, <2>2, <2>3, StopMoves
<1>4. CASE Return(t, "error") /\ UNCHANGED <<doomed, wait, aim>>
  <2>1. StopTo(p, "done", wait[t], aim[p], "error")
    BY <1>0, <1>1, <1>4, Unmoved DEF StopTo, Return, Goto
  <2>2. StopOK(log[p], "done", wait[t], aim[p], "error")
    BY <1>0, <1>2, StopDeletes
  <2> QED BY <1>1, <2>1, <2>2, StopMoves
<1> QED BY <1>1, <1>3, <1>4

-----------------------------------------------------------------------------
(* The calls *)

\* The goroutines of a call start.
LEMMA LoopStarts ==
  ASSUME NEW l, NEW w, NEW b, NEW f, NEW n, NEW k, NEW r, LoopOK(l, "idle", w, b, f, n, k, r)
  PROVE  LoopOK(l, "top", w, b, f, n, k, r)
<1>1. WaitOK(l, "top", w) /\ w.for = "nothing"
  BY DEF LoopOK, WaitOK, Watching
<1>2. CrashCount > 0 => Budget("top", w, f, n, k)
  BY DEF LoopOK, Budget
<1> QED BY <1>1, <1>2 DEF LoopOK, Steps

LEMMA StopStarts ==
  ASSUME NEW l, NEW w, NEW a, NEW r, StopOK(l, "idle", w, a, r)
  PROVE  StopOK(l, "delete", w, a, r)
<1>1. WaitOK(l, "delete", w) /\ w.for = "nothing"
  BY DEF StopOK, WaitOK, Watching
<1> QED BY <1>1 DEF StopOK, Watching

LEMMA InjectKeeps == ASSUME IInv, InjectCrashLoopFault PROVE IInv'
<1>0. Shape /\ Calls /\ \A p \in Pod : LogOK(log[p]) /\ Loop(p) /\ Stop(p)
  BY DEF IInv
<1>1. /\ UNCHANGED <<podVars, wait, loopVars, ctx, due, chosen, aim, result>>
      /\ \A f \in Fault : call[f] = "idle"
      /\ \/ /\ call' = [call EXCEPT !["crash"] = "running"]
            /\ pc' = [t \in Task |-> IF t[1] = "crash" /\ t[2] \in Looped THEN "top" ELSE pc[t]]
         \/ call' = [call EXCEPT !["crash"] = "error"] /\ UNCHANGED pc
  BY DEF InjectCrashLoopFault, Idle
<1>2. ASSUME NEW p \in Pod
      PROVE  /\ pc[<<"crash", p>>] = "idle" /\ pc'[<<"crash", p>>] \in {"idle", "top"}
             /\ pc'[<<"terminate", p>>] = pc[<<"terminate", p>>]
  BY <1>0, <1>1 DEF Calls, Fault, Task
<1>3. \A p \in Pod : Loop(p)' /\ Stop(p)'
  <2> SUFFICES ASSUME NEW p \in Pod PROVE Loop(p)' /\ Stop(p)'
    OBVIOUS
  <2>1. Stop(p)'
    BY <1>0, <1>1, <1>2 DEF Stop, podVars
  <2>2. LoopOK(log[p], "idle", wait[<<"crash", p>>], before[p], failures[p], crashes[p],
               kills[p], result[<<"crash", p>>])
    BY <1>0, <1>2 DEF Loop
  <2>3. \A c \in {"idle", "top"} :
          LoopOK(log[p], c, wait[<<"crash", p>>], before[p], failures[p], crashes[p],
                 kills[p], result[<<"crash", p>>])
    BY <2>2, LoopStarts
  <2>4. UNCHANGED <<log, wait, before, failures, crashes, kills, result>>
    BY <1>1 DEF podVars, loopVars
  <2>5. Loop(p)'
    BY <1>2, <2>3, <2>4 DEF Loop
  <2> QED BY <2>1, <2>5
<1>4. Functions8
  BY <1>0, <1>1 DEF Functions8, Shape, loopVars
<1>5. Shape'
  <2>1. call' \in [Fault -> {"idle", "running", "ok", "error", "panic"}]
    BY <1>0, <1>1 DEF Shape
  <2> QED BY <1>0, <1>1, <1>3, <1>4, <2>1, ShapeFromPods DEF Shape, podVars
<1>6. Calls'
  <2>1. /\ call'["crash"] \in {"running", "error"}
        /\ call'["terminate"] = "idle"
    BY <1>0, <1>1 DEF Shape, Fault
  <2>2. \A p \in Pod : pc'[<<"terminate", p>>] = "idle"
    BY <1>0, <1>1, <1>2 DEF Calls, Fault
  <2> QED BY <2>1, <2>2 DEF Calls, Fault
<1> QED BY <1>0, <1>1, <1>3, <1>5, <1>6 DEF IInv, podVars

\* The sample is one of the pods there are.
LEMMA SampleWithin ==
  ASSUME NEW count \in Counts
  PROVE  SampleSize(NumPods, count) \in Int /\ SampleSize(NumPods, count) <= NumPods
<1>1. count[2] \in Int /\ count[1] \in {"int", "percent"} /\ NumPods \in Nat
  OBVIOUS
<1>2. Round(NumPods * count[2], 100) \in Int
  BY <1>1 DEF Round
<1> QED BY <1>1, <1>2 DEF SampleSize

LEMMA TerminateKeeps == ASSUME IInv, TerminatePods PROVE IInv'
<1>0. Shape /\ Calls /\ \A p \in Pod : LogOK(log[p]) /\ Loop(p) /\ Stop(p)
  BY DEF IInv
<1>1. /\ UNCHANGED <<podVars, wait, loopVars, ctx, due, aim, result>>
      /\ \A f \in Fault : call[f] = "idle"
      /\ pc' = [t \in Task |-> IF t[1] = "terminate" /\ t[2] \in chosen' THEN "delete" ELSE pc[t]]
      /\ \/ \E count \in Counts :
              LET n == SampleSize(NumPods, count) IN
              /\ call' = [call EXCEPT !["terminate"] =
                   CASE n = -2 -> "panic" [] n = -1 -> "error" [] n = 0 -> "ok"
                     [] OTHER -> "running"]
              /\ chosen' = 1..n
         \/ call' = [call EXCEPT !["terminate"] = "error"] /\ UNCHANGED chosen
  BY DEF TerminatePods, Idle
<1>2. ASSUME NEW p \in Pod
      PROVE  /\ pc[<<"terminate", p>>] = "idle" /\ pc'[<<"terminate", p>>] \in {"idle", "delete"}
             /\ pc'[<<"crash", p>>] = pc[<<"crash", p>>]
  BY <1>0, <1>1 DEF Calls, Fault, Task
<1>3. \A p \in Pod : Loop(p)' /\ Stop(p)'
  <2> SUFFICES ASSUME NEW p \in Pod PROVE Loop(p)' /\ Stop(p)'
    OBVIOUS
  <2>1. Loop(p)'
    BY <1>0, <1>1, <1>2 DEF Loop, podVars, loopVars
  <2>2. StopOK(log[p], "idle", wait[<<"terminate", p>>], aim[p], result[<<"terminate", p>>])
    BY <1>0, <1>2 DEF Stop
  <2>3. \A c \in {"idle", "delete"} :
          StopOK(log[p], c, wait[<<"terminate", p>>], aim[p], result[<<"terminate", p>>])
    BY <2>2, StopStarts
  <2>4. UNCHANGED <<log, wait, aim, result>>
    BY <1>1 DEF podVars
  <2>5. Stop(p)'
    BY <1>2, <2>3, <2>4 DEF Stop
  <2> QED BY <2>1, <2>5
<1>4. Functions8
  BY <1>0, <1>1 DEF Functions8, Shape, loopVars
<1> DEFINE called ==
             /\ call' \in [Fault -> {"idle", "running", "ok", "error", "panic"}]
             /\ chosen' \subseteq Pod
             /\ call'["crash"] = "idle" /\ call'["terminate"] # "idle"
             /\ call'["terminate"] = "ok" => chosen' = {}
<1>5. called
  <2>1. CASE call' = [call EXCEPT !["terminate"] = "error"] /\ UNCHANGED chosen
    BY <1>0, <1>1, <2>1 DEF Shape, Fault
  <2>2. ASSUME NEW count \in Counts, NEW n, n = SampleSize(NumPods, count),
               call' = [call EXCEPT !["terminate"] =
                   CASE n = -2 -> "panic" [] n = -1 -> "error" [] n = 0 -> "ok"
                     [] OTHER -> "running"],
               chosen' = 1..n
        PROVE  called
    <3>1. n \in Int /\ n <= NumPods
      BY <2>2, SampleWithin
    <3>2. chosen' \subseteq Pod /\ (n = 0 => chosen' = {})
      BY <2>2, <3>1 DEF Pod
    <3> DEFINE y == CASE n = -2 -> "panic" [] n = -1 -> "error" [] n = 0 -> "ok"
                     [] OTHER -> "running"
    <3>4. y \in {"panic", "error", "ok", "running"} /\ (y = "ok" => n = 0)
      BY <3>1
    <3>5. call' = [call EXCEPT !["terminate"] = y]
      BY <2>2
    <3> HIDE DEF y
    <3>3. PICK x \in {"panic", "error", "ok", "running"} :
            call' = [call EXCEPT !["terminate"] = x] /\ (x = "ok" => n = 0)
      BY <3>4, <3>5
    <3> QED BY <1>0, <1>1, <3>2, <3>3 DEF Shape, Fault
  <2> QED BY <1>1, <2>1, <2>2
<1>6. Shape'
  BY <1>0, <1>1, <1>3, <1>4, <1>5, ShapeFromPods DEF Shape, podVars
<1>7. Calls'
  <2>1. ASSUME NEW p \in Pod PROVE pc'[<<"crash", p>>] = "idle"
    <3>1. pc[<<"crash", p>>] = "idle"
      BY <1>0, <1>1 DEF Calls, Fault
    <3> QED BY <1>2, <3>1
  <2> QED BY <1>5, <2>1 DEF Calls, Fault
<1> QED BY <1>0, <1>1, <1>3, <1>6, <1>7 DEF IInv, podVars

\* A call that returns changes nothing of its tasks.
LEMMA ReturnKeeps == ASSUME IInv, CrashLoopReturns \/ TerminateReturns PROVE IInv'
<1>0. Shape /\ Calls /\ \A p \in Pod : LogOK(log[p]) /\ Loop(p) /\ Stop(p)
  BY DEF IInv
<1>1. UNCHANGED <<podVars, wait, loopVars, due, chosen, pc, errors, aim, result>>
  BY DEF CrashLoopReturns, TerminateReturns
<1>2. \A p \in Pod : Loop(p)' /\ Stop(p)'
  BY <1>0, <1>1 DEF Loop, Stop, podVars, loopVars
<1>3. ctx' \in [Fault -> {"open", "cancelled"}]
  BY <1>0 DEF Shape, CrashLoopReturns, TerminateReturns
<1>4. call' \in [Fault -> {"idle", "running", "ok", "error", "panic"}]
  BY <1>0 DEF Shape, CrashLoopReturns, TerminateReturns
<1>5. Shape'
  BY <1>0, <1>1, <1>3, <1>4 DEF Shape, podVars, loopVars
<1>6. Calls'
  <2>0. UNCHANGED <<crashes, chosen, pc, result>>
    BY <1>1 DEF loopVars
  <2>1. CASE CrashLoopReturns
    <3>1. /\ call["crash"] = "running"
          /\ \A p \in Looped : result[<<"crash", p>>] # "none"
          /\ call' = [call EXCEPT !["crash"] =
               IF /\ \A p \in Looped : result[<<"crash", p>>] = "ok"
                  /\ \E p \in Pod : crashes[p] > 0
               THEN "ok" ELSE "error"]
      BY <2>1 DEF CrashLoopReturns
    <3>2. /\ call'["terminate"] = call["terminate"] /\ call'["crash"] \in {"ok", "error"}
          /\ call'["crash"] = "ok" => \E p \in Pod : crashes[p] > 0
      BY <1>0, <3>1 DEF Shape, Fault
    <3>3. \A p \in Looped : pc[<<"crash", p>>] = "done"
      <4>1. Looped \subseteq Pod
        BY DEF Pod
      <4> QED BY <1>0, <3>1, <4>1 DEF Loop, LoopOK
    <3> QED BY <1>0, <2>0, <3>2, <3>3 DEF Calls, Fault
  <2>2. CASE TerminateReturns
    <3> DEFINE results == {result[<<"terminate", p>>] : p \in chosen}
    <3>1. /\ call["terminate"] = "running"
          /\ \/ results = {"ok"} /\ call' = [call EXCEPT !["terminate"] = "ok"]
             \/ call' = [call EXCEPT !["terminate"] = "error"]
      BY <2>2 DEF TerminateReturns
    <3>2. /\ call'["crash"] = call["crash"] /\ call'["terminate"] \in {"ok", "error"}
          /\ call'["terminate"] = "ok" => results = {"ok"}
      BY <1>0, <3>1 DEF Shape, Fault
    <3>3. call'["terminate"] = "ok" => \A p \in chosen : result[<<"terminate", p>>] = "ok"
      BY <3>2
    <3> QED BY <1>0, <2>0, <3>2, <3>3 DEF Calls, Fault
  <2> QED BY <2>1, <2>2
<1> QED BY <1>0, <1>1, <1>2, <1>5, <1>6 DEF IInv, podVars

LEMMA Initial == Init => IInv
<1> SUFFICES ASSUME Init PROVE IInv
  OBVIOUS
<1> DEFINE first == Event("Added", "running", 0)
           l == <<first>>
<1>0. first \in EventSet
  BY DEF Event, EventSet, States
<1>1. l \in Seq(EventSet) /\ Len(l) = 1
  BY <1>0
<1> HIDE DEF first, l
<1>2. LogOK(l)
  BY <1>1 DEF LogOK
<1>3. \A p \in Pod : /\ log[p] = l
                     /\ \A f \in Fault : /\ pc[<<f, p>>] = "idle" /\ wait[<<f, p>>] = NoWait
                                         /\ result[<<f, p>>] = "none"
                     /\ before[p] = 0 /\ failures[p] = 0 /\ crashes[p] = 0 /\ kills[p] = 0
                     /\ aim[p] = 0
  BY DEF Init, Task, l, first
<1>4. WaitOK(l, "idle", NoWait) /\ NoWait.for = "nothing"
  BY <1>1 DEF WaitOK, NoWait, WaitSet, Watching
<1>5. LoopOK(l, "idle", NoWait, 0, 0, 0, 0, "none")
  <2>1. 0 <= Cardinality(Rises(l, Len(l)))
    BY <1>1, RisesFinite
  <2>2. CrashCount > 0 => Budget("idle", NoWait, 0, 0, 0)
    <3>1. 0 * MaxFailures = 0
      OBVIOUS
    <3> QED BY <1>4, <3>1 DEF Budget
  <2> QED BY <1>4, <2>1, <2>2 DEF LoopOK, Steps
<1>6. StopOK(l, "idle", NoWait, 0, "none")
  BY <1>4 DEF StopOK, Watching
<1>7. \A p \in Pod : LogOK(log[p]) /\ Loop(p) /\ Stop(p)
  BY <1>2, <1>3, <1>5, <1>6 DEF Loop, Stop, Fault
<1>8. Shape
  <2>1. NoWait \in WaitSet
    BY DEF NoWait, WaitSet
  <2>2. log = [p \in Pod |-> l]
    BY DEF Init, l, first
  <2>3. /\ log \in [Pod -> Seq(EventSet)] /\ wait \in [Task -> WaitSet]
        /\ ctx \in [Fault -> {"open", "cancelled"}] /\ due \in BOOLEAN
        /\ alive \in [Pod -> BOOLEAN] /\ doomed \in [Pod -> BOOLEAN]
    BY <1>1, <2>1, <2>2 DEF Init
  <2>4. /\ pc \in [Task -> Steps] /\ result \in [Task -> {"none", "ok", "error"}]
        /\ call \in [Fault -> {"idle", "running", "ok", "error", "panic"}]
        /\ chosen \subseteq Pod
    BY DEF Init, Steps
  <2>5. /\ before \in [Pod -> Nat] /\ failures \in [Pod -> 0..MaxFailures]
        /\ crashes \in [Pod -> Nat] /\ kills \in [Pod -> Nat] /\ aim \in [Pod -> Nat]
    BY DEF Init
  <2> QED BY <2>3, <2>4, <2>5 DEF Shape
<1>9. Calls
  BY <1>3 DEF Init, Calls, Fault
<1> QED BY <1>7, <1>8, <1>9 DEF IInv

LEMMA Inductive == IInv /\ [Next]_vars => IInv'
<1> SUFFICES ASSUME IInv, [Next]_vars PROVE IInv'
  OBVIOUS
<1>1. ASSUME NEW p \in Pod, Cluster(p) PROVE IInv'
  BY <1>1, ClusterKeeps
<1>2. ASSUME NEW p \in Pod, CrashStep(p) PROVE IInv'
  BY <1>2, TopKeeps, ReadCountKeeps, KillKeeps, KilledKeeps DEF CrashStep
<1>3. ASSUME NEW p \in Pod, Delete(p) PROVE IInv'
  BY <1>3, DeleteKeeps
<1>4. ASSUME NEW t \in Task, WaitStep(t) PROVE IInv'
  <2>1. PICK p \in Pod : t = <<"crash", p>> \/ t = <<"terminate", p>>
    BY DEF Task, Fault
  <2> QED BY <1>4, <2>1, LoopWaitKeeps, StopWaitKeeps
<1>5. CASE Deadline \/ \E f \in Fault : Cancel(f)
  BY <1>5, ContextKeeps
<1>6. CASE InjectCrashLoopFault \/ TerminatePods \/ CrashLoopReturns \/ TerminateReturns
  BY <1>6, InjectKeeps, TerminateKeeps, ReturnKeeps
<1>7. CASE UNCHANGED vars
  <2>1. UNCHANGED <<wait, loopVars, chosen, call, pc, aim, result, log, alive, doomed, ctx, due>>
    BY <1>7 DEF vars, podVars, callVars
  <2>2. OnlyPods
    BY <2>1 DEF OnlyPods, IInv, Shape
  <2> QED BY <2>2, PodsFrame
<1> QED BY <1>1, <1>2, <1>3, <1>4, <1>5, <1>6, <1>7 DEF Next

-----------------------------------------------------------------------------
(* What the invariant says *)

\* Every variable has its type, and a loop that goes on has failed less than
\* maxConsecutiveFailures times in a row.
THEOREM TypeCorrect == Spec => []TypeOK
<1>1. ASSUME IInv PROVE TypeOK
  <2>0. Shape /\ \A p \in Pod : LogOK(log[p]) /\ Loop(p) /\ Stop(p)
    BY <1>1 DEF IInv
  <2>1. ASSUME NEW p \in Pod
        PROVE  /\ log[p] # <<>>
               /\ \A i \in DOMAIN log[p] :
                    /\ log[p][i].type \in {"Added", "Modified", "Deleted"}
                    /\ log[p][i].state \in States
                    /\ log[p][i].restarts \in Nat
    <3>1. log[p] \in Seq(EventSet) /\ Len(log[p]) >= 1
      BY <2>0 DEF LogOK
    <3>2. DOMAIN log[p] = 1..Len(log[p]) /\ log[p] # <<>>
      BY <3>1, LenProperties
    <3> QED BY <3>1, <3>2, EventOf
  <2>2. ASSUME NEW t \in Task
        PROVE  /\ pc[t] \in {"watch", "get", "select"} <=> wait[t].for # "nothing"
               /\ wait[t].for \in {"nothing", "running", "restarted", "deleted"}
               /\ wait[t].seen \in wait[t].start..Len(log[t[2]])
               /\ wait[t].closed => pc[t] = "select"
    <3>1. PICK p \in Pod : t = <<"crash", p>> \/ t = <<"terminate", p>>
      BY DEF Task, Fault
    <3>4. WaitOK(log[p], pc[<<"crash", p>>], wait[<<"crash", p>>])
      BY <2>0, Zenon DEF Loop, LoopOK
    <3>5. WaitOK(log[p], pc[<<"terminate", p>>], wait[<<"terminate", p>>])
      BY <2>0, Zenon DEF Stop, StopOK
    <3>2. WaitOK(log[p], pc[t], wait[t]) /\ t[2] = p
      BY <3>1, <3>4, <3>5
    <3>3. Len(log[p]) \in Nat
      BY <2>0 DEF LogOK
    <3> QED BY <3>2, <3>3 DEF WaitOK, WaitSet, Watching
  <2>3. \A p \in Pod : failures[p] = MaxFailures <=> result[<<"crash", p>>] = "error"
    BY <2>0 DEF Loop, LoopOK
  <2> QED BY <2>0, <2>1, <2>2, <2>3 DEF Shape, TypeOK
<1> QED BY Initial, Inductive, <1>1, PTL DEF Spec

\* A wait that goes on although its condition holds has the event that says so
\* ahead of it (waitForCondition watches before it reads), whatever happens to
\* the pod between the deletion, the watch, the read and each event.
THEOREM UpdatesCorrect == Spec => []NoMissedUpdate
<1>1. ASSUME IInv PROVE NoMissedUpdate
  <2> SUFFICES ASSUME NEW t \in Task, NEW p, p = t[2], pc[t] = "select"
               PROVE  \/ \E i \in wait[t].seen + 1 .. Len(log[p]) : Decides(t, log[p][i])
                      \/ IF wait[t].for = "deleted"
                         THEN \/ Deleted(p, aim[p] + 1, wait[t].start)
                              \/ ~Deleted(p, aim[p] + 1, Len(log[p]))
                         ELSE ~Holds(t, Current(p)) \/ ~Exists(p)
    BY DEF NoMissedUpdate
  <2>0. Shape /\ \A q \in Pod : LogOK(log[q]) /\ Loop(q) /\ Stop(q)
    BY <1>1 DEF IInv
  <2>1. p \in Pod /\ (t = <<"crash", p>> \/ t = <<"terminate", p>>)
    BY DEF Task, Fault
  <2>2. Len(log[p]) \in Nat /\ Len(log[p]) >= 1
    BY <2>0, <2>1 DEF LogOK
  <2> DEFINE w == wait[t]
             l == log[p]
  <2>3. CASE t = <<"crash", p>>
    <3>0. LoopOK(l, "select", w, before[p], failures[p], crashes[p], kills[p], result[t])
      BY <2>0, <2>1, <2>3 DEF Loop
    <3>1. /\ w.for \in {"running", "restarted"} /\ w.seen \in Nat /\ w.start \in Nat
          /\ w.start >= 1 /\ w.start <= w.seen
          /\ l[Len(l)].type # "Deleted" =>
               \/ w.seen < Len(l)
               \/ w.for = "running" /\ l[Len(l)].state # "running"
               \/ w.for = "restarted" /\ l[Len(l)].restarts <= before[p]
      BY <3>0 DEF LoopOK, WaitOK, WaitSet, Watching
    <3>2. CASE l[Len(l)].type = "Deleted" \/ ~Holds(t, Current(p))
      BY <3>1, <3>2 DEF Exists, Current
    <3>3. CASE l[Len(l)].type # "Deleted" /\ Holds(t, Current(p))
      <4>0. l[Len(l)].restarts \in Nat /\ before[p] \in Nat
        BY <2>0, <2>1, <2>2, EventOf DEF LogOK, Shape
      <4>1. w.seen < Len(l)
        <5>1. w.for = "running" => l[Len(l)].state = "running"
          BY <3>3 DEF Holds, Current
        <5>2. w.for = "restarted" => l[Len(l)].restarts > before[p]
          BY <2>3, <3>3 DEF Holds, Current
        <5> QED BY <3>1, <3>3, <4>0, <5>1, <5>2
      <4>2. Len(l) \in 2..Len(l) /\ Len(l) \in w.seen + 1 .. Len(l)
        BY <2>2, <3>1, <4>1
      <4>3. l[Len(l)].type = "Modified"
        <5>1. l[Len(l)].type \in {"Added", "Modified"}
          BY <2>0, <2>1, <2>2, <3>3, EventOf DEF LogOK
        <5>2. l[Len(l)].type # "Added"
          <6>1. CASE w.for = "running"
            BY <2>0, <2>1, <3>3, <4>2, <6>1 DEF LogOK, Holds, Current
          <6>2. CASE w.for = "restarted"
            <7>1. l[Len(l)].restarts > before[p]
              BY <2>3, <3>3, <6>2 DEF Holds, Current
            <7>2. l[Len(l)].restarts # 0
              BY <4>0, <7>1
            <7> QED BY <2>0, <2>1, <4>2, <7>2 DEF LogOK
          <6> QED BY <3>1, <6>1, <6>2
        <5> QED BY <5>1, <5>2
      <4>4. Decides(t, l[Len(l)])
        BY <3>1, <3>3, <4>3 DEF Decides, Current
      <4> QED BY <4>2, <4>4
    <3> QED BY <3>2, <3>3
  <2>4. CASE t = <<"terminate", p>>
    <3>0. StopOK(l, "select", w, aim[p], result[t])
      BY <2>0, <2>1, <2>4 DEF Stop
    <3>1. /\ w.for = "deleted" /\ w.seen \in Nat /\ w.start \in Nat
          /\ \A i \in w.start + 1 .. w.seen : l[i].type # "Deleted"
      BY <3>0 DEF StopOK, WaitOK, WaitSet, Watching
    <3>2. aim[p] \in Nat
      BY <2>0, <2>1 DEF Shape
    <3> SUFFICES ASSUME Deleted(p, aim[p] + 1, Len(l)), ~Deleted(p, aim[p] + 1, w.start)
                 PROVE  \E i \in w.seen + 1 .. Len(l) : Decides(t, l[i])
      BY <3>1
    <3>3. PICK k \in aim[p] + 1 .. Len(l) : l[k].type = "Deleted"
      BY DEF Deleted
    <3>4. k > w.start
      BY <2>2, <3>1, <3>2, <3>3 DEF Deleted
    <3>5. k > w.seen
      BY <2>2, <3>1, <3>2, <3>3, <3>4
    <3>6. Decides(t, l[k])
      BY <3>1, <3>3 DEF Decides
    <3> QED BY <2>2, <3>1, <3>2, <3>3, <3>5, <3>6
  <2> QED BY <2>1, <2>3, <2>4
<1> QED BY Initial, Inductive, <1>1, PTL DEF Spec

\* A crash that the loop counts is a restart of the container, and kills that
\* are not counted are at most maxConsecutiveFailures for each crash
\* (crashLoopPod), for every Count and every maxConsecutiveFailures.
THEOREM CrashesCorrect == Spec => []CrashesVerified
<1>1. ASSUME IInv PROVE CrashesVerified
  <2> SUFFICES ASSUME NEW p \in Pod
               PROVE  /\ crashes[p] <= Restarts(p)
                      /\ CrashCount > 0 => kills[p] <= CrashCount * MaxFailures
    BY DEF CrashesVerified
  <2> DEFINE t == <<"crash", p>>
  <2>1. LoopOK(log[p], pc[t], wait[t], before[p], failures[p], crashes[p], kills[p], result[t])
    BY <1>1 DEF IInv, Loop
  <2>2. crashes[p] <= Restarts(p)
    BY <2>1 DEF LoopOK, Restarts, Rises, Rise
  <2>3. ASSUME CrashCount > 0 PROVE kills[p] <= CrashCount * MaxFailures
    <3>0. /\ failures[p] \in 0..MaxFailures /\ crashes[p] \in Nat /\ kills[p] \in Nat
          /\ Budget(pc[t], wait[t], failures[p], crashes[p], kills[p])
      BY <2>1, <2>3 DEF LoopOK
    <3>1. CASE pc[t] = "done"
      BY <3>0, <3>1 DEF Budget
    <3>2. CASE pc[t] # "done" /\ crashes[p] = CrashCount
      <4>1. pc[t] = "top" /\ failures[p] = 0 /\ wait[t].for = "nothing"
        BY <2>1, <3>0, <3>2 DEF Budget, LoopOK, WaitOK, Watching
      <4> QED BY <3>0, <3>2, <4>1 DEF Budget
    <3>3. CASE pc[t] # "done" /\ crashes[p] < CrashCount
      <4>1. failures[p] < MaxFailures
        BY <2>1, <3>0, <3>3 DEF LoopOK
      <4>2. /\ failures[p] + 1 \in 0..MaxFailures
            /\ kills[p] <= crashes[p] * MaxFailures + (failures[p] + 1)
        BY <3>0, <3>3, <4>1, KillsWithin DEF Budget
      <4> QED BY <3>0, <3>3, <4>2, KillsWithin
    <3> QED BY <3>0, <3>1, <3>2, <3>3 DEF Budget
  <2> QED BY <2>2, <2>3
<1> QED BY Initial, Inductive, <1>1, PTL DEF Spec

\* A call that returns nil did what it says (InjectCrashLoopFault after it has
\* joined its goroutines, TerminatePods after its visits): a container was
\* restarted and no loop is still running; each pod of the sample is gone.
THEOREM DoneCorrect == Spec => []OkMeansDone
<1>1. ASSUME IInv PROVE OkMeansDone
  <2>0. Shape /\ Calls /\ \A q \in Pod : LogOK(log[q]) /\ Loop(q) /\ Stop(q)
    BY <1>1 DEF IInv
  <2>1. ASSUME call["crash"] = "ok"
        PROVE  /\ \E p \in Pod : Restarts(p) > 0
               /\ \A p \in Looped : pc[<<"crash", p>>] = "done"
    <3>1. PICK p \in Pod : crashes[p] > 0
      BY <2>0, <2>1 DEF Calls
    <3>2. crashes[p] <= Restarts(p) /\ crashes[p] \in Nat
      BY <2>0 DEF Loop, LoopOK, Restarts, Rises, Rise
    <3>3. Restarts(p) \in Nat
      <4>1. Len(log[p]) \in Nat
        BY <2>0 DEF LogOK
      <4> QED BY <4>1, RisesFinite DEF Restarts, Rises, Rise
    <3>4. Restarts(p) > 0
      BY <3>1, <3>2, <3>3
    <3> QED BY <2>0, <2>1, <3>4 DEF Calls
  <2>2. ASSUME call["terminate"] = "ok", NEW p \in chosen
        PROVE  aim[p] > 0 /\ Deleted(p, aim[p] + 1, Len(log[p]))
    <3>1. p \in Pod /\ result[<<"terminate", p>>] = "ok"
      BY <2>0, <2>2 DEF Calls, Shape
    <3> QED BY <2>0, <3>1 DEF Stop, StopOK, Deleted
  <2> QED BY <2>1, <2>2 DEF OkMeansDone
<1> QED BY Initial, Inductive, <1>1, PTL DEF Spec
=============================================================================
