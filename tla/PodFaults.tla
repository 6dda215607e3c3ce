----------------------------- MODULE PodFaults -----------------------------
(***************************************************************************)
(* The two faults the pod disruptor injects without an agent:              *)
(* InjectCrashLoopFault, which kills the container of every target again   *)
(* and again and verifies each restart, and TerminatePods, which deletes a *)
(* sample of the targets and waits for each to go.  Both follow a pod      *)
(* through a watch of the API server, while the kubelet restarts           *)
(* containers, containers die by themselves, others delete pods, and a     *)
(* controller recreates a deleted pod under the same name.  Pods are       *)
(* numbered in the order the selector lists them.                          *)
(***************************************************************************)
EXTENDS Integers, Sequences, FiniteSets, Functions

CONSTANTS NumPods,      \* targets of the calls
          Looped,       \* the targets of the crash loop among them
          CrashCount,   \* fault.Count, 0 for no limit
          MaxFailures,  \* maxConsecutiveFailures: 5 in the code
          Counts,       \* counts TerminatePods is called with
          MaxChanges,   \* bound: events of the pods, which change while followed
          MaxErrors     \* bound: errors of the API server and of watches

ASSUME PodFaultsAssumption ==
  /\ NumPods \in Nat \ {0}
  /\ CrashCount \in Nat
  /\ MaxFailures \in Nat \ {0}
  /\ Counts \subseteq {"int", "percent"} \X Int
  /\ MaxChanges \in Nat /\ MaxErrors \in Nat
  /\ Looped \subseteq 1..NumPods

Pod == 1..NumPods
Fault == {"crash", "terminate"}
Task == Fault \X Pod           \* the goroutine of a fault in a pod

VARIABLES
  log,      \* per pod: the events of its object, oldest first
  alive,    \* per pod: the container runs (its status follows later)
  doomed,   \* per pod: its object has a deletion timestamp
  ctx,      \* per fault: "open" or "cancelled"
  due,      \* the deadline of the crash loop has passed
  pc,       \* per task: its step
  wait,     \* per task: the condition it waits for, and the watch: events of
            \* the pod when it started, events delivered, whether it is closed
  before,   \* per pod: restartCountBefore
  failures, \* per pod: consecutiveFailures
  crashes,  \* per pod: restarts the loop has verified
  kills,    \* per pod: history, kill commands that took effect
  aim,      \* per pod: history, events when Terminate deleted it
  errors,   \* errors so far
  chosen,   \* the pods TerminatePods has sampled
  result,   \* per task: "none", "ok" or "error"
  call      \* per fault: "idle", "running", "ok", "error" or "panic"

podVars  == <<log, alive, doomed>>
loopVars == <<before, failures, crashes, kills>>
callVars == <<ctx, due, chosen, call>>
vars == <<podVars, wait, loopVars, callVars, errors, pc, aim, result>>

-----------------------------------------------------------------------------
(* Pods, the kubelet and the other users of the cluster *)

\* An event of the watch: the container is "created", "running" or "waiting".
Event(type, state, restarts) == [type |-> type, state |-> state, restarts |-> restarts]
Current(p) == log[p][Len(log[p])]
Exists(p) == Current(p).type # "Deleted"
Deleted(p, i, j) == \E k \in i..j : log[p][k].type = "Deleted"
Events == SumFunction([p \in Pod |-> Len(log[p])])
Followed(p) == \E f \in Fault : pc[<<f, p>>] \notin {"idle", "done"}
CanChange(p) == Followed(p) /\ Events < NumPods + MaxChanges
Record(p, e) == log' = [log EXCEPT ![p] = Append(@, e)]
Restarts(p) == Cardinality({i \in 2..Len(log[p]) :
                              log[p][i].restarts > log[p][i - 1].restarts})

\* The kubelet reports a container that is down.
ReportDown(p) ==
  /\ Exists(p) /\ CanChange(p) /\ ~alive[p] /\ Current(p).state = "running"
  /\ Record(p, Event("Modified", "waiting", Current(p).restarts))
  /\ UNCHANGED <<alive, doomed, wait, loopVars, callVars, pc, errors, aim, result>>

\* The kubelet starts a new container, or restarts one that is down, whether
\* or not it has reported it.
StartContainer(p) ==
  /\ Exists(p) /\ CanChange(p) /\ ~alive[p]
  /\ Record(p, Event("Modified", "running",
       Current(p).restarts + (IF Current(p).state = "created" THEN 0 ELSE 1)))
  /\ alive' = [alive EXCEPT ![p] = TRUE]
  /\ UNCHANGED <<doomed, wait, loopVars, callVars, pc, errors, aim, result>>

\* A container dies by itself.
Die(p) ==
  /\ Exists(p) /\ CanChange(p) /\ alive[p]
  /\ alive' = [alive EXCEPT ![p] = FALSE]
  /\ UNCHANGED <<log, doomed, wait, loopVars, callVars, pc, errors, aim, result>>

\* Somebody else deletes the pod.
Evict(p) ==
  /\ Exists(p) /\ CanChange(p) /\ ~doomed[p]
  /\ doomed' = [doomed EXCEPT ![p] = TRUE]
  /\ UNCHANGED <<log, alive, wait, loopVars, callVars, pc, errors, aim, result>>

Vanish(p) ==
  /\ Followed(p) /\ Exists(p) /\ doomed[p]
  /\ Record(p, Event("Deleted", "waiting", Current(p).restarts))
  /\ alive' = [alive EXCEPT ![p] = FALSE]
  /\ doomed' = [doomed EXCEPT ![p] = FALSE]
  /\ UNCHANGED <<wait, loopVars, callVars, pc, errors, aim, result>>

\* The controller of the pod recreates it, with its name if it is stateful.
Recreate(p) ==
  /\ ~Exists(p) /\ CanChange(p)
  /\ Record(p, Event("Added", "created", 0))
  /\ UNCHANGED <<alive, doomed, wait, loopVars, callVars, pc, errors, aim, result>>

Cancel(f) ==
  /\ call[f] = "running" /\ ctx[f] = "open"
  /\ ctx' = [ctx EXCEPT ![f] = "cancelled"]
  /\ UNCHANGED <<podVars, wait, loopVars, due, chosen, call, pc, errors, aim, result>>

Deadline ==
  /\ call["crash"] = "running" /\ ~due
  /\ due' = TRUE
  /\ UNCHANGED <<podVars, wait, loopVars, ctx, chosen, call, pc, errors, aim, result>>

-----------------------------------------------------------------------------
(* A task: the steps of crashLoopPod and Terminate *)

Goto(t, l) == pc' = [pc EXCEPT ![t] = l]
Return(t, r) == Goto(t, "done") /\ result' = [result EXCEPT ![t] = r]
NoWait == [for |-> "nothing", start |-> 0, seen |-> 0, closed |-> FALSE]
WaitFor(t, condition) ==
  Goto(t, "watch") /\ wait' = [wait EXCEPT ![t].for = condition]

\* A request that fails, or a watch that ends: always once the context is
\* cancelled, else as an error of the server.
Refused(f) == \/ ctx[f] = "cancelled" /\ UNCHANGED errors
              \/ errors < MaxErrors /\ errors' = errors + 1

\* A failed attempt of the loop: give up after MaxFailures in a row.
Fail(p) ==
  LET t == <<"crash", p>>  n == failures[p] + 1
  IN  /\ failures' = [failures EXCEPT ![p] = n]
      /\ IF n >= MaxFailures THEN Return(t, "error")
                             ELSE Goto(t, "top") /\ UNCHANGED result

\* Mutant of WaitEnds: a restart that was not seen is counted.
WaitEndsCounted(t, outcome) ==
  LET p == t[2] IN
  /\ wait' = [wait EXCEPT ![t] = NoWait]
  /\ CASE wait[t].for = "deleted" ->
            /\ Return(t, IF outcome = "failed" THEN "error" ELSE "ok")
            /\ UNCHANGED loopVars
       [] wait[t].for = "running" /\ outcome = "yes" ->
            Goto(t, "count") /\ UNCHANGED <<loopVars, result>>
       [] wait[t].for = "restarted" /\ outcome # "failed" ->
            /\ crashes' = [crashes EXCEPT ![p] = @ + 1]
            /\ failures' = [failures EXCEPT ![p] = 0]
            /\ Goto(t, "top") /\ UNCHANGED <<before, kills, result>>
       [] OTHER -> Fail(p) /\ UNCHANGED <<before, crashes, kills>>

\* How a wait ends: "yes", "no" (its timeout) or "failed".
WaitEnds(t, outcome) ==
  LET p == t[2] IN
  /\ wait' = [wait EXCEPT ![t] = NoWait]
  /\ CASE wait[t].for = "deleted" ->
            /\ Return(t, IF outcome = "yes" THEN "ok" ELSE "error")
            /\ UNCHANGED loopVars
       [] wait[t].for = "running" /\ outcome = "yes" ->
            Goto(t, "count") /\ UNCHANGED <<loopVars, result>>
       [] wait[t].for = "restarted" /\ outcome = "yes" ->
            /\ crashes' = [crashes EXCEPT ![p] = @ + 1]
            /\ failures' = [failures EXCEPT ![p] = 0]
            /\ Goto(t, "top") /\ UNCHANGED <<before, kills, result>>
       [] OTHER -> Fail(p) /\ UNCHANGED <<before, crashes, kills>>

\* The condition of a wait, on an object that Get or the watch returned.
Holds(t, e) ==
  CASE wait[t].for = "running"   -> e.state = "running"
    [] wait[t].for = "restarted" -> e.restarts > before[t[2]]
    [] wait[t].for = "deleted"   -> FALSE

\* WaitPodDeleted looks at deletions, the other waits at modifications.
Decides(t, e) ==
  IF wait[t].for = "deleted" THEN e.type = "Deleted"
                         ELSE e.type = "Modified" /\ Holds(t, e)

Watch(t) ==
  /\ pc[t] = "watch"
  /\ \/ /\ ctx[t[1]] = "open"
        /\ wait' = [wait EXCEPT ![t].start = Len(log[t[2]]), ![t].seen = Len(log[t[2]])]
        /\ Goto(t, "get") /\ UNCHANGED <<loopVars, errors, result>>
     \/ Refused(t[1]) /\ WaitEnds(t, "failed")
  /\ UNCHANGED <<podVars, callVars, aim>>

\* Mutant of Get: the object is read before the watch is there, which then
\* skips what happened in between.
GetFirst(t) ==
  LET p == t[2] IN
  /\ pc[t] = "get" /\ Exists(p)
  /\ \E i \in wait[t].seen..Len(log[p]) :
       IF Holds(t, log[p][i]) THEN WaitEnds(t, "yes")
       ELSE /\ wait' = [wait EXCEPT ![t].seen = Len(log[p])]
            /\ Goto(t, "select") /\ UNCHANGED <<loopVars, result>>
  /\ UNCHANGED <<podVars, callVars, errors, aim>>

\* The object is read once the watch is there.  WaitPodDeleted ends if there is
\* no object and ignores any other error; the other waits fail.
Get(t) ==
  LET p == t[2] IN
  /\ pc[t] = "get"
  /\ \/ /\ ctx[t[1]] = "open"
        /\ CASE ~Exists(p) /\ wait[t].for = "deleted" -> WaitEnds(t, "yes")
             [] ~Exists(p) /\ wait[t].for # "deleted" -> WaitEnds(t, "failed")
             [] Exists(p) /\ Holds(t, Current(p)) -> WaitEnds(t, "yes")
             [] Exists(p) /\ ~Holds(t, Current(p)) ->
                  Goto(t, "select") /\ UNCHANGED <<wait, loopVars, result>>
        /\ UNCHANGED errors
     \/ /\ Refused(t[1])
        /\ IF wait[t].for = "deleted"
           THEN Goto(t, "select") /\ UNCHANGED <<wait, loopVars, result>>
           ELSE WaitEnds(t, "failed")
  /\ UNCHANGED <<podVars, callVars, aim>>

\* The watch delivers the next event.
TakeEvent(t) ==
  LET e == log[t[2]][wait[t].seen + 1] IN
  /\ pc[t] = "select" /\ ~wait[t].closed /\ wait[t].seen < Len(log[t[2]])
  /\ IF Decides(t, e) THEN WaitEnds(t, "yes")
     ELSE wait' = [wait EXCEPT ![t].seen = @ + 1] /\ UNCHANGED <<pc, loopVars, result>>
  /\ UNCHANGED <<podVars, callVars, errors, aim>>

\* The server reports an error through the watch, or the watch ends: its
\* channel is closed and yields zero events, which are neither, so the loop
\* spins and no longer notices the condition or the context.
WatchEnds(t) ==
  /\ pc[t] = "select" /\ ~wait[t].closed
  /\ \/ wait' = [wait EXCEPT ![t].closed = TRUE] /\ UNCHANGED <<pc, loopVars, result>>
     \/ WaitEnds(t, "failed")
  /\ Refused(t[1])
  /\ UNCHANGED <<podVars, callVars, aim>>

\* Mutant of Expire: the timer only counts while the watch is open.
ExpireOpen(t) ==
  /\ pc[t] = "select" /\ ~wait[t].closed
  /\ WaitEnds(t, "no")
  /\ UNCHANGED <<podVars, callVars, errors, aim>>

Expire(t) ==
  /\ pc[t] = "select"
  /\ WaitEnds(t, "no")
  /\ UNCHANGED <<podVars, callVars, errors, aim>>

\* The head of the loop of crashLoopPod.
Top(p) ==
  LET t == <<"crash", p>> IN
  /\ pc[t] = "top"
  /\ IF \/ ctx["crash"] = "cancelled"
        \/ due
        \/ CrashCount > 0 /\ crashes[p] >= CrashCount
     THEN Return(t, "ok") /\ UNCHANGED wait
     ELSE WaitFor(t, "running") /\ UNCHANGED result
  /\ UNCHANGED <<podVars, loopVars, callVars, errors, aim>>

\* GetContainerRestartCount
ReadCount(p) ==
  LET t == <<"crash", p>> IN
  /\ pc[t] = "count"
  /\ \/ /\ ctx["crash"] = "open" /\ Exists(p)
        /\ before' = [before EXCEPT ![p] = Current(p).restarts]
        /\ Goto(t, "kill") /\ UNCHANGED <<failures, errors, result>>
     \/ /\ (~Exists(p) /\ UNCHANGED errors) \/ Refused("crash")
        /\ Fail(p) /\ UNCHANGED before
  /\ UNCHANGED <<podVars, wait, callVars, crashes, kills, aim>>

\* The kill takes effect or not, and its exec reports success or an error: the
\* command may be killed with the container before it has answered, and the
\* main process of a container may ignore it.
Kill(p) ==
  LET t == <<"crash", p>> IN
  /\ pc[t] = "kill"
  /\ \E effect, answered \in BOOLEAN :
       /\ effect \/ answered => alive[p] /\ ctx["crash"] = "open"
       /\ alive' = [alive EXCEPT ![p] = @ /\ ~effect]
       /\ kills' = [kills EXCEPT ![p] = @ + (IF effect THEN 1 ELSE 0)]
       /\ IF answered THEN Goto(t, "killed") /\ UNCHANGED <<failures, result>>
                      ELSE Fail(p)
  /\ UNCHANGED <<log, doomed, wait, callVars, before, crashes, errors, aim>>

Killed(p) ==
  LET t == <<"crash", p>> IN
  /\ pc[t] = "killed"
  /\ IF due THEN Return(t, "ok") /\ UNCHANGED wait
            ELSE WaitFor(t, "restarted") /\ UNCHANGED result
  /\ UNCHANGED <<podVars, loopVars, callVars, errors, aim>>

\* Terminate: the pod is deleted by its name, whichever instance has it now.
Delete(p) ==
  LET t == <<"terminate", p>> IN
  /\ pc[t] = "delete"
  /\ \/ /\ Exists(p) /\ ctx["terminate"] = "open"
        /\ doomed' = [doomed EXCEPT ![p] = TRUE]
        /\ aim' = [aim EXCEPT ![p] = Len(log[p])]
        /\ WaitFor(t, "deleted") /\ UNCHANGED <<errors, result>>
     \/ /\ (~Exists(p) /\ UNCHANGED errors) \/ Refused("terminate")
        /\ Return(t, "error") /\ UNCHANGED <<doomed, wait, aim>>
  /\ UNCHANGED <<log, alive, loopVars, callVars>>

-----------------------------------------------------------------------------
(* The calls *)

\* utils.Sample: how many of n pods, or -1 for an error.  A negative count is
\* not an error: slicing the list with it panics.
Round(a, b) == (2 * a + b) \div (2 * b)
SampleSize(n, count) ==
  LET size == CASE count[1] = "int" -> count[2]
                [] count = <<"percent", 0>> -> 0
                [] OTHER -> IF Round(n * count[2], 100) > 1
                            THEN Round(n * count[2], 100) ELSE 1
  IN  IF size > n THEN -1 ELSE IF size < 0 THEN -2 ELSE size

\* One call in a behaviour: to it, the calls of others are Die and Evict.
Idle == \A f \in Fault : call[f] = "idle"

\* Both calls fail when the targets cannot be listed or there are none.
InjectCrashLoopFault ==
  /\ Idle
  /\ \/ /\ Looped # {}
        /\ call' = [call EXCEPT !["crash"] = "running"]
        /\ pc' = [t \in Task |-> IF t[1] = "crash" /\ t[2] \in Looped THEN "top" ELSE pc[t]]
        /\ UNCHANGED errors
     \/ /\ (Looped = {} /\ UNCHANGED errors) \/ Refused("crash")
        /\ call' = [call EXCEPT !["crash"] = "error"]
        /\ UNCHANGED pc
  /\ UNCHANGED <<podVars, wait, loopVars, ctx, due, chosen, aim, result>>

TerminatePods ==
  /\ Idle
  /\ \/ /\ \E count \in Counts :
             LET n == SampleSize(NumPods, count) IN
             /\ call' = [call EXCEPT !["terminate"] =
                  CASE n = -2 -> "panic" [] n = -1 -> "error" [] n = 0 -> "ok"
                    [] OTHER -> "running"]
             /\ chosen' = 1..n
        /\ UNCHANGED errors
     \/ /\ Refused("terminate")
        /\ call' = [call EXCEPT !["terminate"] = "error"]
        /\ UNCHANGED chosen
  /\ pc' = [t \in Task |-> IF t[1] = "terminate" /\ t[2] \in chosen'
                           THEN "delete" ELSE pc[t]]
  /\ UNCHANGED <<podVars, wait, loopVars, ctx, due, aim, result>>

\* InjectCrashLoopFault joins all its goroutines; without a crash or an error
\* it reports that it had no effect.
CrashLoopReturns ==
  /\ call["crash"] = "running"
  /\ \A p \in Looped : result[<<"crash", p>>] # "none"
  /\ call' = [call EXCEPT !["crash"] =
       IF /\ \A p \in Looped : result[<<"crash", p>>] = "ok"
          /\ \E p \in Pod : crashes[p] > 0
       THEN "ok" ELSE "error"]
  /\ UNCHANGED <<podVars, wait, loopVars, ctx, due, chosen, pc, errors, aim, result>>

\* Mutant of TerminateReturns: the first result decides.
TerminateReturnsFirst ==
  LET results == {result[<<"terminate", p>>] : p \in chosen} IN
  /\ call["terminate"] = "running"
  /\ \/ "ok" \in results /\ call' = [call EXCEPT !["terminate"] = "ok"]
     \/ /\ "error" \in results \/ ctx["terminate"] = "cancelled"
        /\ call' = [call EXCEPT !["terminate"] = "error"]
  /\ ctx' = [ctx EXCEPT !["terminate"] = "cancelled"]
  /\ UNCHANGED <<podVars, wait, loopVars, due, chosen, pc, errors, aim, result>>

\* Visit returns at the first error, which cancels the other visits, when all
\* have succeeded, or when the caller cancels.
TerminateReturns ==
  LET results == {result[<<"terminate", p>>] : p \in chosen} IN
  /\ call["terminate"] = "running"
  /\ \/ results = {"ok"} /\ call' = [call EXCEPT !["terminate"] = "ok"]
     \/ /\ "error" \in results \/ ctx["terminate"] = "cancelled"
        /\ call' = [call EXCEPT !["terminate"] = "error"]
  /\ ctx' = [ctx EXCEPT !["terminate"] = "cancelled"]
  /\ UNCHANGED <<podVars, wait, loopVars, due, chosen, pc, errors, aim, result>>

-----------------------------------------------------------------------------
(* The specification *)

Init ==
  /\ log = [p \in Pod |-> <<Event("Added", "running", 0)>>]
  /\ alive = [p \in Pod |-> TRUE]
  /\ doomed = [p \in Pod |-> FALSE]
  /\ ctx = [f \in Fault |-> "open"]
  /\ due = FALSE
  /\ pc = [t \in Task |-> "idle"]
  /\ wait = [t \in Task |-> NoWait]
  /\ before = [p \in Pod |-> 0]
  /\ failures = [p \in Pod |-> 0]
  /\ crashes = [p \in Pod |-> 0]
  /\ kills = [p \in Pod |-> 0]
  /\ aim = [p \in Pod |-> 0]
  /\ errors = 0
  /\ chosen = {}
  /\ result = [t \in Task |-> "none"]
  /\ call = [f \in Fault |-> "idle"]

Cluster(p) == \/ ReportDown(p) \/ StartContainer(p) \/ Die(p)
              \/ Evict(p) \/ Vanish(p) \/ Recreate(p)
CrashStep(p) == Top(p) \/ ReadCount(p) \/ Kill(p) \/ Killed(p)
WaitStep(t) == Watch(t) \/ Get(t) \/ TakeEvent(t) \/ WatchEnds(t) \/ Expire(t)

Next ==
  \/ \E p \in Pod : Cluster(p) \/ CrashStep(p) \/ Delete(p)
  \/ \E t \in Task : WaitStep(t)
  \/ \E f \in Fault : Cancel(f)
  \/ Deadline
  \/ InjectCrashLoopFault \/ TerminatePods \/ CrashLoopReturns \/ TerminateReturns

Spec == Init /\ [][Next]_vars

\* Goroutines are scheduled, timers fire and requests are answered; nothing is
\* assumed of the cluster, the watch or the caller.
FairSpec ==
  /\ Spec
  /\ \A p \in Pod : WF_vars(CrashStep(p)) /\ WF_vars(Delete(p))
  /\ \A t \in Task : WF_vars(Watch(t)) /\ WF_vars(Get(t)) /\ WF_vars(Expire(t))
  /\ WF_vars(Deadline)
  /\ WF_vars(CrashLoopReturns) /\ WF_vars(TerminateReturns)

-----------------------------------------------------------------------------
(* Properties *)

States == {"created", "running", "waiting"}
Steps == {"idle", "top", "watch", "get", "select", "count", "kill", "killed",
          "delete", "done"}

\* Every variable has its type, and a loop that goes on has failed less than
\* maxConsecutiveFailures times in a row.
TypeOK ==
  /\ \A p \in Pod : /\ log[p] # <<>>
                    /\ \A i \in DOMAIN log[p] :
                         /\ log[p][i].type \in {"Added", "Modified", "Deleted"}
                         /\ log[p][i].state \in States
                         /\ log[p][i].restarts \in Nat
  /\ alive \in [Pod -> BOOLEAN] /\ doomed \in [Pod -> BOOLEAN]
  /\ ctx \in [Fault -> {"open", "cancelled"}] /\ due \in BOOLEAN
  /\ pc \in [Task -> Steps]
  /\ \A t \in Task :
       /\ pc[t] \in {"watch", "get", "select"} <=> wait[t].for # "nothing"
       /\ wait[t].for \in {"nothing", "running", "restarted", "deleted"}
       /\ wait[t].seen \in wait[t].start..Len(log[t[2]])
       /\ wait[t].closed => pc[t] = "select"
  /\ failures \in [Pod -> 0..MaxFailures]
  /\ \A p \in Pod : failures[p] = MaxFailures <=> result[<<"crash", p>>] = "error"
  /\ result \in [Task -> {"none", "ok", "error"}]
  /\ call \in [Fault -> {"idle", "running", "ok", "error", "panic"}]
  /\ chosen \subseteq Pod

\* A wait that is still going on although its condition holds has the event
\* that says so ahead of it, unless its watch was closed, or the pod was
\* deleted and recreated before the watch of a Terminate was started
\* (waitForCondition watches before it reads, "to prevent race conditions").
NoMissedUpdate ==
  \A t \in Task :
    LET p == t[2] IN
    pc[t] = "select" /\ ~wait[t].closed =>
      \/ \E i \in wait[t].seen + 1 .. Len(log[p]) : Decides(t, log[p][i])
      \/ IF wait[t].for = "deleted" THEN \/ Deleted(p, aim[p] + 1, wait[t].start)
                                     \/ ~Deleted(p, aim[p] + 1, Len(log[p]))
                                ELSE ~Holds(t, Current(p)) \/ ~Exists(p)

\* A crash that the loop counts is a restart of the container.  The loop may
\* kill more often than fault.Count, because a kill whose exec failed or whose
\* restart was not seen in time is not counted: but at most
\* maxConsecutiveFailures times for each crash.
CrashesVerified ==
  \A p \in Pod : /\ crashes[p] <= Restarts(p)
                 /\ CrashCount > 0 => kills[p] <= CrashCount * MaxFailures

\* A call that returns nil did what it says: for a crash loop no target failed
\* and a container was restarted; for a termination each pod of the sample
\* that it deleted is gone, even if another has its name.
OkMeansDone ==
  /\ call["crash"] = "ok" => /\ \E p \in Pod : Restarts(p) > 0
                             /\ \A p \in Looped : pc[<<"crash", p>>] = "done"
  /\ call["terminate"] = "ok" =>
       \A p \in chosen : aim[p] > 0 /\ Deleted(p, aim[p] + 1, Len(log[p]))

\* A call returns, whatever happens to its watches: a wait whose watch was
\* closed ends with its timeout.
CallsEnd == \A f \in Fault : call[f] = "running" ~> call[f] # "running"
=============================================================================
