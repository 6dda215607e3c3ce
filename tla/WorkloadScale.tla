---------------------------- MODULE WorkloadScale ----------------------------
(***************************************************************************)
(* WorkloadDisruptor (pkg/disruptors/workload.go, replica.go): changes the *)
(* replica count of a set of workloads and restores it, either by itself   *)
(* after a duration (AutoRevert) or when Cleanup is called.                *)
(*                                                                         *)
(* ScaleReplicas runs a goroutine per workload; Cleanup and the automatic  *)
(* revert go through the workloads one by one.  A change is a Get and an   *)
(* Update, which the API server refuses when the object was updated in     *)
(* between (optimistic locking on resourceVersion).  Any call may fail,    *)
(* and the response of an Update that took effect may be lost.             *)
(*                                                                         *)
(* The calls on one disruptor come one after another (a virtual user runs  *)
(* one); several disruptors may act on the same workloads.                 *)
(***************************************************************************)
EXTENDS Integers

CONSTANTS
  Disruptor,   \* WorkloadDisruptor objects
  Workload,    \* the targets of every disruptor
  Counts,      \* replica counts the workloads may start with
  Fault,       \* ReplicaChangeFault values: [kind, amount, autoRevert]
  Half,        \* int32 is -Half .. Half - 1 (2^31 in the code)
  Whole,       \* the percentage that leaves the count alone (100 in the code)
  NoCount      \* no entry in the map of originals

ASSUME ScaleAssumption ==
  /\ Half \in Nat \ {0}
  /\ Whole \in Nat \ {0}
  /\ Counts \subseteq 0..(Half - 1)
  /\ NoCount \notin Int
  /\ Fault \subseteq [kind : {"replicas", "delta", "percentage"},
                      amount : Int,
                      autoRevert : {"yes", "no"}]

VARIABLES
  replicas,    \* [Workload -> spec.replicas in the cluster]
  initial,     \* [Workload -> what it was at the start]: history
  originals,   \* [Disruptor -> [Workload -> recorded count or NoCount]]
  call,        \* [Disruptor -> phase of the call under way]
  fault,       \* [Disruptor -> argument of ScaleReplicas]
  work,        \* [Disruptor -> [Workload -> next API call]]
  target,      \* [Disruptor -> [Workload -> count to write]]
  current,     \* [Disruptor -> [Workload -> "fresh" or "stale"]]: what Get returned
  pending      \* [Disruptor -> workloads revertAll has yet to restore]

vars == <<replicas, initial, originals, call, fault, work, target, current, pending>>

TypeOK ==
  /\ replicas \in [Workload -> Nat]
  /\ initial \in [Workload -> Nat]
  /\ originals \in [Disruptor -> [Workload -> Nat \cup {NoCount}]]
  /\ call \in [Disruptor -> {"idle", "scaling", "holding", "reverting"}]
  /\ fault \in [Disruptor -> Fault]
  /\ work \in [Disruptor -> [Workload -> {"idle", "read", "get", "put", "done", "failed"}]]
  /\ target \in [Disruptor -> [Workload -> Nat]]
  /\ current \in [Disruptor -> [Workload -> {"fresh", "stale"}]]
  /\ pending \in [Disruptor -> SUBSET Workload]

Init ==
  /\ replicas \in [Workload -> Counts]
  /\ initial = replicas
  /\ originals = [d \in Disruptor |-> [w \in Workload |-> NoCount]]
  /\ call = [d \in Disruptor |-> "idle"]
  /\ fault \in [Disruptor -> Fault]
  /\ work = [d \in Disruptor |-> [w \in Workload |-> "idle"]]
  /\ target = [d \in Disruptor |-> [w \in Workload |-> 0]]
  /\ current = [d \in Disruptor |-> [w \in Workload |-> "stale"]]
  /\ pending = [d \in Disruptor |-> {}]

-----------------------------------------------------------------------------
\* int32: addition and conversion wrap around.
Int32(n) == ((n + Half) % (2 * Half)) - Half

\* Mutant of Resolve: a negative target is kept.
ResolveUnclamped(f, n) ==
  CASE f.kind = "replicas" -> f.amount
    [] f.kind = "delta" -> Int32(n + f.amount)
    [] f.kind = "percentage" -> Int32((n * f.amount) \div Whole)

\* ReplicaChangeFault.Resolve.
Resolve(f, n) ==
  LET t == CASE f.kind = "replicas" -> f.amount
             [] f.kind = "delta" -> Int32(n + f.amount)
             [] f.kind = "percentage" -> Int32((n * f.amount) \div Whole)
  IN  IF t < 0 THEN 0 ELSE t

Moves(d, w, label) == work' = [work EXCEPT ![d][w] = label]

Recorded(d) == {w \in Workload : originals[d][w] # NoCount}

-----------------------------------------------------------------------------
\* ScaleReplicas starts its goroutines.
BeginScale(d) ==
  /\ call[d] = "idle"
  /\ call' = [call EXCEPT ![d] = "scaling"]
  /\ \E f \in Fault : fault' = [fault EXCEPT ![d] = f]
  /\ work' = [work EXCEPT ![d] = [w \in Workload |-> "read"]]
  /\ UNCHANGED <<replicas, initial, originals, target, current, pending>>

\* Mutant of ReadReplicas: the count is recorded on every call.
ReadReplicasAlways(d, w) ==
  /\ call[d] = "scaling"
  /\ work[d][w] = "read"
  /\ originals' = [originals EXCEPT ![d][w] = replicas[w]]
  /\ target' = [target EXCEPT ![d][w] = Resolve(fault[d], replicas[w])]
  /\ Moves(d, w, IF target'[d][w] = replicas[w] THEN "done" ELSE "get")
  /\ UNCHANGED <<replicas, initial, call, fault, current, pending>>

\* applyScale: GetReplicas, record the original unless one is recorded,
\* resolve the target.
ReadReplicas(d, w) ==
  /\ call[d] = "scaling"
  /\ work[d][w] = "read"
  /\ originals' = [originals EXCEPT ![d][w] = IF @ = NoCount THEN replicas[w] ELSE @]
  /\ target' = [target EXCEPT ![d][w] = Resolve(fault[d], replicas[w])]
  /\ Moves(d, w, IF target'[d][w] = replicas[w] THEN "done" ELSE "get")
  /\ UNCHANGED <<replicas, initial, call, fault, current, pending>>

\* Scale: Get.
GetWorkload(d, w) ==
  /\ work[d][w] = "get"
  /\ Moves(d, w, "put")
  /\ current' = [current EXCEPT ![d][w] = "fresh"]
  /\ UNCHANGED <<replicas, initial, originals, call, fault, target, pending>>

\* The cluster takes the Update: every other copy of the object is stale.
Update(d, w) ==
  /\ current[d][w] = "fresh"
  /\ replicas' = [replicas EXCEPT ![w] = IF target[d][w] < 0 THEN 0 ELSE target[d][w]]
  /\ current' = [e \in Disruptor |-> [current[e] EXCEPT ![w] = "stale"]]

\* Mutant of Restored: the entry is deleted though the workload was not.
RestoredAlways(d, w) == originals' = [originals EXCEPT ![d][w] = NoCount]

\* revertAll deletes the entry of a workload it has restored.
Restored(d, w) ==
  originals' = [originals EXCEPT ![d][w] =
                  IF call[d] = "reverting" /\ work'[d][w] = "done" THEN NoCount ELSE @]

\* Scale: Update, which may conflict, fail, or succeed without its response.
PutWorkload(d, w) ==
  /\ work[d][w] = "put"
  /\ \/ Update(d, w) /\ Moves(d, w, "done")
     \/ Update(d, w) /\ Moves(d, w, "failed")
     \/ Moves(d, w, "failed") /\ UNCHANGED <<replicas, current>>
  /\ Restored(d, w)
  /\ UNCHANGED <<initial, call, fault, target, pending>>

\* GetReplicas, or the Get of Scale, fails.
CallFails(d, w) ==
  /\ work[d][w] \in {"read", "get"}
  /\ Moves(d, w, "failed")
  /\ UNCHANGED <<replicas, initial, originals, call, fault, target, current, pending>>

\* All goroutines have reported.  One error is enough to return at once;
\* otherwise the call returns, or holds the fault for its duration.
EndScale(d) ==
  /\ call[d] = "scaling"
  /\ \A w \in Workload : work[d][w] \in {"done", "failed"}
  /\ call' = [call EXCEPT ![d] =
                IF (\E w \in Workload : work[d][w] = "failed") \/ fault[d].autoRevert = "no"
                THEN "idle" ELSE "holding"]
  /\ UNCHANGED <<replicas, initial, originals, fault, work, target, current, pending>>

-----------------------------------------------------------------------------
\* revertAll, after the duration (or the end of the context) and in Cleanup:
\* the entries to restore are copied.
BeginRevert(d) ==
  /\ call[d] \in {"holding", "idle"}
  /\ call' = [call EXCEPT ![d] = "reverting"]
  /\ pending' = [pending EXCEPT ![d] = Recorded(d)]
  /\ work' = [work EXCEPT ![d] = [w \in Workload |-> "idle"]]
  /\ UNCHANGED <<replicas, initial, originals, fault, target, current>>

\* The next iteration of the loop over the copied entries.
RevertNext(d, w) ==
  /\ call[d] = "reverting"
  /\ \A u \in Workload : work[d][u] \in {"idle", "done", "failed"}
  /\ w \in pending[d]
  /\ pending' = [pending EXCEPT ![d] = @ \ {w}]
  /\ target' = [target EXCEPT ![d][w] = originals[d][w]]
  /\ Moves(d, w, "get")
  /\ UNCHANGED <<replicas, initial, originals, call, fault, current>>

EndRevert(d) ==
  /\ call[d] = "reverting"
  /\ pending[d] = {}
  /\ \A u \in Workload : work[d][u] \in {"idle", "done", "failed"}
  /\ call' = [call EXCEPT ![d] = "idle"]
  /\ UNCHANGED <<replicas, initial, originals, fault, work, target, current, pending>>

-----------------------------------------------------------------------------
Next ==
  \E d \in Disruptor :
    \/ BeginScale(d) \/ EndScale(d) \/ BeginRevert(d) \/ EndRevert(d)
    \/ \E w \in Workload :
         \/ ReadReplicas(d, w) \/ GetWorkload(d, w) \/ PutWorkload(d, w)
         \/ CallFails(d, w) \/ RevertNext(d, w)

Spec == Init /\ [][Next]_vars

-----------------------------------------------------------------------------
\* "calling cleanup() later restores those originals" (README): whatever
\* calls fail, conflict or lose their response, a workload that one disruptor
\* changed still has its true original recorded there.
NothingForgotten ==
  \A d \in Disruptor, w \in Workload :
    Disruptor = {d} => replicas[w] = initial[w] \/ originals[d][w] = initial[w]

\* "a later Cleanup() restores it": a revert in which no call failed ends
\* with every workload as it was.
CleanupRestores ==
  \A d \in Disruptor :
    /\ Disruptor = {d}
    /\ call[d] = "reverting"
    /\ pending[d] = {}
    /\ \A w \in Workload : work[d][w] \in {"idle", "done"}
    => replicas = initial

\* "blocks for duration, then restores each workload to its original replica
\* count before returning" (README, autoRevert): a call with autoRevert that
\* has returned left no workload to restore, unless restoring it failed.
AutoRevertRestores ==
  \A d \in Disruptor :
    call[d] = "idle" /\ fault[d].autoRevert = "yes" =>
      \A w \in Workload : originals[d][w] = NoCount \/ work[d][w] = "failed"

-----------------------------------------------------------------------------
\* What revertAll has yet to restore is recorded and not under way.
PendingRecorded ==
  \A d \in Disruptor : \A w \in pending[d] :
    call[d] = "reverting" /\ work[d][w] = "idle" /\ originals[d][w] \in Nat

\* Inductive strengthening for a single disruptor: an original is recorded
\* before the first write of a workload, is the true one, and is deleted only
\* with the write that restores it.
Sole(d, w) ==
  /\ originals[d][w] \in {NoCount, initial[w]}
  /\ originals[d][w] = NoCount => replicas[w] = initial[w]
  /\ work[d][w] = "read" => call[d] = "scaling"
  /\ work[d][w] \in {"get", "put"} =>
       /\ call[d] \in {"scaling", "reverting"}
       /\ originals[d][w] = initial[w]
       /\ call[d] = "reverting" => target[d][w] = initial[w]
  /\ call[d] = "reverting" /\ w \notin pending[d] /\ work[d][w] \in {"idle", "done"}
       => originals[d][w] = NoCount

SoleInv == \A d \in Disruptor, w \in Workload : Disruptor = {d} => Sole(d, w)

IInv == TypeOK /\ PendingRecorded /\ SoleInv
=============================================================================
