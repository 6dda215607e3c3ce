------------------------------ MODULE NodeFault ------------------------------
(***************************************************************************)
(* NodeDisruptor (pkg/disruptors/node.go over helpers/nodes.go): a call    *)
(* runs a goroutine per node, which drains the node, taints it, or runs a  *)
(* privileged helper pod on it (the CPU, memory, I/O and kubelet faults).  *)
(*                                                                         *)
(* All requests carry the context of the call, except the deletion of the  *)
(* helper pod.  Several calls may act on the same nodes.  Two helper pods  *)
(* of one kind have the same name on a node.  A cordon is a patch and      *)
(* never conflicts; a taint is a Get and an Update, refused when the node  *)
(* was written in between, which its kubelet does all the time.            *)
(***************************************************************************)
EXTENDS Naturals

CONSTANTS
  Call,        \* calls of a method, each made once
  Node,        \* the targets of every call
  NoCall,      \* no helper pod on a node
  MaxFaults    \* requests that fail or lose their response

ASSUME NodeAssumption == NoCall \notin Call /\ MaxFaults \in Nat

VARIABLES
  op,         \* [Call -> the method: "drain", "taint" or "pod"]
  ctx,        \* [Call -> "live" or "done"]
  work,       \* [Call -> [Node -> next request of the goroutine, or its result]]
  copy,       \* [Call -> [Node -> "fresh" or "stale"]]: the node that Get returned
  cordoned,   \* nodes marked unschedulable
  tainted,    \* nodes with the taint of the fault
  pod,        \* [Node -> the call whose helper pod is on the node, or NoCall]
  phase,      \* [Node -> the phase of that pod]
  before,     \* the marks the nodes had before the calls: history
  lost,       \* [Call -> nodes whose goroutine got an error for a write]: history
  faults

vars == <<op, ctx, work, copy, cordoned, tainted, pod, phase, before, lost, faults>>

Method == {"drain", "taint", "pod"}

\* The requests a goroutine of each method goes through, and its results.
Work == [drain |-> {"start", "evict", "wait", "undo", "nil", "err"},
         taint |-> {"start", "put", "wait", "undo", "unput", "nil", "err"},
         pod   |-> {"start", "watch", "delete", "deleteErr", "nil", "err"}]

TypeOK ==
  /\ op \in [Call -> Method]
  /\ ctx \in [Call -> {"live", "done"}]
  /\ work \in [Call -> [Node -> UNION {Work[m] : m \in Method}]]
  /\ \A c \in Call, n \in Node : work[c][n] \in Work[op[c]]
  /\ copy \in [Call -> [Node -> {"fresh", "stale"}]]
  /\ cordoned \subseteq Node
  /\ tainted \subseteq Node
  /\ pod \in [Node -> Call \cup {NoCall}]
  /\ phase \in [Node -> {"running", "succeeded", "failed"}]
  /\ before \in [cordoned : SUBSET Node, tainted : SUBSET Node]
  /\ lost \in [Call -> SUBSET Node]
  /\ faults \in 0..MaxFaults

Init ==
  /\ op \in [Call -> Method]
  /\ ctx = [c \in Call |-> "live"]
  /\ work = [c \in Call |-> [n \in Node |-> "start"]]
  /\ copy = [c \in Call |-> [n \in Node |-> "stale"]]
  /\ cordoned \in SUBSET Node
  /\ tainted \in SUBSET Node
  /\ pod = [n \in Node |-> NoCall]
  /\ phase = [n \in Node |-> "running"]
  /\ before = [cordoned |-> cordoned, tainted |-> tainted]
  /\ lost = [c \in Call |-> {}]
  /\ faults = 0

-----------------------------------------------------------------------------
Moves(c, n, label) == work' = [work EXCEPT ![c][n] = label]

Fault == faults < MaxFaults /\ faults' = faults + 1

\* A request with the context of the call fails.
RequestFails(c) ==
  \/ ctx[c] = "done" /\ UNCHANGED faults
  \/ ctx[c] = "live" /\ Fault

Lose(c, n) == lost' = [lost EXCEPT ![c] = @ \cup {n}]

\* A write of the node: every copy of it is stale.
NodeWritten(n) == copy' = [c \in Call |-> [copy[c] EXCEPT ![n] = "stale"]]

\* A goroutine writes the node (Write) and goes on, or gets an error: the
\* write conflicted, did not arrive, or its response did not.
Writes(c, n, next, Write, Same, Fits) ==
  /\ \/ /\ ctx[c] = "live"
        /\ Fits
        /\ Write /\ NodeWritten(n) /\ Moves(c, n, next)
        /\ UNCHANGED <<lost, faults>>
     \/ /\ RequestFails(c)
        /\ \/ Fits /\ Write /\ NodeWritten(n)
           \/ Same /\ UNCHANGED copy
        /\ Lose(c, n) /\ Moves(c, n, "err")
     \/ /\ ~Fits
        /\ Same /\ Lose(c, n) /\ Moves(c, n, "err")
        /\ UNCHANGED <<copy, faults>>
  /\ UNCHANGED <<before, op, ctx, pod, phase>>

\* A request that writes nothing.
Reads(c, n, next) ==
  /\ \/ ctx[c] = "live" /\ Moves(c, n, next) /\ UNCHANGED faults
     \/ RequestFails(c) /\ Moves(c, n, "err")
  /\ UNCHANGED <<before, op, ctx, cordoned, tainted, pod, phase, lost>>

-----------------------------------------------------------------------------
Cordon(c, n) ==
  /\ op[c] = "drain"
  /\ work[c][n] = "start"
  /\ Writes(c, n, "evict", cordoned' = cordoned \cup {n}, UNCHANGED cordoned, TRUE)
  /\ UNCHANGED tainted

\* The helper pod of a node, if any, is deleted; its agent ends first.
PodGone(n) ==
  /\ pod' = [pod EXCEPT ![n] = NoCall]
  /\ \E end \in {"succeeded", "failed"} :
       phase' = [phase EXCEPT ![n] = IF @ = "running" THEN end ELSE @]

\* Mutant of EvictPods: the node is made schedulable before the wait.
EvictPodsUncordons(c, n) ==
  /\ work[c][n] = "evict"
  /\ cordoned' = cordoned \ {n}
  /\ \/ ctx[c] = "live" /\ Moves(c, n, "wait")
     \/ Moves(c, n, "err")
  /\ UNCHANGED <<before, op, ctx, copy, tainted, pod, phase, lost, faults>>

\* EvictPods: the pods of the node are evicted, a helper pod like any other.
\* An eviction that is refused (a disruption budget) or fails does not stop
\* the others, but the goroutine then returns the error and does no more.
EvictPods(c, n) ==
  /\ work[c][n] = "evict"
  /\ \/ ctx[c] = "live" /\ Moves(c, n, "wait") /\ PodGone(n)
     \/ Moves(c, n, "err") /\ PodGone(n)
     \/ Moves(c, n, "err") /\ UNCHANGED <<pod, phase>>
  /\ UNCHANGED <<before, op, ctx, copy, cordoned, tainted, lost, faults>>

\* Mutant of Uncordon: a cancelled drain returns without it.
UncordonSkipped(c, n) ==
  /\ op[c] = "drain"
  /\ work[c][n] = "undo"
  /\ Moves(c, n, "nil")
  /\ cordoned' = IF ctx[c] = "live" THEN cordoned \ {n} ELSE cordoned
  /\ UNCHANGED <<before, op, ctx, copy, tainted, pod, phase, lost, faults>>

Uncordon(c, n) ==
  /\ op[c] = "drain"
  /\ work[c][n] = "undo"
  /\ Writes(c, n, "nil", cordoned' = cordoned \ {n}, UNCHANGED cordoned, TRUE)
  /\ UNCHANGED tainted

\* AddTaint: Get.  A taint that is there already is left as it is.
GetTaint(c, n) ==
  /\ op[c] = "taint"
  /\ work[c][n] = "start"
  /\ Reads(c, n, IF n \in tainted THEN "wait" ELSE "put")
  /\ copy' = [copy EXCEPT ![c][n] = "fresh"]

\* AddTaint: Update.
AddTaint(c, n) ==
  /\ work[c][n] = "put"
  /\ Writes(c, n, "wait", tainted' = tainted \cup {n}, UNCHANGED tainted,
            copy[c][n] = "fresh")
  /\ UNCHANGED cordoned

\* RemoveTaint: Get.
GetUntaint(c, n) ==
  /\ op[c] = "taint"
  /\ work[c][n] = "undo"
  /\ Reads(c, n, "unput")
  /\ copy' = [copy EXCEPT ![c][n] = "fresh"]

\* RemoveTaint: Update.
RemoveTaint(c, n) ==
  /\ work[c][n] = "unput"
  /\ Writes(c, n, "nil", tainted' = tainted \ {n}, UNCHANGED tainted,
            copy[c][n] = "fresh")
  /\ UNCHANGED cordoned

\* The duration of a drain or taint has elapsed.
WaitTimer(c, n) ==
  /\ work[c][n] = "wait"
  /\ Moves(c, n, "undo")
  /\ UNCHANGED <<before, op, ctx, copy, cordoned, tainted, pod, phase, lost, faults>>

\* Mutant of WaitContext: only the timer ends the wait.
WaitContextDeaf(c, n) == FALSE /\ work[c][n] = "wait" /\ UNCHANGED vars

WaitContext(c, n) ==
  /\ work[c][n] = "wait"
  /\ ctx[c] = "done"
  /\ Moves(c, n, "undo")
  /\ UNCHANGED <<before, op, ctx, copy, cordoned, tainted, pod, phase, lost, faults>>

-----------------------------------------------------------------------------
\* Mutant of CreatePod: the deletion is deferred before the pod is created.
CreatePodDeferred(c, n) ==
  /\ op[c] = "pod"
  /\ work[c][n] = "start"
  /\ ctx[c] = "live"
  /\ pod' = [pod EXCEPT ![n] = IF @ = NoCall THEN c ELSE @]
  /\ phase' = [phase EXCEPT ![n] = IF pod[n] = NoCall THEN "running" ELSE @]
  /\ Moves(c, n, IF pod[n] = NoCall THEN "watch" ELSE "deleteErr")
  /\ UNCHANGED <<before, op, ctx, copy, cordoned, tainted, lost, faults>>

\* CreatePrivilegedPod; it fails when a pod of that name exists.
CreatePod(c, n) ==
  /\ op[c] = "pod"
  /\ work[c][n] = "start"
  /\ \/ /\ ctx[c] = "live" /\ pod[n] = NoCall
        /\ pod' = [pod EXCEPT ![n] = c]
        /\ phase' = [phase EXCEPT ![n] = "running"]
        /\ Moves(c, n, "watch")
        /\ UNCHANGED <<lost, faults>>
     \/ /\ ctx[c] = "live" /\ pod[n] # NoCall
        /\ Moves(c, n, "err")
        /\ UNCHANGED <<pod, phase, lost, faults>>
     \/ /\ RequestFails(c)
        /\ \/ /\ pod[n] = NoCall
              /\ pod' = [pod EXCEPT ![n] = c]
              /\ phase' = [phase EXCEPT ![n] = "running"]
           \/ UNCHANGED <<pod, phase>>
        /\ Lose(c, n)
        /\ Moves(c, n, "err")
  /\ UNCHANGED <<before, op, ctx, copy, cordoned, tainted>>

\* WaitPodCompleted.  A watch that ends early is an error, too.  A pod that
\* is gone was seen to end, even if another call has created one since.
WatchPod(c, n) ==
  /\ work[c][n] = "watch"
  /\ \/ pod[n] # c /\ Moves(c, n, "delete") /\ UNCHANGED faults
     \/ pod[n] # c /\ Moves(c, n, "deleteErr") /\ UNCHANGED faults
     \/ phase[n] = "succeeded" /\ Moves(c, n, "delete") /\ UNCHANGED faults
     \/ phase[n] = "failed" /\ Moves(c, n, "deleteErr") /\ UNCHANGED faults
     \/ RequestFails(c) /\ Moves(c, n, "deleteErr")
  /\ UNCHANGED <<before, op, ctx, copy, cordoned, tainted, pod, phase, lost>>

\* The deferred DeletePod, with a background context: the pod of that name
\* is deleted, and an error is ignored.
DeletePod(c, n) ==
  /\ work[c][n] \in {"delete", "deleteErr"}
  /\ \/ PodGone(n) /\ UNCHANGED <<lost, faults>>
     \/ Fault /\ Lose(c, n) /\ UNCHANGED <<pod, phase>>
  /\ Moves(c, n, IF work[c][n] = "delete" THEN "nil" ELSE "err")
  /\ UNCHANGED <<before, op, ctx, copy, cordoned, tainted>>

-----------------------------------------------------------------------------
\* The helper pod ends.
PodEnds(n) ==
  /\ pod[n] # NoCall
  /\ phase[n] = "running"
  /\ \E end \in {"succeeded", "failed"} : phase' = [phase EXCEPT ![n] = end]
  /\ UNCHANGED <<before, op, ctx, work, copy, cordoned, tainted, pod, lost, faults>>

\* The kubelet writes the status of its node.
Heartbeat(n) ==
  /\ NodeWritten(n)
  /\ UNCHANGED <<before, op, ctx, work, cordoned, tainted, pod, phase, lost, faults>>

\* k6 ends the iteration that made the call.
Cancel(c) ==
  /\ ctx[c] = "live"
  /\ \E n \in Node : work[c][n] \notin {"nil", "err"}
  /\ ctx' = [ctx EXCEPT ![c] = "done"]
  /\ UNCHANGED <<before, op, work, copy, cordoned, tainted, pod, phase, lost, faults>>

-----------------------------------------------------------------------------
\* The steps of a goroutine that wait for no duration.
Prompt(c, n) ==
  \/ Cordon(c, n) \/ EvictPods(c, n) \/ Uncordon(c, n)
  \/ GetTaint(c, n) \/ AddTaint(c, n) \/ GetUntaint(c, n) \/ RemoveTaint(c, n)
  \/ WaitContext(c, n) \/ CreatePod(c, n) \/ WatchPod(c, n) \/ DeletePod(c, n)

Next ==
  \/ \E c \in Call, n \in Node : Prompt(c, n) \/ WaitTimer(c, n)
  \/ \E n \in Node : PodEnds(n) \/ Heartbeat(n)
  \/ \E c \in Call : Cancel(c)

Spec == Init /\ [][Next]_vars

\* Goroutines are scheduled and requests end.  Nothing is assumed of a
\* duration, of a helper pod, or of cancellation.
FairSpec == Spec /\ \A c \in Call, n \in Node : WF_vars(Prompt(c, n))

-----------------------------------------------------------------------------
\* forEachNode has the results of all goroutines.
Returned(c) == \A n \in Node : work[c][n] \in {"nil", "err"}

\* Call c may have the cordon, or the taint, of node n on its account.
Marks(c, n, kind) ==
  /\ op[c] = kind
  /\ \/ work[c][n] \in {"evict", "wait", "undo", "unput"}
     \/ work[c][n] = "err"

\* What can leave a node marked: a goroutine that is not done with it, or one
\* that ended with an error.  Nothing is left behind by calls that return
\* nil, however drains and taints of the same nodes overlap.  A helper pod is
\* left by a goroutine that has ended only if creating it, or deleting it,
\* got an error ("Always clean up the helper pod, even if the context is
\* already done").
LeftoversExplained ==
  \A n \in Node :
    /\ n \in cordoned \ before.cordoned => \E c \in Call : Marks(c, n, "drain")
    /\ n \in tainted \ before.tainted => \E c \in Call : Marks(c, n, "taint")
    /\ pod[n] # NoCall /\ work[pod[n]][n] \in {"nil", "err"} => n \in lost[pod[n]]

\* A drained node takes no pods while a call holds it drained, unless another
\* drain of the node has tried to end in the meantime.
HeldWhileDrained ==
  \A c \in Call, n \in Node :
    op[c] = "drain" /\ work[c][n] \in {"evict", "wait", "undo"} /\ n \notin cordoned =>
      \E d \in Call \ {c} : op[d] = "drain" /\ (work[d][n] = "nil" \/ n \in lost[d])

\* A helper pod is deleted by the call that created it and by no other, not
\* even by a call whose own pod would have had the same name, unless a drain
\* of the node has got between the two.
OwnPodDeleted ==
  [][\A n \in Node :
       pod'[n] = NoCall /\ pod[n] # NoCall =>
         \/ work[pod[n]][n] \in {"delete", "deleteErr"} /\ work'[pod[n]][n] \in {"nil", "err"}
         \/ \E d \in Call : op[d] = "drain" /\ work[d][n] # "start"]_vars

\* A cancelled call returns, without waiting for its duration.
CancelReturns == \A c \in Call : (ctx[c] = "done") ~> Returned(c)
=============================================================================
