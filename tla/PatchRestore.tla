---------------------------- MODULE PatchRestore ----------------------------
(***************************************************************************)
(* The faults that change one Kubernetes object for a while: snapshot,     *)
(* patch, wait, restore.  applyPatchForDuration of pkg/disruptors/istio.go *)
(* (Kind "istio") and injectMutating, injectValidating of webhook.go (Kind *)
(* "webhook").                                                             *)
(*                                                                         *)
(* Several calls may act on the same object, and so may anybody else       *)
(* (Edit).  An Update carries the resourceVersion of a copy: the API       *)
(* server refuses it when the object has moved on.  The two kinds differ   *)
(* in the version that the restoring Update carries when the object cannot *)
(* be read again: the version of the snapshot, or none at all.             *)
(***************************************************************************)
EXTENDS Naturals

CONSTANTS
  Call,            \* calls of an Inject method, each made once
  Kind,            \* "istio" or "webhook"
  Unconditional,   \* "yes" if the API server takes an Update without a version
  NoVersion,       \* the empty resourceVersion
  MaxEdits,        \* changes of the object by others
  MaxFaults        \* requests that fail or lose their response

ASSUME PatchAssumption ==
  /\ Kind \in {"istio", "webhook"}
  /\ Unconditional \in {"yes", "no"}
  /\ NoVersion \notin Nat
  /\ MaxEdits \in Nat
  /\ MaxFaults \in Nat

VARIABLES
  faultsIn,   \* the calls whose fault is in the object
  edits,      \* the changes of others that are in the object
  version,    \* its resourceVersion
  pc,         \* [Call -> next request, or what the call returned]
  ctx,        \* [Call -> "live" or "done"]
  snapFaults, \* [Call -> faultsIn of the snapshot]
  snapEdits,  \* [Call -> edits of the snapshot]
  rv,         \* [Call -> resourceVersion of the next Update]
  failures    \* requests that failed so far

vars == <<faultsIn, edits, version, pc, ctx, snapFaults, snapEdits, rv, failures>>

\* A call returns nil, the error of Get or of the patch, or that of the
\* restoring Update.
Returned == {"nil", "patchError", "restoreError"}

Pc == {"get", "update", "wait", "refresh", "restore"} \cup Returned

TypeOK ==
  /\ faultsIn \subseteq Call
  /\ edits \in Nat
  /\ version \in Nat
  /\ pc \in [Call -> Pc]
  /\ ctx \in [Call -> {"live", "done"}]
  /\ snapFaults \in [Call -> SUBSET Call]
  /\ snapEdits \in [Call -> Nat]
  /\ rv \in [Call -> Nat \cup {NoVersion}]
  /\ \A c \in Call : rv[c] # NoVersion => rv[c] <= version
  /\ failures \in 0..MaxFaults

Init ==
  /\ faultsIn = {}
  /\ edits = 0
  /\ version = 0
  /\ pc = [c \in Call |-> "get"]
  /\ ctx = [c \in Call |-> "live"]
  /\ snapFaults = [c \in Call |-> {}]
  /\ snapEdits = [c \in Call |-> 0]
  /\ rv = [c \in Call |-> 0]
  /\ failures = 0

-----------------------------------------------------------------------------
Goto(c, label) == pc' = [pc EXCEPT ![c] = label]

Fault == failures < MaxFaults /\ failures' = failures + 1

\* A request made with the context of the call fails.
RequestFails(c) ==
  \/ ctx[c] = "done" /\ UNCHANGED failures
  \/ ctx[c] = "live" /\ Fault

\* Mutant of Current: the version is not compared.
CurrentAlways(c) == TRUE

\* The API server takes an Update of this version.
Current(c) ==
  \/ rv[c] = version
  \/ rv[c] = NoVersion /\ Unconditional = "yes"

\* The object becomes the snapshot of the call, with the faults fs.
Write(c, fs) ==
  /\ Current(c)
  /\ faultsIn' = fs
  /\ edits' = snapEdits[c]
  /\ version' = version + 1

-----------------------------------------------------------------------------
\* Get, the snapshot; the fault is validated and can be applied to it.
GetObject(c) ==
  /\ pc[c] = "get"
  /\ ctx[c] = "live"
  /\ snapFaults' = [snapFaults EXCEPT ![c] = faultsIn]
  /\ snapEdits' = [snapEdits EXCEPT ![c] = edits]
  /\ rv' = [rv EXCEPT ![c] = version]
  /\ Goto(c, "update")
  /\ UNCHANGED <<faultsIn, edits, version, ctx, failures>>

\* The fault is not valid, Get fails, or the object lacks what it changes.
GetFails(c) ==
  /\ pc[c] = "get"
  /\ Goto(c, "patchError")
  /\ UNCHANGED <<faultsIn, edits, version, ctx, snapFaults, snapEdits, rv, failures>>

\* Mutant of Patch: the call returns nil at once, nothing will be restored.
PatchOnly(c) ==
  /\ pc[c] = "update"
  /\ ctx[c] = "live"
  /\ Write(c, snapFaults[c] \cup {c})
  /\ Goto(c, "nil")
  /\ UNCHANGED <<ctx, snapFaults, snapEdits, rv, failures>>

\* Update of the patched copy.
Patch(c) ==
  /\ pc[c] = "update"
  /\ ctx[c] = "live"
  /\ Write(c, snapFaults[c] \cup {c})
  /\ Goto(c, "wait")
  /\ UNCHANGED <<ctx, snapFaults, snapEdits, rv, failures>>

\* Update of the patched copy fails: a conflict, a request that did not
\* arrive, or one whose response did not.  Nothing is restored.
PatchFails(c) ==
  /\ pc[c] = "update"
  /\ \/ ~Current(c) /\ UNCHANGED <<faultsIn, edits, version, failures>>
     \/ RequestFails(c) /\ UNCHANGED <<faultsIn, edits, version>>
     \/ RequestFails(c) /\ Write(c, snapFaults[c] \cup {c})
  /\ Goto(c, "patchError")
  /\ UNCHANGED <<ctx, snapFaults, snapEdits, rv>>

\* waitOrCancel: the duration has elapsed.
WaitTimer(c) ==
  /\ pc[c] = "wait"
  /\ Goto(c, "refresh")
  /\ UNCHANGED <<faultsIn, edits, version, ctx, snapFaults, snapEdits, rv, failures>>

\* Mutant of WaitContext: the wait is a plain sleep.
WaitContextDeaf(c) == FALSE /\ pc[c] = "wait" /\ UNCHANGED vars

\* waitOrCancel: the context is done.
WaitContext(c) ==
  /\ pc[c] = "wait"
  /\ ctx[c] = "done"
  /\ Goto(c, "refresh")
  /\ UNCHANGED <<faultsIn, edits, version, ctx, snapFaults, snapEdits, rv, failures>>

\* What the restoring Update carries when the second Get failed.
StaleVersion(c) == IF Kind = "istio" THEN rv[c] ELSE NoVersion

\* The second Get, with the context of the call: its error is ignored.
Refresh(c) ==
  /\ pc[c] = "refresh"
  /\ \/ /\ ctx[c] = "live"
        /\ rv' = [rv EXCEPT ![c] = version]
        /\ UNCHANGED failures
     \/ /\ RequestFails(c)
        /\ rv' = [rv EXCEPT ![c] = StaleVersion(c)]
  /\ Goto(c, "restore")
  /\ UNCHANGED <<faultsIn, edits, version, ctx, snapFaults, snapEdits>>

\* Update of the snapshot, with a background context.
Restore(c) ==
  /\ pc[c] = "restore"
  /\ Write(c, snapFaults[c])
  /\ Goto(c, "nil")
  /\ UNCHANGED <<ctx, snapFaults, snapEdits, rv, failures>>

RestoreFails(c) ==
  /\ pc[c] = "restore"
  /\ \/ ~Current(c) /\ UNCHANGED <<faultsIn, edits, version, failures>>
     \/ Fault /\ UNCHANGED <<faultsIn, edits, version>>
     \/ Fault /\ Write(c, snapFaults[c])
  /\ Goto(c, "restoreError")
  /\ UNCHANGED <<ctx, snapFaults, snapEdits, rv>>

-----------------------------------------------------------------------------
\* k6 ends the iteration that made the call.
Cancel(c) ==
  /\ pc[c] \notin Returned
  /\ ctx[c] = "live"
  /\ ctx' = [ctx EXCEPT ![c] = "done"]
  /\ UNCHANGED <<faultsIn, edits, version, pc, snapFaults, snapEdits, rv, failures>>

\* An operator or a controller changes the object.
Edit ==
  /\ edits < MaxEdits
  /\ edits' = edits + 1
  /\ version' = version + 1
  /\ UNCHANGED <<faultsIn, pc, ctx, snapFaults, snapEdits, rv, failures>>

-----------------------------------------------------------------------------
\* The steps of a call that do not wait for its duration.
Prompt(c) ==
  \/ GetObject(c) \/ GetFails(c) \/ Patch(c) \/ PatchFails(c) \/ WaitContext(c)
  \/ Refresh(c) \/ Restore(c) \/ RestoreFails(c)

Next ==
  \/ \E c \in Call : Prompt(c) \/ WaitTimer(c) \/ Cancel(c)
  \/ Edit

Spec == Init /\ [][Next]_vars

\* Goroutines are scheduled and requests end.  No fairness for the timer.
FairSpec == Spec /\ \A c \in Call : WF_vars(Prompt(c))

-----------------------------------------------------------------------------
\* "Cleanup is a no-op: applyPatchForDuration always restores the original
\* object before returning": no call that held its fault for a while returns
\* with the fault in the object.
AlwaysRestored == \A c \in faultsIn : pc[c] \notin {"nil", "restoreError"}

\* Why a fault can be in the object: its call has patched and not restored,
\* or failed to, or another call took its snapshot while the fault was there
\* and may put it back.  So a single call that returns nil left nothing, and
\* a lost fault is always that of overlapping calls or of an error.
FaultExplained ==
  \A c \in faultsIn :
    \/ pc[c] \in {"wait", "refresh", "restore", "patchError", "restoreError"}
    \/ \E d \in Call \ {c} : c \in snapFaults[d]

\* The optimistic lock of the patch: a change that somebody else makes
\* between the snapshot and the patch is not overwritten.
PatchKeepsEdits ==
  [][\A c \in Call : pc[c] = "update" /\ pc'[c] # "update" => edits' = edits]_vars

\* A cancelled call returns without waiting for its duration.
CancelReturns == \A c \in Call : (ctx[c] = "done") ~> (pc[c] \in Returned)

-----------------------------------------------------------------------------
\* A version stands for one content of the object; what a call has in its
\* snapshot never includes its own fault, and it has none in the object
\* before it patches.
Snapshots ==
  \A c \in Call :
    /\ c \notin snapFaults[c]
    /\ pc[c] = "update" => rv[c] # NoVersion
    /\ pc[c] = "update" /\ rv[c] = version =>
         snapFaults[c] = faultsIn /\ snapEdits[c] = edits
    /\ pc[c] \in {"get", "update"} =>
         c \notin faultsIn /\ \A d \in Call : c \notin snapFaults[d]

IInv == TypeOK /\ Snapshots /\ FaultExplained
=============================================================================
