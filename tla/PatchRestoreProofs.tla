------------------------- MODULE PatchRestoreProofs -------------------------
(***************************************************************************)
(* PatchRestore!IInv is inductive for every number of overlapping calls,   *)
(* both kinds of object and any number of edits and failed requests.       *)
(***************************************************************************)
EXTENDS PatchRestore, TLAPS

LEMMA InitIInv == Init => IInv
<1> SUFFICES ASSUME Init PROVE IInv
  OBVIOUS
<1>1. TypeOK
  BY PatchAssumption DEF Init, TypeOK, Pc, Returned
<1>2. Snapshots
  BY PatchAssumption DEF Init, Snapshots
<1>3. FaultExplained
  BY DEF Init, FaultExplained
<1> QED
  BY <1>1, <1>2, <1>3 DEF IInv

\* An Update puts a snapshot, with or without the fault of its call, in the
\* object, under a new version.
LEMMA WriteType ==
  ASSUME TypeOK, NEW c \in Call, NEW fs \in SUBSET Call, Write(c, fs)
  PROVE  /\ faultsIn' \subseteq Call
         /\ edits' \in Nat
         /\ version' \in Nat
         /\ \A d \in Call : rv[d] # NoVersion => rv[d] <= version' /\ rv[d] # version'
  BY DEF TypeOK, Write

\* The types.
LEMMA StepTypeOK == TypeOK /\ [Next]_vars => TypeOK'
<1> SUFFICES ASSUME TypeOK, [Next]_vars PROVE TypeOK'
  OBVIOUS
<1> USE PatchAssumption DEF TypeOK, Pc, Returned, Goto
<1>1. ASSUME NEW c \in Call, GetObject(c) PROVE TypeOK'
  BY <1>1 DEF GetObject
<1>2. ASSUME NEW c \in Call, GetFails(c) PROVE TypeOK'
  BY <1>2 DEF GetFails
<1>3. ASSUME NEW c \in Call, Patch(c) PROVE TypeOK'
  <2>1. Write(c, snapFaults[c] \cup {c})
    BY <1>3 DEF Patch
  <2> QED
    BY <1>3, <2>1, WriteType DEF Patch
<1>4. ASSUME NEW c \in Call, PatchFails(c) PROVE TypeOK'
  <2>1. failures' \in 0..MaxFaults
    BY <1>4 DEF PatchFails, RequestFails, Fault
  <2>2. CASE UNCHANGED <<faultsIn, edits, version>>
    BY <1>4, <2>1, <2>2 DEF PatchFails
  <2>3. CASE Write(c, snapFaults[c] \cup {c})
    BY <1>4, <2>1, <2>3, WriteType DEF PatchFails
  <2> QED
    BY <1>4, <2>2, <2>3 DEF PatchFails
<1>5. ASSUME NEW c \in Call, WaitTimer(c) \/ WaitContext(c) PROVE TypeOK'
  BY <1>5 DEF WaitTimer, WaitContext
<1>6. ASSUME NEW c \in Call, Refresh(c) PROVE TypeOK'
  <2>1. failures' \in 0..MaxFaults
    BY <1>6 DEF Refresh, RequestFails, Fault
  <2>2. PICK n \in {version, rv[c], NoVersion} : rv' = [rv EXCEPT ![c] = n]
    BY <1>6 DEF Refresh, StaleVersion
  <2> QED
    BY <1>6, <2>1, <2>2 DEF Refresh
<1>7. ASSUME NEW c \in Call, Restore(c) PROVE TypeOK'
  <2>1. Write(c, snapFaults[c])
    BY <1>7 DEF Restore
  <2> QED
    BY <1>7, <2>1, WriteType DEF Restore
<1>8. ASSUME NEW c \in Call, RestoreFails(c) PROVE TypeOK'
  <2>1. failures' \in 0..MaxFaults
    BY <1>8 DEF RestoreFails, Fault
  <2>2. CASE UNCHANGED <<faultsIn, edits, version>>
    BY <1>8, <2>1, <2>2 DEF RestoreFails
  <2>3. CASE Write(c, snapFaults[c])
    BY <1>8, <2>1, <2>3, WriteType DEF RestoreFails
  <2> QED
    BY <1>8, <2>2, <2>3 DEF RestoreFails
<1>9. ASSUME NEW c \in Call, Cancel(c) PROVE TypeOK'
  BY <1>9 DEF Cancel
<1>10. CASE Edit
  BY <1>10 DEF Edit
<1>11. CASE UNCHANGED vars
  BY <1>11 DEF vars
<1> QED
  BY <1>1, <1>2, <1>3, <1>4, <1>5, <1>6, <1>7, <1>8, <1>9, <1>10, <1>11 DEF Next, Prompt

\* What the calls know and what is in the object.
LEMMA StepSnapshots ==
  IInv /\ [Next]_vars => Snapshots' /\ FaultExplained'
<1> SUFFICES ASSUME IInv, [Next]_vars PROVE Snapshots' /\ FaultExplained'
  OBVIOUS
<1>0. TypeOK /\ Snapshots /\ FaultExplained
  BY DEF IInv
<1> USE PatchAssumption, <1>0 DEF TypeOK, Snapshots, FaultExplained, Goto
<1>1. ASSUME NEW c \in Call, GetObject(c) PROVE Snapshots' /\ FaultExplained'
  <2>1. Snapshots'
    BY <1>1 DEF GetObject
  <2>2. FaultExplained'
    BY <1>1 DEF GetObject
  <2> QED
    BY <2>1, <2>2
<1>2. ASSUME NEW c \in Call, GetFails(c) PROVE Snapshots' /\ FaultExplained'
  BY <1>2 DEF GetFails
<1>3. ASSUME NEW c \in Call, Patch(c) PROVE Snapshots' /\ FaultExplained'
  <2>1. Write(c, snapFaults[c] \cup {c})
    BY <1>3 DEF Patch
  <2>2. \A d \in Call : rv[d] # NoVersion => rv[d] # version'
    BY <2>1, WriteType
  <2>3. faultsIn' = faultsIn \cup {c}
    BY <1>3, <2>1 DEF Patch, Write, Current
  <2>4. Snapshots'
    BY <1>3, <2>2, <2>3 DEF Patch
  <2>5. FaultExplained'
    BY <1>3, <2>3 DEF Patch
  <2> QED
    BY <2>4, <2>5
<1>4. ASSUME NEW c \in Call, PatchFails(c) PROVE Snapshots' /\ FaultExplained'
  <2>2. CASE UNCHANGED <<faultsIn, edits, version>>
    BY <1>4, <2>2 DEF PatchFails
  <2>3. CASE Write(c, snapFaults[c] \cup {c})
    <3>1. \A d \in Call : rv[d] # NoVersion => rv[d] # version'
      BY <2>3, WriteType
    <3>2. faultsIn' = faultsIn \cup {c}
      BY <1>4, <2>3 DEF PatchFails, Write, Current
    <3>3. Snapshots'
      BY <1>4, <3>1, <3>2 DEF PatchFails
    <3>4. FaultExplained'
      BY <1>4, <3>2 DEF PatchFails
    <3> QED
      BY <3>3, <3>4
  <2> QED
    BY <1>4, <2>2, <2>3 DEF PatchFails
<1>5. ASSUME NEW c \in Call, WaitTimer(c) \/ WaitContext(c)
      PROVE  Snapshots' /\ FaultExplained'
  BY <1>5 DEF WaitTimer, WaitContext
<1>6. ASSUME NEW c \in Call, Refresh(c) PROVE Snapshots' /\ FaultExplained'
  <2>1. PICK n : rv' = [rv EXCEPT ![c] = n]
    BY <1>6 DEF Refresh
  <2> QED
    BY <1>6, <2>1 DEF Refresh
<1>7. ASSUME NEW c \in Call, NEW end \in {"nil", "restoreError"},
             pc[c] = "restore", Goto(c, end), Write(c, snapFaults[c]),
             UNCHANGED <<ctx, snapFaults, snapEdits, rv>>
      PROVE  Snapshots' /\ FaultExplained'
  <2>1. \A d \in Call : rv[d] # NoVersion => rv[d] # version'
    BY <1>7, WriteType
  <2>2. faultsIn' = snapFaults[c]
    BY <1>7 DEF Write
  <2>3. Snapshots'
    BY <1>7, <2>1, <2>2
  <2>4. FaultExplained'
    BY <1>7, <2>2
  <2> QED
    BY <2>3, <2>4
<1>8. ASSUME NEW c \in Call, Restore(c) PROVE Snapshots' /\ FaultExplained'
  BY <1>7, <1>8 DEF Restore
<1>9. ASSUME NEW c \in Call, RestoreFails(c) PROVE Snapshots' /\ FaultExplained'
  <2>1. CASE UNCHANGED <<faultsIn, edits, version>>
    BY <1>9, <2>1 DEF RestoreFails
  <2>2. CASE Write(c, snapFaults[c])
    BY <1>7, <1>9, <2>2 DEF RestoreFails
  <2> QED
    BY <1>9, <2>1, <2>2 DEF RestoreFails
<1>10. ASSUME NEW c \in Call, Cancel(c) PROVE Snapshots' /\ FaultExplained'
  BY <1>10 DEF Cancel
<1>11. CASE Edit
  BY <1>11 DEF Edit
<1>12. CASE UNCHANGED vars
  BY <1>12 DEF vars
<1> QED
  BY <1>1, <1>2, <1>3, <1>4, <1>5, <1>6, <1>8, <1>9, <1>10, <1>11, <1>12 DEF Next, Prompt

\* The inductive invariant.
THEOREM Invariant == Spec => []IInv
<1>1. IInv /\ [Next]_vars => IInv'
  BY StepTypeOK, StepSnapshots DEF IInv
<1> QED
  BY InitIInv, <1>1, PTL DEF Spec

\* The types; no call holds a resourceVersion the object never had.
THEOREM TypeCorrect == Spec => []TypeOK
<1>1. IInv => TypeOK
  BY DEF IInv
<1> QED
  BY <1>1, Invariant, PTL

\* A fault outlives its call only after an error or in the snapshot of an
\* overlapping call.
THEOREM ExplainedTheorem == Spec => []FaultExplained
<1>1. IInv => FaultExplained
  BY DEF IInv
<1> QED
  BY <1>1, Invariant, PTL

\* The patching Update never overwrites the change of somebody else.
THEOREM EditsTheorem == Spec => PatchKeepsEdits
<1>1. IInv /\ [Next]_vars =>
        [\A c \in Call : pc[c] = "update" /\ pc'[c] # "update" => edits' = edits]_vars
  <2> SUFFICES ASSUME IInv, Next, NEW c \in Call, pc[c] = "update", pc'[c] # "update"
               PROVE  edits' = edits
    OBVIOUS
  <2>0. TypeOK /\ Snapshots
    BY DEF IInv
  <2>1. \A d \in Call : \A label : d # c /\ Goto(d, label) => pc'[c] = pc[c]
    BY <2>0 DEF TypeOK, Goto
  <2>2. Patch(c) \/ PatchFails(c)
    BY <2>1 DEF Next, Prompt, GetObject, GetFails, Patch, PatchFails, WaitTimer,
                WaitContext, Refresh, Restore, RestoreFails, Cancel, Edit
  <2>3. Write(c, snapFaults[c] \cup {c}) \/ UNCHANGED edits
    BY <2>2 DEF Patch, PatchFails
  <2> QED
    BY <2>0, <2>3 DEF Write, Current, Snapshots
<1> QED
  BY <1>1, Invariant, PTL DEF Spec, PatchKeepsEdits
=============================================================================
