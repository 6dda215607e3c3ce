------------------------- MODULE WorkloadScaleProofs -------------------------
(***************************************************************************)
(* WorkloadScale!IInv is inductive, for every set of workloads, of faults  *)
(* and of replica counts; what one disruptor changed it can restore.       *)
(***************************************************************************)
EXTENDS WorkloadScale, TLAPS

\* Resolve returns a count: int32 results, negative ones clamped.
LEMMA ResolveType ==
  ASSUME NEW f \in Fault, NEW n \in Nat
  PROVE  Resolve(f, n) \in Nat
<1>1. f.kind \in {"replicas", "delta", "percentage"} /\ f.amount \in Int
  BY ScaleAssumption
<1>2. \A m \in Int : Int32(m) \in Int
  BY ScaleAssumption DEF Int32
<1>3. (n * f.amount) \div Whole \in Int
  BY <1>1, ScaleAssumption
<1>4. n + f.amount \in Int
  BY <1>1
<1>5. CASE f.kind = "replicas"
  BY <1>1, <1>5 DEF Resolve
<1>6. CASE f.kind = "delta"
  BY <1>2, <1>4, <1>6 DEF Resolve
<1>7. CASE f.kind = "percentage"
  BY <1>2, <1>3, <1>7 DEF Resolve
<1> QED
  BY <1>1, <1>5, <1>6, <1>7

LEMMA InitIInv == Init => IInv
<1> SUFFICES ASSUME Init PROVE IInv
  OBVIOUS
<1>1. TypeOK
  <2>0. Counts \subseteq Nat
    BY ScaleAssumption
  <2>1. replicas \in [Workload -> Nat]
    BY <2>0 DEF Init
  <2>2. originals \in [Disruptor -> [Workload -> Nat \cup {NoCount}]]
        /\ target \in [Disruptor -> [Workload -> Nat]]
    BY DEF Init
  <2>3. work \in [Disruptor -> [Workload -> {"idle", "read", "get", "put", "done", "failed"}]]
        /\ current \in [Disruptor -> [Workload -> {"fresh", "stale"}]]
    BY DEF Init
  <2> QED
    BY <2>1, <2>2, <2>3 DEF Init, TypeOK
<1>2. PendingRecorded
  BY DEF Init, PendingRecorded
<1>3. SoleInv
  BY DEF Init, SoleInv, Sole
<1> QED
  BY <1>1, <1>2, <1>3 DEF IInv

\* The types of the variables, and the entries revertAll copied.
LEMMA StepTypeOK == TypeOK /\ PendingRecorded /\ [Next]_vars => TypeOK' /\ PendingRecorded'
<1> SUFFICES ASSUME TypeOK, PendingRecorded, [Next]_vars
             PROVE  TypeOK' /\ PendingRecorded'
  OBVIOUS
<1> USE DEF TypeOK, PendingRecorded
<1>1. ASSUME NEW d \in Disruptor, BeginScale(d) PROVE TypeOK' /\ PendingRecorded'
  BY <1>1 DEF BeginScale
<1>2. ASSUME NEW d \in Disruptor, EndScale(d) PROVE TypeOK' /\ PendingRecorded'
  BY <1>2 DEF EndScale
<1>3. ASSUME NEW d \in Disruptor, BeginRevert(d) PROVE TypeOK' /\ PendingRecorded'
  BY <1>3 DEF BeginRevert, Recorded
<1>4. ASSUME NEW d \in Disruptor, EndRevert(d) PROVE TypeOK' /\ PendingRecorded'
  BY <1>4 DEF EndRevert
<1>5. ASSUME NEW d \in Disruptor, NEW w \in Workload, ReadReplicas(d, w)
      PROVE  TypeOK' /\ PendingRecorded'
  <2>1. Resolve(fault[d], replicas[w]) \in Nat
    BY ResolveType
  <2>2. target' \in [Disruptor -> [Workload -> Nat]]
    BY <1>5, <2>1 DEF ReadReplicas
  <2>3. originals' \in [Disruptor -> [Workload -> Nat \cup {NoCount}]]
    BY <1>5 DEF ReadReplicas
  <2>4. work' \in [Disruptor -> [Workload -> {"idle", "read", "get", "put", "done", "failed"}]]
    BY <1>5 DEF ReadReplicas, Moves
  <2>5. TypeOK'
    BY <1>5, <2>2, <2>3, <2>4 DEF ReadReplicas
  <2>6. PendingRecorded'
    BY <1>5 DEF ReadReplicas, Moves
  <2> QED
    BY <2>5, <2>6
<1>6. ASSUME NEW d \in Disruptor, NEW w \in Workload, GetWorkload(d, w)
      PROVE  TypeOK' /\ PendingRecorded'
  BY <1>6 DEF GetWorkload, Moves
<1>7. ASSUME NEW d \in Disruptor, NEW w \in Workload, PutWorkload(d, w)
      PROVE  TypeOK' /\ PendingRecorded'
  <2>1. replicas' \in [Workload -> Nat]
        /\ current' \in [Disruptor -> [Workload -> {"fresh", "stale"}]]
    <3>1. CASE Update(d, w)
      <4>1. replicas' \in [Workload -> Nat]
        BY <3>1 DEF Update
      <4>2. current' \in [Disruptor -> [Workload -> {"fresh", "stale"}]]
        BY <3>1 DEF Update
      <4> QED
        BY <4>1, <4>2
    <3>2. CASE UNCHANGED <<replicas, current>>
      BY <3>2
    <3> QED
      BY <1>7, <3>1, <3>2 DEF PutWorkload
  <2>2. PICK label \in {"done", "failed"} : Moves(d, w, label)
    BY <1>7 DEF PutWorkload
  <2>3. originals' \in [Disruptor -> [Workload -> Nat \cup {NoCount}]]
    BY <1>7 DEF PutWorkload, Restored
  <2>4. TypeOK'
    BY <1>7, <2>1, <2>2, <2>3 DEF PutWorkload, Moves
  <2>5. PendingRecorded'
    BY <1>7, <2>2 DEF PutWorkload, Restored, Moves
  <2> QED
    BY <2>4, <2>5
<1>8. ASSUME NEW d \in Disruptor, NEW w \in Workload, CallFails(d, w)
      PROVE  TypeOK' /\ PendingRecorded'
  BY <1>8 DEF CallFails, Moves
<1>9. ASSUME NEW d \in Disruptor, NEW w \in Workload, RevertNext(d, w)
      PROVE  TypeOK' /\ PendingRecorded'
  <2>1. originals[d][w] \in Nat
    BY <1>9 DEF RevertNext
  <2>2. TypeOK'
    BY <1>9, <2>1 DEF RevertNext, Moves
  <2>3. PendingRecorded'
    BY <1>9 DEF RevertNext, Moves
  <2> QED
    BY <2>2, <2>3
<1>10. CASE UNCHANGED vars
  BY <1>10 DEF vars
<1> QED
  BY <1>1, <1>2, <1>3, <1>4, <1>5, <1>6, <1>7, <1>8, <1>9, <1>10 DEF Next

\* What the only disruptor of the workloads has recorded.
LEMMA StepSole == IInv /\ [Next]_vars => SoleInv'
<1> SUFFICES ASSUME IInv, [Next]_vars, NEW d \in Disruptor, Disruptor = {d},
                    NEW w \in Workload
             PROVE  Sole(d, w)'
  BY DEF SoleInv
<1>0. Sole(d, w) /\ TypeOK /\ PendingRecorded
  BY DEF IInv, SoleInv
<1>1. initial[w] \in Nat /\ NoCount \notin Nat
  BY <1>0, ScaleAssumption DEF TypeOK
<1> USE <1>0, <1>1 DEF Sole, TypeOK, Moves
<1>2. CASE BeginScale(d)
  BY <1>2 DEF BeginScale, PendingRecorded
<1>3. CASE EndScale(d)
  BY <1>3 DEF EndScale
<1>4. CASE BeginRevert(d)
  BY <1>4 DEF BeginRevert, Recorded
<1>5. CASE EndRevert(d)
  BY <1>5 DEF EndRevert
<1>6. ASSUME NEW u \in Workload, ReadReplicas(d, u) PROVE Sole(d, w)'
  BY <1>6 DEF ReadReplicas
<1>7. ASSUME NEW u \in Workload, GetWorkload(d, u) PROVE Sole(d, w)'
  BY <1>7 DEF GetWorkload
<1>8. ASSUME NEW u \in Workload, PutWorkload(d, u) PROVE Sole(d, w)'
  <2>1. PICK label \in {"done", "failed"} : Moves(d, u, label)
    BY <1>8 DEF PutWorkload
  <2>2. CASE u # w
    <3>1. replicas'[w] = replicas[w] /\ work'[d][w] = work[d][w]
      BY <1>8, <2>1, <2>2 DEF PutWorkload, Update
    <3>2. originals'[d][w] = originals[d][w]
      BY <1>8, <2>2 DEF PutWorkload, Restored
    <3> QED
      BY <1>8, <3>1, <3>2 DEF PutWorkload
  <2>3. CASE u = w
    <3>1. replicas'[w] \in {replicas[w], target[d][w]}
      BY <1>8, <2>3 DEF PutWorkload, Update
    <3>2. work'[d][w] = label
      BY <2>1, <2>3
    <3>3. label = "done" => replicas'[w] = target[d][w]
      BY <1>8, <2>3, <3>2 DEF PutWorkload, Update
    <3>4. originals'[d][w] =
            IF call[d] = "reverting" /\ label = "done" THEN NoCount ELSE initial[w]
      BY <1>8, <2>3, <3>2 DEF PutWorkload, Restored
    <3> QED
      BY <1>8, <2>3, <3>1, <3>2, <3>3, <3>4 DEF PutWorkload
  <2> QED
    BY <2>2, <2>3
<1>9. ASSUME NEW u \in Workload, CallFails(d, u) PROVE Sole(d, w)'
  BY <1>9 DEF CallFails
<1>10. ASSUME NEW u \in Workload, RevertNext(d, u) PROVE Sole(d, w)'
  BY <1>10 DEF RevertNext, PendingRecorded
<1>11. CASE UNCHANGED vars
  BY <1>11 DEF vars
<1> QED
  BY <1>2, <1>3, <1>4, <1>5, <1>6, <1>7, <1>8, <1>9, <1>10, <1>11 DEF Next

\* The inductive invariant.
THEOREM Invariant == Spec => []IInv
<1>1. Init => IInv
  BY InitIInv
<1>2. IInv /\ [Next]_vars => IInv'
  BY StepTypeOK, StepSole DEF IInv
<1> QED
  BY <1>1, <1>2, PTL DEF Spec

\* The types: counts and recorded originals are natural numbers, however
\* Resolve wraps around.
THEOREM TypeCorrect == Spec => []TypeOK
<1>1. IInv => TypeOK
  BY DEF IInv
<1> QED
  BY <1>1, Invariant, PTL

\* What the only disruptor changed, it has recorded with the true original,
\* whatever calls of applyScale and revertAll fail.
THEOREM ForgottenTheorem == Spec => []NothingForgotten
<1>1. IInv => NothingForgotten
  BY DEF IInv, SoleInv, Sole, NothingForgotten
<1> QED
  BY <1>1, Invariant, PTL

\* A revert without failures ends with every workload as it was.
THEOREM CleanupTheorem == Spec => []CleanupRestores
<1>1. IInv => CleanupRestores
  <2> SUFFICES ASSUME IInv, NEW d \in Disruptor, Disruptor = {d},
                      call[d] = "reverting", pending[d] = {},
                      \A w \in Workload : work[d][w] \in {"idle", "done"}
               PROVE  replicas = initial
    BY DEF CleanupRestores
  <2>1. \A w \in Workload : replicas[w] = initial[w]
    BY DEF IInv, SoleInv, Sole
  <2> QED
    BY <2>1 DEF IInv, TypeOK
<1> QED
  BY <1>1, Invariant, PTL
=============================================================================
