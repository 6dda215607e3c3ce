--------------------------- MODULE PodVisitProofs ---------------------------
(***************************************************************************)
(* Proofs about PodVisit for any number of users and targets.              *)
(***************************************************************************)
EXTENDS PodVisit, TLAPS

\* Targets are pods.
LEMMA TargetsArePods == \A v \in VU : Targets[v] \subseteq Pod
BY VisitAssumption

\* Initially nothing is reported.
LEMMA InitIInv == Init => IInv
<1> SUFFICES ASSUME Init PROVE IInv
  OBVIOUS
<1>1. TypeOK
  BY DEF Init, TypeOK, Visitor, Process
<1>2. SilenceExplained
  BY TargetsArePods DEF Init, SilenceExplained, ReportedNil
<1>3. CleanupsExplained /\ AloneUndisturbed
  BY DEF Init, CleanupsExplained, AloneUndisturbed
<1> QED
  BY <1>1, <1>2, <1>3 DEF IInv

\* No step of a controller, a visitor or an agent leaves the types.
LEMMA StepTypeOK == TypeOK /\ [Next]_vars => TypeOK'
<1> SUFFICES ASSUME TypeOK, [Next]_vars PROVE TypeOK'
  OBVIOUS
<1> USE DEF TypeOK, Visitor, Process, Moves, ExecFails
<1>1. CASE UNCHANGED vars
  BY <1>1 DEF vars
<1>2. ASSUME NEW v \in VU, BeginVisit(v) PROVE TypeOK'
  BY <1>2 DEF BeginVisit
<1>3. ASSUME NEW v \in VU, ReceiveCancel(v) PROVE TypeOK'
  BY <1>3 DEF ReceiveCancel
<1>4. ASSUME NEW v \in VU, CancelCall(v) PROVE TypeOK'
  BY <1>4 DEF CancelCall
<1>5. ASSUME NEW v \in VU, NEW p \in Pod, ReceiveDone(v, p) PROVE TypeOK'
  BY <1>5 DEF ReceiveDone
<1>6. ASSUME NEW v \in VU, NEW p \in Pod, GetPod(v, p) PROVE TypeOK'
  <2>1. PICK x \in {"err", "patch", "exec"} : Moves(v, p, x)
    BY <1>6 DEF GetPod
  <2>2. UNCHANGED <<visit, ctx, why, container, agent>>
    BY <1>6 DEF GetPod
  <2> QED
    BY <2>1, <2>2
<1>7. ASSUME NEW v \in VU, NEW p \in Pod, PatchPod(v, p) PROVE TypeOK'
  <2>1. PICK x \in {"err", "wait"} : Moves(v, p, x)
    BY <1>7 DEF PatchPod
  <2>2. UNCHANGED <<visit, ctx, why, agent>>
    BY <1>7 DEF PatchPod
  <2>3. container' \in [Pod -> {"absent", "starting", "running"}]
    BY <1>7 DEF PatchPod
  <2> QED
    BY <2>1, <2>2, <2>3
<1>8. ASSUME NEW v \in VU, NEW p \in Pod, WaitContainer(v, p) PROVE TypeOK'
  <2>1. PICK x \in {"err", "exec"} : Moves(v, p, x)
    BY <1>8 DEF WaitContainer
  <2>2. UNCHANGED <<visit, ctx, why, container, agent>>
    BY <1>8 DEF WaitContainer
  <2> QED
    BY <2>1, <2>2
<1>9. ASSUME NEW v \in VU, NEW p \in Pod, CommandFails(v, p) PROVE TypeOK'
  BY <1>9 DEF CommandFails
<1>10. ASSUME NEW v \in VU, NEW p \in Pod, ExecCommand(v, p) PROVE TypeOK'
  <2>1. UNCHANGED <<visit, ctx, container>>
    BY <1>10 DEF ExecCommand
  <2>2. CASE VisitDone(v) /\ ExecFails(v, p, "canceled") /\ UNCHANGED agent
    BY <2>1, <2>2
  <2>3. CASE ExecFails(v, p, "failed") /\ UNCHANGED agent
    BY <2>1, <2>3
  <2>4. CASE /\ agent' = [agent EXCEPT ![v][p] = "starting"]
             /\ Moves(v, p, "stream")
             /\ UNCHANGED why
    BY <2>1, <2>4
  <2> QED
    BY <1>10, <2>2, <2>3, <2>4 DEF ExecCommand
<1>11. ASSUME NEW v \in VU, NEW p \in Pod, StreamEnds(v, p) PROVE TypeOK'
  <2>1. UNCHANGED <<visit, ctx, container, agent>>
    BY <1>11 DEF StreamEnds
  <2>2. CASE agent[v][p] = "applied" /\ Moves(v, p, "ok") /\ UNCHANGED why
    BY <2>1, <2>2
  <2>3. CASE ExecFails(v, p, "failed")
    BY <2>1, <2>3
  <2>4. CASE VisitDone(v) /\ ExecFails(v, p, "canceled")
    BY <2>1, <2>4
  <2> QED
    BY <1>11, <2>2, <2>3, <2>4 DEF StreamEnds
<1>12. ASSUME NEW v \in VU, NEW p \in Pod, CleanUp(v, p) PROVE TypeOK'
  BY <1>12 DEF CleanUp, SignalHolder, Reported
<1>13. ASSUME NEW v \in VU, NEW p \in Pod, AgentStarts(v, p) PROVE TypeOK'
  BY <1>13 DEF AgentStarts
<1>14. ASSUME NEW v \in VU, NEW p \in Pod, AgentEnds(v, p) PROVE TypeOK'
  BY <1>14 DEF AgentEnds
<1>15. ASSUME NEW v \in VU, NEW p \in Pod, AgentStops(v, p) PROVE TypeOK'
  BY <1>15 DEF AgentStops
<1>16. ASSUME NEW p \in Pod, ContainerStarts(p) PROVE TypeOK'
  BY <1>16 DEF ContainerStarts
<1> QED
  BY <1>1, <1>2, <1>3, <1>4, <1>5, <1>6, <1>7, <1>8, <1>9,
     <1>10, <1>11, <1>12, <1>13, <1>14, <1>15, <1>16
     DEF Next, VisitorStep

\* No step lets a visitor stay silent about a fault it did not apply.
LEMMA StepSilence == IInv /\ [Next]_vars => SilenceExplained'
<1> SUFFICES ASSUME IInv, [Next]_vars PROVE SilenceExplained'
  OBVIOUS
<1> USE TargetsArePods DEF IInv, TypeOK, Visitor, Process, SilenceExplained, ReportedNil, Moves,
            ExecFails, VisitDone
<1>1. CASE UNCHANGED vars
  BY <1>1 DEF vars
<1>2. ASSUME NEW v \in VU, BeginVisit(v) PROVE SilenceExplained'
  BY <1>2 DEF BeginVisit
<1>3. ASSUME NEW v \in VU, ReceiveCancel(v) PROVE SilenceExplained'
  BY <1>3 DEF ReceiveCancel
<1>4. ASSUME NEW v \in VU, CancelCall(v) PROVE SilenceExplained'
  BY <1>4 DEF CancelCall
<1>5. ASSUME NEW v \in VU, NEW p \in Pod, ReceiveDone(v, p) PROVE SilenceExplained'
  BY <1>5 DEF ReceiveDone
<1>6. ASSUME NEW v \in VU, NEW p \in Pod, GetPod(v, p) PROVE SilenceExplained'
  <2>1. PICK x \in {"err", "patch", "exec"} : Moves(v, p, x)
    BY <1>6 DEF GetPod
  <2>2. visitor[v][p] = "get" /\ UNCHANGED <<visit, ctx, why, container, agent>>
    BY <1>6 DEF GetPod
  <2> QED
    BY <2>1, <2>2
<1>7. ASSUME NEW v \in VU, NEW p \in Pod, PatchPod(v, p) PROVE SilenceExplained'
  <2>1. PICK x \in {"err", "wait"} : Moves(v, p, x)
    BY <1>7 DEF PatchPod
  <2>2. visitor[v][p] = "patch" /\ UNCHANGED <<visit, ctx, why, agent>>
    BY <1>7 DEF PatchPod
  <2> QED
    BY <2>1, <2>2
<1>8. ASSUME NEW v \in VU, NEW p \in Pod, WaitContainer(v, p) PROVE SilenceExplained'
  <2>1. PICK x \in {"err", "exec"} : Moves(v, p, x)
    BY <1>8 DEF WaitContainer
  <2>2. visitor[v][p] = "wait" /\ UNCHANGED <<visit, ctx, why, container, agent>>
    BY <1>8 DEF WaitContainer
  <2> QED
    BY <2>1, <2>2
<1>9. ASSUME NEW v \in VU, NEW p \in Pod, CommandFails(v, p) PROVE SilenceExplained'
  BY <1>9 DEF CommandFails
<1>10. ASSUME NEW v \in VU, NEW p \in Pod, ExecCommand(v, p) PROVE SilenceExplained'
  <2>1. visitor[v][p] = "exec" /\ UNCHANGED <<visit, ctx, container>>
    BY <1>10 DEF ExecCommand
  <2>2. CASE VisitDone(v) /\ ExecFails(v, p, "canceled") /\ UNCHANGED agent
    BY <2>1, <2>2
  <2>3. CASE ExecFails(v, p, "failed") /\ UNCHANGED agent
    BY <2>1, <2>3
  <2>4. CASE /\ agent' = [agent EXCEPT ![v][p] = "starting"]
             /\ Moves(v, p, "stream")
             /\ UNCHANGED why
    BY <2>1, <2>4
  <2> QED
    BY <1>10, <2>2, <2>3, <2>4 DEF ExecCommand
<1>11. ASSUME NEW v \in VU, NEW p \in Pod, StreamEnds(v, p) PROVE SilenceExplained'
  <2>1. visitor[v][p] = "stream" /\ UNCHANGED <<visit, ctx, container, agent>>
    BY <1>11 DEF StreamEnds
  <2>2. CASE agent[v][p] = "applied" /\ Moves(v, p, "ok") /\ UNCHANGED why
    BY <2>1, <2>2
  <2>3. CASE ExecFails(v, p, "failed")
    BY <2>1, <2>3
  <2>4. CASE VisitDone(v) /\ ExecFails(v, p, "canceled")
    BY <2>1, <2>4
  <2> QED
    BY <1>11, <2>2, <2>3, <2>4 DEF StreamEnds
<1>12. ASSUME NEW v \in VU, NEW p \in Pod, CleanUp(v, p) PROVE SilenceExplained'
  BY <1>12 DEF CleanUp, SignalHolder, Reported
<1>13. ASSUME NEW v \in VU, NEW p \in Pod, AgentStarts(v, p) PROVE SilenceExplained'
  BY <1>13 DEF AgentStarts
<1>14. ASSUME NEW v \in VU, NEW p \in Pod, AgentEnds(v, p) PROVE SilenceExplained'
  BY <1>14 DEF AgentEnds
<1>15. ASSUME NEW v \in VU, NEW p \in Pod, AgentStops(v, p) PROVE SilenceExplained'
  BY <1>15 DEF AgentStops
<1>16. ASSUME NEW p \in Pod, ContainerStarts(p) PROVE SilenceExplained'
  BY <1>16 DEF ContainerStarts
<1> QED
  BY <1>1, <1>2, <1>3, <1>4, <1>5, <1>6, <1>7, <1>8, <1>9,
     <1>10, <1>11, <1>12, <1>13, <1>14, <1>15, <1>16
     DEF Next, VisitorStep

\* No step makes a cleanup command hit an agent that is followed, unless the
\* visitor that runs the command is another user's.
LEMMA StepAlone == IInv /\ [Next]_vars => (CleanupsExplained /\ AloneUndisturbed)'
<1> DEFINE Alone == CleanupsExplained /\ AloneUndisturbed
<1> SUFFICES ASSUME IInv, [Next]_vars PROVE Alone'
  OBVIOUS
<1> USE DEF IInv, TypeOK, Visitor, Process, CleanupsExplained, AloneUndisturbed, Moves,
            ExecFails
<1>1. CASE UNCHANGED vars
  BY <1>1 DEF vars
<1>2. ASSUME NEW v \in VU, BeginVisit(v) PROVE Alone'
  <2>1. CleanupsExplained'
    BY <1>2 DEF BeginVisit
  <2>2. visit[v] = "idle" /\ UNCHANGED <<why, agent>>
    BY <1>2 DEF BeginVisit
  <2>3. \A w \in VU, q \in Pod :
          \/ visitor'[w][q] = visitor[w][q]
          \/ w = v /\ visitor[v][q] = "none" /\ visitor'[v][q] \in {"get", "none"}
    BY <1>2 DEF BeginVisit
  <2>4. AloneUndisturbed'
    <3> SUFFICES ASSUME NEW w \in VU, NEW q \in Pod,
                        agent'[w][q] = "signalled", visitor'[w][q] = "stream"
                 PROVE  \E u \in VU \ {w} : /\ visitor'[u][q] \in {"ok", "err", "taken"}
                                            /\ why'[u][q] # "none"
      OBVIOUS
    <3>1. agent[w][q] = "signalled" /\ visitor[w][q] = "stream"
      <4>1. \/ visitor'[w][q] = visitor[w][q]
            \/ w = v /\ visitor[v][q] = "none" /\ visitor'[v][q] \in {"get", "none"}
        BY <2>3
      <4>2. visitor'[w][q] \notin {"get", "none"}
        OBVIOUS
      <4>3. visitor'[w][q] = visitor[w][q]
        BY <4>1, <4>2
      <4> QED
        BY <2>2, <4>3
    <3>2. PICK u \in VU \ {w} : /\ visitor[u][q] \in {"ok", "err", "taken"}
                                /\ why[u][q] # "none"
      BY <3>1
    <3>3. visitor'[u][q] = visitor[u][q]
      BY <2>3, <3>2
    <3>4. why'[u][q] = why[u][q]
      BY <2>2
    <3> QED
      BY <3>2, <3>3, <3>4
  <2> QED
    BY <2>1, <2>4
<1>3. ASSUME NEW v \in VU, ReceiveCancel(v) PROVE Alone'
  BY <1>3 DEF ReceiveCancel
<1>4. ASSUME NEW v \in VU, CancelCall(v) PROVE Alone'
  BY <1>4 DEF CancelCall
<1>5. ASSUME NEW v \in VU, NEW p \in Pod, ReceiveDone(v, p) PROVE Alone'
  BY <1>5 DEF ReceiveDone
<1>6. ASSUME NEW v \in VU, NEW p \in Pod, GetPod(v, p) PROVE Alone'
  <2>1. PICK x \in {"err", "patch", "exec"} : Moves(v, p, x)
    BY <1>6 DEF GetPod
  <2>2. visitor[v][p] = "get" /\ UNCHANGED <<visit, ctx, why, container, agent>>
    BY <1>6 DEF GetPod
  <2>3. CleanupsExplained'
    BY <2>1, <2>2
  <2>4. AloneUndisturbed'
    BY <2>1, <2>2
  <2> QED
    BY <2>3, <2>4
<1>7. ASSUME NEW v \in VU, NEW p \in Pod, PatchPod(v, p) PROVE Alone'
  <2>1. PICK x \in {"err", "wait"} : Moves(v, p, x)
    BY <1>7 DEF PatchPod
  <2>2. visitor[v][p] = "patch" /\ UNCHANGED <<visit, ctx, why, agent>>
    BY <1>7 DEF PatchPod
  <2>3. CleanupsExplained'
    BY <2>1, <2>2
  <2>4. AloneUndisturbed'
    BY <2>1, <2>2
  <2> QED
    BY <2>3, <2>4
<1>8. ASSUME NEW v \in VU, NEW p \in Pod, WaitContainer(v, p) PROVE Alone'
  <2>1. PICK x \in {"err", "exec"} : Moves(v, p, x)
    BY <1>8 DEF WaitContainer
  <2>2. visitor[v][p] = "wait" /\ UNCHANGED <<visit, ctx, why, container, agent>>
    BY <1>8 DEF WaitContainer
  <2> QED
    BY <2>1, <2>2
<1>9. ASSUME NEW v \in VU, NEW p \in Pod, CommandFails(v, p) PROVE Alone'
  BY <1>9 DEF CommandFails
<1>10. ASSUME NEW v \in VU, NEW p \in Pod, ExecCommand(v, p) PROVE Alone'
  <2>1. visitor[v][p] = "exec" /\ UNCHANGED <<visit, ctx, container>>
    BY <1>10 DEF ExecCommand
  <2>2. CASE VisitDone(v) /\ ExecFails(v, p, "canceled") /\ UNCHANGED agent
    BY <2>1, <2>2
  <2>3. CASE ExecFails(v, p, "failed") /\ UNCHANGED agent
    BY <2>1, <2>3
  <2>4. CASE /\ agent' = [agent EXCEPT ![v][p] = "starting"]
             /\ Moves(v, p, "stream")
             /\ UNCHANGED why
    BY <2>1, <2>4
  <2> QED
    BY <1>10, <2>2, <2>3, <2>4 DEF ExecCommand
<1>11. ASSUME NEW v \in VU, NEW p \in Pod, StreamEnds(v, p) PROVE Alone'
  <2>1. visitor[v][p] = "stream" /\ UNCHANGED <<visit, ctx, container, agent>>
    BY <1>11 DEF StreamEnds
  <2>2. CASE agent[v][p] = "applied" /\ Moves(v, p, "ok") /\ UNCHANGED why
    BY <2>1, <2>2
  <2>3. CASE ExecFails(v, p, "failed")
    BY <2>1, <2>3
  <2>4. CASE VisitDone(v) /\ ExecFails(v, p, "canceled")
    BY <2>1, <2>4
  <2> QED
    BY <1>11, <2>2, <2>3, <2>4 DEF StreamEnds
<1>12. ASSUME NEW v \in VU, NEW p \in Pod, CleanUp(v, p) PROVE Alone'
  BY <1>12 DEF CleanUp, SignalHolder, Reported
<1>13. ASSUME NEW v \in VU, NEW p \in Pod, AgentStarts(v, p) PROVE Alone'
  BY <1>13 DEF AgentStarts
<1>14. ASSUME NEW v \in VU, NEW p \in Pod, AgentEnds(v, p) PROVE Alone'
  BY <1>14 DEF AgentEnds
<1>15. ASSUME NEW v \in VU, NEW p \in Pod, AgentStops(v, p) PROVE Alone'
  BY <1>15 DEF AgentStops
<1>16. ASSUME NEW p \in Pod, ContainerStarts(p) PROVE Alone'
  BY <1>16 DEF ContainerStarts
<1> QED
  BY <1>1, <1>2, <1>3, <1>4, <1>5, <1>6, <1>7, <1>8, <1>9,
     <1>10, <1>11, <1>12, <1>13, <1>14, <1>15, <1>16
     DEF Next, VisitorStep

\* Every reachable state satisfies the inductive invariant.
THEOREM Invariant == Spec => []IInv
<1>1. IInv /\ [Next]_vars => IInv'
  BY StepTypeOK, StepSilence, StepAlone DEF IInv
<1> QED
  BY InitIInv, <1>1, PTL DEF Spec

\* The states of visits, visitors, containers and agents keep their types.
THEOREM TypeCorrect == Spec => []TypeOK
<1>1. IInv => TypeOK
  BY DEF IInv
<1> QED
  BY Invariant, <1>1, PTL

\* A visit that returns nil in a live call applied its fault in every target.
THEOREM OkTheorem == Spec => []OkMeansApplied
<1>1. IInv => OkMeansApplied
  BY DEF IInv, OkMeansApplied, SilenceExplained, ReportedNil
<1> QED
  BY Invariant, <1>1, PTL

\* A cleanup command hits an agent that is followed only from another user's
\* visitor in the same pod.
THEOREM AloneTheorem == Spec => []AloneUndisturbed
<1>1. IInv => AloneUndisturbed
  BY DEF IInv
<1> QED
  BY Invariant, <1>1, PTL
=============================================================================
