------------------------ MODULE ProtocolAgentProofs ------------------------
(***************************************************************************)
(* Proofs about ProtocolAgent for any number of failed calls, crashes and  *)
(* concurrent requests, and about the lock file behind its Start           *)
(* (FileLock, below).                                                      *)
(***************************************************************************)
EXTENDS ProtocolAgent, FileLock, TLAPS

\* The initial states satisfy the inductive invariant.
LEMMA InitIInv == Init => IInv
BY BoundsAssumption
   DEF Init, AgentInit, IInv, TypeOK, AgentTypeOK, Step, Result, Rules, Phases,
       RulesAccounted, Installed, InPlace

\* No call of the three goroutines, crash or request leaves the types.
LEMMA StepTypeOK == TypeOK /\ [Next]_vars => TypeOK'
<1> SUFFICES ASSUME TypeOK, [Next]_vars PROVE TypeOK'
  OBVIOUS
<1> USE BoundsAssumption
    DEF TypeOK, AgentTypeOK, Step, Result, Rules, agentVars, protocolVars, Local,
        NoFault, Fault
<1>1. CASE UNCHANGED vars
  BY <1>1 DEF vars
<1>2. CASE MainOnly
  BY <1>2 DEF MainOnly, Start, SetupFails, ReceiveResult, ReceiveSignal, Drain,
              Reset, ReleaseLock, Signal
<1>3. CASE LaunchProtocol
  BY <1>3 DEF LaunchProtocol, Launch
<1>4. CASE StopProtocol
  BY <1>4 DEF StopProtocol, ExitProcess, Exit
<1>5. CASE CrashProtocol
  BY <1>5 DEF CrashProtocol, Crash, Exit
<1>6. CASE Spawn
  BY <1>6 DEF Spawn, ApplyReturns
<1>7. CASE Unreject
  BY <1>7 DEF Unreject, Removed
<1>8. CASE AddRule
  BY <1>8 DEF AddRule
<1>9. CASE WaitProxy \/ WaitContext \/ WaitTimer
  BY <1>9 DEF WaitProxy, WaitContext, WaitTimer, EndWait
<1>10. CASE RemoveRule
  BY <1>10 DEF RemoveRule, Removed
<1>11. CASE AddReject
  BY <1>11 DEF AddReject
<1>12. CASE Shutdown
  BY <1>12 DEF Shutdown
<1>13. CASE DrainProxy
  BY <1>13 DEF DrainProxy, ApplyReturns
<1>14. CASE ProxyFails
  BY <1>14 DEF ProxyFails
<1>15. CASE Response
  BY <1>15 DEF Response
<1>16. CASE \E r \in Rules : Request(r)
  BY <1>16 DEF Request, Redirected
<1> QED
  BY <1>1, <1>2, <1>3, <1>4, <1>5, <1>6, <1>7, <1>8,
     <1>9, <1>10, <1>11, <1>12, <1>13, <1>14, <1>15, <1>16 DEF Next, ApplyStep

\* The order of the goroutines' phases is kept.
LEMMA StepPhases == TypeOK /\ Phases /\ RulesAccounted /\ [Next]_vars => Phases'
<1> SUFFICES ASSUME TypeOK /\ Phases /\ RulesAccounted, [Next]_vars PROVE Phases'
  OBVIOUS
<1> USE BoundsAssumption
    DEF TypeOK, AgentTypeOK, Step, Phases, RulesAccounted, agentVars, protocolVars, Local, NoFault,
        Fault
<1>1. CASE UNCHANGED vars
  BY <1>1 DEF vars
<1>2. CASE MainOnly
  BY <1>2 DEF MainOnly, Start, SetupFails, ReceiveResult, ReceiveSignal, Drain,
              Reset, ReleaseLock, Signal
<1>3. CASE LaunchProtocol
  BY <1>3 DEF LaunchProtocol, Launch
<1>4. CASE StopProtocol
  BY <1>4 DEF StopProtocol, ExitProcess, Exit
<1>5. CASE CrashProtocol
  BY <1>5 DEF CrashProtocol, Crash, Exit
<1>6. CASE Spawn
  BY <1>6 DEF Spawn, ApplyReturns
<1>7. CASE Unreject
  BY <1>7 DEF Unreject, Removed
<1>8. CASE AddRule
  BY <1>8 DEF AddRule
<1>9. CASE WaitProxy \/ WaitContext \/ WaitTimer
  BY <1>9 DEF WaitProxy, WaitContext, WaitTimer, EndWait
<1>10. CASE RemoveRule
  BY <1>10 DEF RemoveRule, Removed
<1>11. CASE AddReject
  BY <1>11 DEF AddReject
<1>12. CASE Shutdown
  BY <1>12 DEF Shutdown
<1>13. CASE DrainProxy
  BY <1>13 DEF DrainProxy, ApplyReturns
<1>14. CASE ProxyFails
  BY <1>14 DEF ProxyFails
<1>15. CASE Response
  BY <1>15 DEF Response
<1>16. CASE \E r \in Rules : Request(r)
  BY <1>16 DEF Request, Redirected
<1> QED
  BY <1>1, <1>2, <1>3, <1>4, <1>5, <1>6, <1>7, <1>8,
     <1>9, <1>10, <1>11, <1>12, <1>13, <1>14, <1>15, <1>16 DEF Next, ApplyStep

\* Every step accounts for the rules it installs, removes or leaves.
LEMMA StepRules == TypeOK /\ Phases /\ RulesAccounted /\ [Next]_vars => RulesAccounted'
<1> SUFFICES ASSUME TypeOK /\ Phases /\ RulesAccounted, [Next]_vars PROVE RulesAccounted'
  OBVIOUS
<1> USE BoundsAssumption
    DEF TypeOK, Rules, Phases, RulesAccounted, Installed, agentVars, protocolVars,
        Local, NoFault, Fault
<1>1. CASE UNCHANGED vars
  BY <1>1 DEF vars
<1>2. CASE MainOnly
  BY <1>2 DEF MainOnly, Start, SetupFails, ReceiveResult, ReceiveSignal, Drain,
              Reset, ReleaseLock, Signal
<1>3. CASE LaunchProtocol
  BY <1>3 DEF LaunchProtocol, Launch
<1>4. CASE StopProtocol
  BY <1>4 DEF StopProtocol, ExitProcess, Exit
<1>5. CASE CrashProtocol
  BY <1>5 DEF CrashProtocol, Crash, Exit
<1>6. CASE Spawn
  BY <1>6 DEF Spawn, ApplyReturns
<1>7. CASE Unreject
  BY <1>7 DEF Unreject, Removed
<1>8. CASE AddRule
  BY <1>8 DEF AddRule
<1>9. CASE WaitProxy \/ WaitContext \/ WaitTimer
  BY <1>9 DEF WaitProxy, WaitContext, WaitTimer, EndWait
<1>10. CASE RemoveRule
  BY <1>10 DEF RemoveRule, Removed
<1>11. CASE AddReject
  BY <1>11 DEF AddReject
<1>12. CASE Shutdown
  BY <1>12 DEF Shutdown
<1>13. CASE DrainProxy
  BY <1>13 DEF DrainProxy, ApplyReturns
<1>14. CASE ProxyFails
  BY <1>14 DEF ProxyFails
<1>15. CASE Response
  BY <1>15 DEF Response
<1>16. CASE \E r \in Rules : Request(r)
  BY <1>16 DEF Request, Redirected
<1> QED
  BY <1>1, <1>2, <1>3, <1>4, <1>5, <1>6, <1>7, <1>8,
     <1>9, <1>10, <1>11, <1>12, <1>13, <1>14, <1>15, <1>16 DEF Next, ApplyStep

\* Nobody but Apply removes a rule it has installed.
LEMMA StepInPlace == TypeOK /\ Phases /\ InPlace /\ [Next]_vars => InPlace'
<1> SUFFICES ASSUME TypeOK /\ Phases /\ InPlace, [Next]_vars PROVE InPlace'
  OBVIOUS
<1> USE DEF TypeOK, Rules, Phases, InPlace, Installed, agentVars, protocolVars, Local
<1>1. CASE UNCHANGED vars \/ MainOnly
  BY <1>1 DEF vars, MainOnly
<1>2. CASE LaunchProtocol \/ StopProtocol \/ CrashProtocol
  BY <1>2 DEF LaunchProtocol, StopProtocol, CrashProtocol, Exit
<1>3. CASE Spawn \/ Unreject
  BY <1>3 DEF Spawn, Unreject
<1>4. CASE AddRule
  BY <1>4 DEF AddRule
<1>5. CASE WaitProxy \/ WaitContext \/ WaitTimer
  BY <1>5 DEF WaitProxy, WaitContext, WaitTimer, EndWait
<1>6. CASE RemoveRule
  BY <1>6 DEF RemoveRule, Removed
<1>7. CASE AddReject \/ Shutdown \/ DrainProxy
  BY <1>7 DEF AddReject, Shutdown, DrainProxy
<1>8. CASE ProxyFails \/ Response \/ \E r \in Rules : Request(r)
  BY <1>8 DEF ProxyFails, Response, Request
<1> QED
  BY <1>1, <1>2, <1>3, <1>4, <1>5, <1>6, <1>7, <1>8 DEF Next, ApplyStep

\* The four together: the invariant is inductive.
LEMMA StepIInv == IInv /\ [Next]_vars => IInv'
BY StepTypeOK, StepPhases, StepRules, StepInPlace DEF IInv

\* Every reachable state satisfies the inductive invariant.
THEOREM Invariant == Spec => []IInv
BY InitIInv, StepIInv, PTL DEF Spec

\* The variables keep their types; in particular no count goes below zero.
THEOREM TypeCorrect == Spec => []TypeOK
<1>1. IInv => TypeOK
  BY DEF IInv
<1> QED
  BY Invariant, <1>1, PTL

\* A failed iptables call or a crash leaves at most one copy of a rule.
THEOREM RulesTheorem == Spec => []RulesAccounted
<1>1. IInv => RulesAccounted
  BY DEF IInv
<1> QED
  BY Invariant, <1>1, PTL

\* Without faults, redirected traffic always finds the proxy.
THEOREM BlackholeTheorem == Spec => []NoBlackhole
<1>1. IInv => NoBlackhole
  BY DEF IInv, NoBlackhole, RulesAccounted, Installed, Phases, TypeOK, Rules, Redirects
<1> QED
  BY Invariant, <1>1, PTL

\* The main goroutine leaves ApplyDisruption only after the proxy is drained.
THEOREM RequestsTheorem == Spec => []RequestsFinished
<1>1. IInv => RequestsFinished
  BY DEF IInv, RequestsFinished, Phases
<1> QED
  BY Invariant, <1>1, PTL

\* Apply never runs without the lock.
THEOREM UnderLockTheorem == Spec => []AppliedUnderLock
<1>1. IInv => AppliedUnderLock
  BY DEF IInv, AppliedUnderLock, Phases
<1> QED
  BY Invariant, <1>1, PTL

\* The rules Apply means to remove, and the copies of each rule besides.
Own  == {r \in Rules : Installed(r)}
Left == [r \in Rules |-> kernel[r] - (IF Installed(r) THEN 1 ELSE 0)]

\* What leaves the rules, the phases with rules and the lock alone is none of
\* the business of the promise, or a failure.
LEMMA PromiseAside ==
  ASSUME TypeOK, TypeOK', UNCHANGED <<kernel, lock>>, Own' = Own,
         \/ UNCHANGED <<faults, crashes>>
         \/ faults' = faults + 1 /\ UNCHANGED crashes
  PROVE  [Promise!LoosePromiseNext]_(Promise!promise)
<1>1. \A r \in Rules : Installed(r)' <=> Installed(r)
  BY DEF Own, Rules
<1>2. Left' = Left
  BY <1>1 DEF Left
<1>3. CASE UNCHANGED <<faults, crashes>>
  BY <1>2, <1>3 DEF Promise!promise, Own, Left
<1>4. CASE faults' = faults + 1 /\ UNCHANGED crashes
  <2>1. (faults' + crashes' > 0) = TRUE
    BY <1>4 DEF TypeOK
  <2> QED BY <1>2, <2>1 DEF Promise!LoosePromiseNext, Promise!PromiseNext, Promise!Fail, Own, Left
<1> QED BY <1>3, <1>4

\* Start, the release of the lock, and a crash.
LEMMA PromiseLock ==
  ASSUME IInv, IInv', MainOnly \/ CrashProtocol
  PROVE  [Promise!LoosePromiseNext]_(Promise!promise)
<1> USE DEF IInv, TypeOK, AgentTypeOK, agentVars, protocolVars
<1>1. CASE Start /\ UNCHANGED <<protocolVars, faults, crashes>>
  <2>1. lock # "held" /\ lock' = "held" /\ Own' = Own /\ Left' = Left
    BY <1>1 DEF Start, Phases, Own, Left, Installed
  <2>2. Promise!Take
    BY <1>1, <2>1 DEF Promise!Take, Own, Left
  <2> QED BY <2>2 DEF Promise!LoosePromiseNext, Promise!PromiseNext
<1>2. CASE ReleaseLock /\ UNCHANGED <<protocolVars, faults, crashes>>
  <2>1. /\ lock = "held" /\ lock' # "held" /\ step = "none"
        /\ Own' = Own /\ Left' = Left
    BY <1>2 DEF ReleaseLock, Phases, Own, Left, Installed
  <2>2. Own = {}
    BY <2>1 DEF Own, Installed
  <2>3. Promise!GiveUp
    BY <1>2, <2>1, <2>2 DEF Promise!GiveUp, Own, Left
  <2> QED BY <2>3 DEF Promise!LoosePromiseNext, Promise!PromiseNext
<1>3. CASE CrashProtocol
  <2>1. /\ lock' # "held" /\ kernel' = kernel /\ step' = "none"
        /\ faults' + crashes' > 0
    BY <1>3 DEF CrashProtocol, Crash, Exit
  <2>2. \A r \in Rules : ~Installed(r)'
    BY <2>1 DEF Installed
  <2>3. Own' = {}
    BY <2>2 DEF Own
  <2>4. Left' = [r \in Rules |-> IF r \in Own THEN Left[r] + 1 ELSE Left[r]]
    BY <2>1, <2>2 DEF Left, Own
  <2>5. (lock' = "held") = FALSE /\ (faults' + crashes' > 0) = TRUE
    BY <2>1
  <2>6. Promise!Die
    BY <2>3, <2>4, <2>5, Zenon DEF Promise!Die, Own, Left
  <2> QED BY <2>6 DEF Promise!LoosePromiseNext, Promise!PromiseNext
<1>4. CASE /\ SetupFails \/ ReceiveResult \/ ReceiveSignal \/ Drain \/ Reset \/ Signal
           /\ UNCHANGED <<protocolVars, faults, crashes>>
  <2>1. UNCHANGED <<lock, kernel, step, idx, faults, crashes>>
    BY <1>4 DEF SetupFails, ReceiveResult, ReceiveSignal, Drain, Reset, Signal
  <2>2. Own' = Own
    BY <2>1 DEF Own, Installed
  <2> QED BY <2>1, <2>2, PromiseAside
<1> QED BY <1>1, <1>2, <1>3, <1>4 DEF MainOnly

\* Redirector.Start: a rule that is added is an alteration; the error of one
\* leaves those before it.
LEMMA PromiseAdd ==
  ASSUME IInv, IInv', AddRule
  PROVE  [Promise!LoosePromiseNext]_(Promise!promise)
<1> USE DEF IInv, TypeOK, AgentTypeOK, agentVars, protocolVars, Local
<1>1. lock = "held" /\ lock' = "held"
  BY DEF AddRule, Phases
<1> PICK i \in Rules : i = idx
  OBVIOUS
<1>2. CASE kernel' = [kernel EXCEPT ![i] = @ + 1]
  <2>1. kernel'[i] = kernel[i] + 1 /\ \A r \in Rules \ {i} : kernel'[r] = kernel[r]
    BY <1>2
  <2>2. ~Installed(i) /\ Installed(i)' /\ UNCHANGED <<faults, crashes>>
    BY <2>1 DEF AddRule, Installed, NoFault, Fault, Rules
  <2>3. \A r \in Rules \ {i} : Installed(r)' <=> Installed(r)
    BY <2>1 DEF AddRule, Installed, Rules
  <2>4. Own' = Own \cup {i} /\ i \notin Own
    BY <2>2, <2>3 DEF Own
  <2>5. Left' = Left
    BY <2>1, <2>2, <2>3 DEF Left
  <2>6. Promise!Alter(i)
    BY <1>1, <2>2, <2>4, <2>5 DEF Promise!Alter, Own, Left
  <2> QED BY <2>6 DEF Promise!LoosePromiseNext, Promise!PromiseNext
<1>3. CASE Fault /\ step' = "shutdown" /\ UNCHANGED kernel
  <2>1. \A r \in Rules : ~Installed(r)'
    BY <1>3 DEF Installed
  <2>2. Own' = {} /\ (faults' + crashes' > 0) = TRUE
    BY <1>3, <2>1 DEF Own, Fault, AddRule
  <2>3. Left' = [r \in Rules |-> IF r \in Own THEN Left[r] + 1 ELSE Left[r]]
    BY <1>3, <2>1 DEF Left, Own
  <2>4. Promise!Abandon
    BY <1>1, <2>2, <2>3 DEF Promise!Abandon, Own, Left
  <2> QED BY <2>4 DEF Promise!LoosePromiseNext
<1> QED BY <1>2, <1>3 DEF AddRule

\* Redirector.Stop: a rule is removed, or its removal fails and is not tried
\* again.
LEMMA PromiseRemove ==
  ASSUME IInv, IInv', RemoveRule
  PROVE  [Promise!LoosePromiseNext]_(Promise!promise)
<1> USE DEF IInv, TypeOK, AgentTypeOK, agentVars, protocolVars, Local
<1>1. lock = "held" /\ lock' = "held"
  BY DEF RemoveRule, Phases
<1> PICK i \in Rules : i = idx
  OBVIOUS
<1>2. /\ Installed(i) /\ ~Installed(i)'
      /\ \A r \in Rules \ {i} : Installed(r)' <=> Installed(r)
  BY DEF RemoveRule, Installed, Rules
<1>3. Own' = Own \ {i} /\ i \in Own
  BY <1>2 DEF Own
<1>4. CASE kernel' = [kernel EXCEPT ![i] = Removed(@)] /\ NoFault
  <2>1. kernel[i] >= 1
    BY <1>2 DEF InPlace
  <2>2. kernel'[i] = kernel[i] - 1 /\ \A r \in Rules \ {i} : kernel'[r] = kernel[r]
    BY <1>2, <1>4, <2>1 DEF Removed
  <2>3. Left' = Left
    BY <1>2, <2>2 DEF Left
  <2>4. UNCHANGED <<faults, crashes>>
    BY <1>4 DEF RemoveRule, NoFault
  <2>5. Promise!Undo(i)
    BY <1>1, <1>3, <2>3, <2>4 DEF Promise!Undo, Own, Left
  <2> QED BY <1>2, <2>5 DEF Promise!LoosePromiseNext, Promise!PromiseNext
<1>5. CASE Fault /\ UNCHANGED kernel
  <2>1. Left' = [Left EXCEPT ![i] = @ + 1]
    <3>1. Left'[i] = Left[i] + 1 /\ \A r \in Rules \ {i} : Left'[r] = Left[r]
      BY <1>2, <1>5 DEF Left
    <3> QED BY <3>1 DEF Left
  <2>2. (faults' + crashes' > 0) = TRUE
    BY <1>5 DEF Fault, RemoveRule
  <2>3. Promise!Forget(i)
    BY <1>1, <1>3, <2>1, <2>2, Zenon DEF Promise!Forget, Own, Left
  <2> QED BY <2>3 DEF Promise!LoosePromiseNext, Promise!PromiseNext
<1> QED BY <1>4, <1>5 DEF RemoveRule

\* Every step of the protocol agent is one of the promise, or none of its
\* business.
LEMMA PromiseKept == IInv /\ IInv' /\ [Next]_vars => [Promise!LoosePromiseNext]_(Promise!promise)
<1> SUFFICES ASSUME IInv, IInv', [Next]_vars PROVE [Promise!LoosePromiseNext]_(Promise!promise)
  OBVIOUS
<1> DEFINE aside == /\ UNCHANGED <<kernel, lock>> /\ Own' = Own
                    /\ \/ UNCHANGED <<faults, crashes>>
                       \/ faults' = faults + 1 /\ UNCHANGED crashes
<1>0. ASSUME aside PROVE [Promise!LoosePromiseNext]_(Promise!promise)
  BY <1>0, PromiseAside DEF IInv
<1> USE DEF IInv, TypeOK, Rules, Own, Installed, agentVars, protocolVars, Local, NoFault, Fault
<1>1. CASE MainOnly \/ CrashProtocol
  BY <1>1, PromiseLock
<1>2. CASE AddRule
  BY <1>2, PromiseAdd
<1>3. CASE RemoveRule
  BY <1>3, PromiseRemove
<1>4. CASE UNCHANGED vars
  <2>1. aside
    BY <1>4 DEF vars
  <2> QED BY <1>0, <2>1
<1>5. CASE LaunchProtocol \/ StopProtocol
  <2>1. aside
    BY <1>5 DEF LaunchProtocol, StopProtocol, Exit, Launch, ExitProcess, Phases
  <2> QED BY <1>0, <2>1
<1>6. CASE Spawn \/ Unreject \/ AddReject \/ Shutdown \/ DrainProxy
  <2>1. aside
    BY <1>6 DEF Spawn, Unreject, AddReject, Shutdown, DrainProxy, ApplyReturns, Phases
  <2> QED BY <1>0, <2>1
<1>7. CASE WaitProxy \/ WaitContext \/ WaitTimer
  <2>1. aside
    BY <1>7 DEF WaitProxy, WaitContext, WaitTimer, EndWait, Phases
  <2> QED BY <1>0, <2>1
<1>8. CASE ProxyFails \/ Response \/ \E r \in Rules : Request(r)
  <2>1. aside
    BY <1>8 DEF ProxyFails, Response, Request
  <2> QED BY <1>0, <2>1
<1> QED
  BY <1>1, <1>2, <1>3, <1>4, <1>5, <1>6, <1>7, <1>8, Zenon DEF Next, ApplyStep

\* The redirections implement TemporaryFault: a rule that stays in the kernel
\* is explained by a failed call or a killed agent.
THEOREM PromiseCorrect == Spec => KeepsPromise
<1>1. Init => Promise!PromiseInit
  <2> SUFFICES ASSUME Init PROVE Promise!PromiseInit
    OBVIOUS
  <2>1. lock # "held" /\ Own = {} /\ ~(faults + crashes > 0)
    BY DEF Init, AgentInit, Own, Installed
  <2>2. Left = [r \in Rules |-> 0]
    BY DEF Init, Left, Installed
  <2> QED BY <2>1, <2>2 DEF Promise!PromiseInit, Own, Left
<1> QED BY Invariant, PromiseKept, <1>1, PTL DEF Spec, KeepsPromise, Promise!LoosePromiseSpec

\* The protocol agent implements the agent of module Agent.
THEOREM Refinement == Spec => AgentSpec
<1>1. Init => AgentInit
  BY DEF Init
<1>2. [Next]_vars => [AgentNext]_agentVars
  BY DEF Next, vars, MainOnly, LaunchProtocol, StopProtocol, CrashProtocol, Spawn,
         ApplyStep, Unreject, AddRule, WaitProxy, WaitContext, WaitTimer, EndWait,
         RemoveRule, AddReject, Shutdown, DrainProxy, ProxyFails, Response, Request,
         Local, AgentNext, MainStep
<1> QED
  BY <1>1, <1>2, PTL DEF Spec, AgentSpec

-----------------------------------------------------------------------------
(***************************************************************************)
(* FileLock, the lock under which these agents run, for any set of pids.   *)
(***************************************************************************)

\* The initial state, in which no process has started and no file exists,
\* satisfies the inductive invariant.
LEMMA InitLockInv == LockInit => LockInv
BY PidAssumption
   DEF LockInit, LockInv, LockTypeOK, TempWritten, MutexUnlessRaced, WindowsSafe, Owns, Pc

\* No system call of an agent, crash or reuse of a pid leaves the types.
LEMMA StepLockTypeOK == LockTypeOK /\ [LockNext]_lockVars => LockTypeOK'
<1> SUFFICES ASSUME LockTypeOK, [LockNext]_lockVars PROVE LockTypeOK'
  OBVIOUS
<1> USE PidAssumption DEF LockTypeOK, Pc
<1>1. CASE UNCHANGED lockVars
  BY <1>1 DEF lockVars
<1>2. CASE LockNext
  <2> PICK p \in Pid :
        \/ Acquire(p) \/ Release(p)
        \/ Kill(p) \/ Restart(p) \/ ReusePid(p) \/ ReturnPid(p)
    BY <1>2 DEF LockNext
  <2>1. CASE CreateTemp(p)
    BY <2>1 DEF CreateTemp, Goto
  <2>2. CASE WriteTemp(p)
    BY <2>2 DEF WriteTemp, Goto
  <2>3. CASE LinkTemp(p)
    BY <2>3 DEF LinkTemp, Link, Claim, Goto
  <2>4. CASE ReadOwner(p)
    BY <2>4 DEF ReadOwner, Owner, Claim, Goto
  <2>5. CASE CheckAlive(p)
    BY <2>5 DEF CheckAlive, Goto
  <2>6. CASE RemoveStale(p)
    BY <2>6 DEF RemoveStale, Goto
  <2>7. CASE Relink(p)
    BY <2>7 DEF Relink, Link, Claim, Goto
  <2>8. CASE DeferredCleanup(p)
    BY <2>8 DEF DeferredCleanup, Goto
  <2>9. CASE ReadRelease(p)
    BY <2>9 DEF ReadRelease, Claim, Goto
  <2>10. CASE Unlink(p)
    BY <2>10 DEF Unlink, Goto
  <2>11. CASE Kill(p)
    BY <2>11 DEF Kill, Goto
  <2>12. CASE Restart(p)
    BY <2>12 DEF Restart, Goto
  <2>13. CASE ReusePid(p) \/ ReturnPid(p)
    BY <2>13 DEF ReusePid, ReturnPid
  <2> QED
    BY <2>1, <2>2, <2>3, <2>4, <2>5, <2>6, <2>7, <2>8, <2>9, <2>10, <2>11,
       <2>12, <2>13 DEF Acquire, Release
<1> QED
  BY <1>1, <1>2

\* No step disturbs the ownership facts of the inductive invariant.
LEMMA StepOwnership ==
  LockInv /\ LockTypeOK' /\ [LockNext]_lockVars => TempWritten' /\ MutexUnlessRaced' /\ WindowsSafe'
<1> SUFFICES ASSUME LockInv, LockTypeOK', [LockNext]_lockVars
             PROVE  TempWritten' /\ MutexUnlessRaced' /\ WindowsSafe'
  OBVIOUS
<1> USE PidAssumption
    DEF LockInv, LockTypeOK, Pc, TempWritten, MutexUnlessRaced, WindowsSafe, Owns, InTakeover
<1>1. CASE UNCHANGED lockVars
  BY <1>1 DEF lockVars
<1>2. CASE LockNext
  <2> PICK p \in Pid :
        \/ Acquire(p) \/ Release(p)
        \/ Kill(p) \/ Restart(p) \/ ReusePid(p) \/ ReturnPid(p)
    BY <1>2 DEF LockNext
  <2>1. CASE CreateTemp(p)
    BY <2>1 DEF CreateTemp, Goto
  <2>2. CASE WriteTemp(p)
    BY <2>2 DEF WriteTemp, Goto
  <2>3. CASE LinkTemp(p)
    BY <2>3 DEF LinkTemp, Link, Claim, Goto
  <2>4. CASE ReadOwner(p)
    BY <2>4 DEF ReadOwner, Owner, Claim, Goto
  <2>5. CASE CheckAlive(p)
    BY <2>5 DEF CheckAlive, IsAlive, Goto
  <2>6. CASE RemoveStale(p)
    BY <2>6 DEF RemoveStale, Goto
  <2>7. CASE Relink(p)
    BY <2>7 DEF Relink, Link, Claim, Goto
  <2>8. CASE DeferredCleanup(p)
    BY <2>8 DEF DeferredCleanup, Goto
  <2>9. CASE ReadRelease(p)
    BY <2>9 DEF ReadRelease, Owner, Claim, Goto
  <2>10. CASE Unlink(p)
    BY <2>10 DEF Unlink, Goto
  <2>11. CASE Kill(p)
    BY <2>11 DEF Kill, Goto
  <2>12. CASE Restart(p)
    BY <2>12 DEF Restart, Goto
  <2>13. CASE ReusePid(p) \/ ReturnPid(p)
    BY <2>13 DEF ReusePid, ReturnPid
  <2> QED
    BY <2>1, <2>2, <2>3, <2>4, <2>5, <2>6, <2>7, <2>8, <2>9, <2>10, <2>11,
       <2>12, <2>13 DEF Acquire, Release
<1> QED
  BY <1>1, <1>2

\* Every reachable state satisfies the inductive invariant.
THEOREM LockInvariant == LockSpec => []LockInv
<1>1. LockInv /\ [LockNext]_lockVars => LockInv'
  BY StepLockTypeOK, StepOwnership DEF LockInv
<1> QED
  BY InitLockInv, <1>1, PTL DEF LockSpec

\* The lock file and the program counters keep their types.
THEOREM LockTypeCorrect == LockSpec => []LockTypeOK
<1>1. LockInv => LockTypeOK
  BY DEF LockInv
<1> QED
  BY LockInvariant, <1>1, PTL

\* At most one agent process owns the lock of a container unless a claim fell
\* inside the takeover window of Acquire.
THEOREM MutexTheorem == LockSpec => []MutexUnlessRaced
<1>1. LockInv => MutexUnlessRaced
  BY DEF LockInv
<1> QED
  BY LockInvariant, <1>1, PTL

\* Nobody takes the lock file away from the process that owns it.
THEOREM HolderTheorem == LockSpec => HolderKeepsLock
<1> DEFINE Keeps == \A p \in Pid : ~raced' /\ Owns(p) /\ Owns(p)' => lockFile' = lockFile
<1>1. LockInv /\ LockInv' /\ [LockNext]_lockVars => [Keeps]_lockVars
  <2> SUFFICES ASSUME LockInv, LockInv', LockNext, NEW p \in Pid, ~raced', Owns(p), Owns(p)'
               PROVE  lockFile' = lockFile
    BY DEF lockVars
  <2>1. ~raced
    BY DEF LockNext, Acquire, Release, CreateTemp, WriteTemp, LinkTemp, Link, ReadOwner,
           CheckAlive, RemoveStale, Relink, DeferredCleanup, ReadRelease, Unlink,
           Kill, Restart, ReusePid, ReturnPid, Claim
  <2> QED
    BY <2>1 DEF LockInv, MutexUnlessRaced
<1> QED
  BY LockInvariant, <1>1, PTL DEF LockSpec, HolderKeepsLock
=============================================================================
