------------------------- MODULE FaultAgentsProofs -------------------------
(***************************************************************************)
(* The agents of module FaultAgents implement TemporaryFault, for any      *)
(* number of failing calls and killed agents; and the agent of the I/O     *)
(* stress, which has no state to restore, accounts for its workers         *)
(* (IOStress, below).                                                      *)
(***************************************************************************)
EXTENDS FaultAgents, IOStress, FiniteSetTheorems, TLAPS

\* Where the alterations of the present agent can be: only while Apply runs,
\* in a process that holds the lock.
Held ==
  /\ main \notin {"off", "exit"} => lock = "held"
  /\ main \in {"off", "exit"} => lock # "held"
  /\ added # {} => apply = "running"
  /\ apply \in {"running", "sending"} <=> main \in {"select", "drain", "direct"}
  /\ main \in {"off", "ready"} => apply = "none"
  /\ faults + crashes = 0 => \A i \in Item : host[i] = IF i \in added THEN 1 ELSE 0

IInv == TypeOK /\ Held

Left == [i \in Item |-> host[i] - (IF i \in added THEN 1 ELSE 0)]

USE FaultAgentsAssumption DEF vars, work, bounds, Command, Disruptions, DirectCommands

\* An item of the host can be added and taken away without losing its type.
LEMMA HostType ==
  ASSUME TypeOK, NEW i \in Item
  PROVE  /\ Put(i) \in [Item -> Nat]
         /\ i \in added => Take(i) \in [Item -> Nat]
         /\ Put(i)[i] >= 1
         /\ i \in Single => Put(i)[i] <= 1
         /\ i \in Single /\ i \in added => Take(i)[i] = 0
BY DEF TypeOK, Put, Take

LEMMA Initial == Init => IInv
<1> SUFFICES ASSUME Init PROVE IInv
  OBVIOUS
<1>1. host \in [Item -> Nat] /\ \A i \in Item : host[i] = 0
  BY DEF Init
<1>2. TypeOK
  <2>1. Life!AgentTypeOK
    BY DEF Init, Life!AgentInit, Life!AgentTypeOK
  <2>2. cmd \in Command /\ step \in {"install", "wait", "undo"} /\ outcome \in {"ok", "error"}
    BY DEF Init
  <2>3. lasted \in BOOLEAN /\ upset \in BOOLEAN
    BY Zenon DEF Init
  <2>4. faults \in Nat /\ crashes \in Nat /\ added \subseteq Item
    BY DEF Init
  <2> QED BY <1>1, <2>1, <2>2, <2>3, <2>4 DEF Init, TypeOK
<1>3. Held
  BY <1>1 DEF Init, Held, Life!AgentInit
<1> QED BY <1>2, <1>3 DEF IInv

LEMMA Inductive == IInv /\ [Next]_vars => IInv'
<1> SUFFICES ASSUME IInv, [Next]_vars PROVE IInv'
  OBVIOUS
<1> USE DEF IInv, TypeOK, Held, Life!AgentTypeOK
<1>1. ASSUME NEW c \in Command, Start(c) PROVE IInv'
  <2>1. added = {}
    BY <1>1 DEF Start, Life!Start
  <2>2. TypeOK'
    <3>1. Life!AgentTypeOK'
      BY <1>1 DEF Start, Life!Start
    <3>2. cmd' \in Command /\ step' \in {"install", "wait", "undo"} /\ outcome' \in {"ok", "error"}
      BY <1>1 DEF Start
    <3>3. lasted' \in BOOLEAN /\ upset' \in BOOLEAN
      BY <1>1, Zenon DEF Start
    <3>4. /\ faults' \in Nat /\ crashes' \in Nat /\ added' \subseteq Item
          /\ host' = host /\ added' = added
      BY <1>1, <2>1 DEF Start
    <3> QED BY <3>1, <3>2, <3>3, <3>4
  <2>3. Held'
    BY <1>1, <2>1 DEF Start, Life!Start
  <2> QED BY <2>2, <2>3
<1>2. CASE SetupFails
  BY <1>2 DEF SetupFails, Life!SetupFails
<1>3. CASE Launch
  BY <1>3 DEF Launch, Life!Launch, LifeDirect!Launch
<1>4. CASE ReceiveResult
  BY <1>4 DEF ReceiveResult, Life!ReceiveResult
<1>5. CASE ReceiveSignal
  BY <1>5 DEF ReceiveSignal, Life!ReceiveSignal
<1>6. CASE Drain
  BY <1>6 DEF Drain, Life!Drain
<1>7. CASE Reset
  BY <1>7 DEF Reset, Life!Reset
<1>8. CASE ReleaseLock
  BY <1>8 DEF ReleaseLock, Life!ReleaseLock
<1>9. CASE ExitProcess
  BY <1>9 DEF ExitProcess, Life!ExitProcess
<1>10. CASE Install
  <2>1. PICK i \in First(cmd) \cup Second(cmd) :
          /\ apply = "running" /\ step = "install"
          /\ i \notin added
          /\ i \in Second(cmd) => First(cmd) \subseteq added
          /\ \/ /\ host' = Put(i)
                /\ added' = added \cup {i}
                /\ UNCHANGED <<step, outcome, faults, upset>>
             \/ /\ CallFails
                /\ step' = "undo"
                /\ outcome' = "error"
                /\ UNCHANGED <<host, added>>
          /\ UNCHANGED <<main, apply, ctx, sig, lock, cmd, lasted, crashes>>
    BY <1>10 DEF Install
  <2>2. i \in Item
    BY DEF Item
  <2>3. CASE host' = Put(i) /\ added' = added \cup {i} /\ UNCHANGED <<step, outcome, faults, upset>>
    BY <2>1, <2>2, <2>3, HostType DEF Put
  <2>4. CASE CallFails /\ step' = "undo" /\ outcome' = "error" /\ UNCHANGED <<host, added>>
    BY <2>1, <2>4 DEF CallFails
  <2> QED BY <2>1, <2>3, <2>4
<1>11. CASE Installed
  BY <1>11 DEF Installed
<1>12. CASE Cancelled
  BY <1>12 DEF Cancelled, AtCancel
<1>13. CASE UndoItem
  <2>1. PICK i \in added :
          /\ apply = "running" /\ step = "undo"
          /\ added' = added \ {i}
          /\ \/ host' = Take(i) /\ UNCHANGED <<outcome, faults, upset>>
             \/ /\ CallFails
                /\ outcome' = IF cmd = "kubelet-kill" THEN "error" ELSE outcome
                /\ UNCHANGED host
          /\ UNCHANGED <<main, apply, ctx, sig, lock, cmd, step, lasted, crashes>>
    BY <1>13 DEF UndoItem
  <2>3. CASE host' = Take(i) /\ UNCHANGED <<outcome, faults, upset>>
    BY <2>1, <2>3, HostType DEF Take
  <2>4. CASE /\ CallFails
             /\ outcome' = IF cmd = "kubelet-kill" THEN "error" ELSE outcome
             /\ UNCHANGED host
    BY <2>1, <2>4 DEF CallFails
  <2> QED BY <2>1, <2>3, <2>4
<1>14. CASE ApplyReturns
  BY <1>14 DEF ApplyReturns, Life!ApplyReturns
<1>15. CASE Expire
  BY <1>15 DEF Expire, AtExpiry
<1>16. CASE Breaks
  BY <1>16 DEF Breaks, CallFails
<1>17. CASE Signal
  BY <1>17 DEF Signal, Life!Signal
<1>18. CASE Crash
  BY <1>18 DEF Crash, Life!Crash
<1>19. CASE UNCHANGED vars
  BY <1>19
<1> QED BY <1>1, <1>2, <1>3, <1>4, <1>5, <1>6, <1>7, <1>8, <1>9, <1>10, <1>11, <1>12,
           <1>13, <1>14, <1>15, <1>16, <1>17, <1>18, <1>19 DEF Next, MainStep, Work

\* Every variable keeps its type, and what is to be undone is on the host.
THEOREM TypeCorrect == Spec => []TypeOK
<1>1. IInv => TypeOK
  BY DEF IInv
<1> QED BY Initial, Inductive, <1>1, PTL DEF Spec

-----------------------------------------------------------------------------
(* Refinement *)

\* The initial state is the initial state of the promise.
LEMMA PromiseStarts == Init => Promise!PromiseInit
<1> SUFFICES ASSUME Init PROVE Promise!PromiseInit
  OBVIOUS
<1>1. lock # "held" /\ added = {} /\ ~(faults + crashes > 0)
  BY DEF Init, Life!AgentInit
<1>2. Left = [i \in Item |-> 0]
  BY <1>1 DEF Init, Left
<1> QED BY <1>1, <1>2 DEF Promise!PromiseInit, Left

\* Every step of an agent is a step of the promise, or none of its business.
LEMMA PromiseKept == IInv /\ IInv' /\ [Next]_vars => [Promise!PromiseNext]_(Promise!promise)
<1> SUFFICES ASSUME IInv, IInv', [Next]_vars PROVE [Promise!PromiseNext]_(Promise!promise)
  OBVIOUS
<1> USE DEF IInv, TypeOK, Held
<1> DEFINE same == UNCHANGED <<lock, host, added, faults, crashes>>
<1>0. same => UNCHANGED Promise!promise
  BY DEF Promise!promise
<1>1. ASSUME NEW c \in Command, Start(c) PROVE Promise!Take
  <2>1. /\ lock # "held" /\ lock' = "held" /\ added = {} /\ added' = {}
        /\ UNCHANGED <<host, faults, crashes>>
    BY <1>1 DEF Start, Life!Start
  <2> QED BY <2>1 DEF Promise!Take
<1>2. CASE ReleaseLock
  <2>1. /\ lock = "held" /\ lock' = "free" /\ added = {}
        /\ UNCHANGED <<host, added, faults, crashes>>
    BY <1>2 DEF ReleaseLock, Life!ReleaseLock
  <2>2. (lock' = "held") = FALSE /\ lock = "held"
    BY <2>1
  <2>3. Left' = Left /\ (faults + crashes > 0)' = (faults + crashes > 0)
    BY <2>1 DEF Left
  <2>4. Promise!GiveUp
    BY <2>1, <2>2, <2>3, Zenon DEF Promise!GiveUp, Left
  <2> QED BY <2>4 DEF Promise!PromiseNext
<1>3. CASE Crash
  <2>1. /\ lock' # "held" /\ added' = {} /\ host' = host
        /\ faults' + crashes' > 0
    BY <1>3 DEF Crash, Life!Crash
  <2>2. Left' = [i \in Item |-> IF i \in added THEN Left[i] + 1 ELSE Left[i]]
    BY <2>1 DEF Left
  <2>3. (lock' = "held") = FALSE /\ (faults' + crashes' > 0) = TRUE
    BY <2>1
  <2>4. Promise!Die
    BY <2>1, <2>2, <2>3, Zenon DEF Promise!Die, Left
  <2> QED BY <2>4 DEF Promise!PromiseNext
<1>4. CASE Install
  <2>1. PICK i \in First(cmd) \cup Second(cmd) :
          /\ apply = "running" /\ i \notin added
          /\ \/ /\ host' = Put(i)
                /\ added' = added \cup {i}
                /\ UNCHANGED faults
             \/ CallFails /\ UNCHANGED <<host, added>>
          /\ UNCHANGED <<lock, crashes>>
    BY <1>4 DEF Install
  <2>2. i \in Item
    BY DEF Item
  <2>3. lock = "held"
    BY <2>1
  <2>4. CASE host' = Put(i) /\ added' = added \cup {i} /\ UNCHANGED faults
    <3>1. Left' \in {Left, [Left EXCEPT ![i] = 0]}
      <4>1. CASE i \in Single
        <5>1. Left'[i] = 0 /\ \A j \in Item \ {i} : Left'[j] = Left[j]
          BY <2>1, <2>2, <2>4, <4>1 DEF Left, Put
        <5> QED BY <2>2, <5>1 DEF Left
      <4>2. CASE i \notin Single
        <5>1. \A j \in Item : Left'[j] = Left[j]
          BY <2>1, <2>2, <2>4, <4>2 DEF Left, Put
        <5> QED BY <5>1 DEF Left
      <4> QED BY <4>1, <4>2
    <3>2. Promise!Alter(i)
      BY <2>1, <2>3, <2>4, <3>1 DEF Promise!Alter, Left
    <3> QED BY <2>2, <3>2 DEF Promise!PromiseNext
  <2>5. CASE CallFails /\ UNCHANGED <<host, added>>
    <3>1. Promise!Fail
      BY <2>1, <2>5 DEF CallFails, Promise!Fail
    <3> QED BY <3>1 DEF Promise!PromiseNext
  <2> QED BY <2>1, <2>4, <2>5
<1>5. CASE UndoItem
  <2>1. PICK i \in added :
          /\ added' = added \ {i}
          /\ \/ host' = Take(i) /\ UNCHANGED faults
             \/ CallFails /\ UNCHANGED host
          /\ UNCHANGED <<lock, crashes>>
    BY <1>5 DEF UndoItem
  <2>2. i \in Item
    OBVIOUS
  <2>3. CASE host' = Take(i) /\ UNCHANGED faults
    <3>1. Left' = Left
      BY <2>1, <2>2, <2>3 DEF Left, Take
    <3>2. Promise!Undo(i)
      BY <2>1, <2>3, <3>1 DEF Promise!Undo, Left
    <3> QED BY <2>2, <3>2 DEF Promise!PromiseNext
  <2>4. CASE CallFails /\ UNCHANGED host
    <3>1. Left' = [Left EXCEPT ![i] = @ + 1]
      <4>1. Left'[i] = Left[i] + 1 /\ \A j \in Item \ {i} : Left'[j] = Left[j]
        BY <2>1, <2>2, <2>4 DEF Left
      <4> QED BY <2>2, <4>1 DEF Left
    <3>2. (faults' + crashes' > 0) = TRUE
      BY <2>1, <2>4 DEF CallFails
    <3>3. Promise!Forget(i)
      BY <2>1, <2>4, <3>1, <3>2, Zenon DEF Promise!Forget, Left
    <3> QED BY <2>2, <3>3 DEF Promise!PromiseNext
  <2> QED BY <2>1, <2>3, <2>4
<1>6. CASE Breaks
  BY <1>6 DEF Breaks, CallFails, Promise!Fail, Promise!PromiseNext
<1>7. CASE SetupFails \/ Launch \/ ReceiveResult \/ ReceiveSignal \/ Drain \/ Reset \/ Signal
  <2>1. same
    BY <1>7 DEF SetupFails, Launch, ReceiveResult, ReceiveSignal, Drain, Reset, Signal,
       Life!SetupFails, Life!Launch, LifeDirect!Launch, Life!ReceiveResult,
       Life!ReceiveSignal, Life!Drain, Life!Reset, Life!Signal
  <2> QED BY <1>0, <2>1
<1>8. CASE ExitProcess \/ Installed \/ Cancelled \/ ApplyReturns \/ Expire \/ UNCHANGED vars
  <2>1. same
    BY <1>8 DEF ExitProcess, Installed, Cancelled, ApplyReturns, Expire,
       Life!ExitProcess, Life!ApplyReturns
  <2> QED BY <1>0, <2>1
<1> QED BY <1>1, <1>2, <1>3, <1>4, <1>5, <1>6, <1>7, <1>8
        DEF Next, MainStep, Work, Promise!PromiseNext

\* FaultAgents implements TemporaryFault: what stays on the host is explained
\* by a removal that failed or a killed agent (RuleSet.Remove, Stop).
THEOREM PromiseCorrect == Spec => KeepsPromise
<1> QED BY Initial, Inductive, PromiseStarts, PromiseKept, PTL
        DEF Spec, KeepsPromise, Promise!PromiseSpec

\* Without a failing call and without a kill, the host is as it was whenever no
\* disruption is applied.
THEOREM HostRestored ==
  Spec => [](faults + crashes = 0 /\ apply # "running" => \A i \in Item : host[i] = 0)
<1>1. IInv => (faults + crashes = 0 /\ apply # "running" => \A i \in Item : host[i] = 0)
  BY DEF IInv, Held
<1> QED BY Initial, Inductive, <1>1, PTL DEF Spec

-----------------------------------------------------------------------------
(* What a command returns *)

\* The verdict that OutcomeHonest asks for, and how it comes about: "ok" from
\* the start and until the wait ends; from then on "ok" says that the wait ended
\* with the duration, unless a signal was received, whose error Drain reports.
Verdict ==
  /\ outcome = "ok" => lasted
  /\ lasted /\ ~upset /\ cmd \notin {"network-drop", "tcp-drop"} => outcome = "ok"

Honest ==
  /\ main = "ready" => step = "install" /\ outcome = "ok" /\ ~lasted /\ ~upset
  /\ apply = "running" /\ step # "undo" => outcome = "ok" /\ ~lasted
  /\ apply = "sending" => step = "undo"
  /\ ctx = "done" => main \in {"drain", "reset", "release", "exit"}
  /\ main = "drain" => upset
  /\ apply \in {"running", "sending"} /\ step = "undo" => Verdict \/ main = "drain"
  /\ main \in {"reset", "release", "exit"} => Verdict

\* Each action keeps Honest; what it needs of the inductive invariant is where
\* Apply can run.
LEMMA HonestKept == IInv /\ Honest /\ [Next]_vars => Honest'
<1> SUFFICES ASSUME IInv, Honest, [Next]_vars PROVE Honest'
  OBVIOUS
<1> USE DEF Honest, Verdict
<1>0. /\ apply \in {"running", "sending"} <=> main \in {"select", "drain", "direct"}
      /\ main \in {"off", "ready"} => apply = "none"
      /\ outcome \in {"ok", "error"}
      /\ step \in {"install", "wait", "undo"}
  BY Zenon DEF IInv, Held, TypeOK
<1>1. ASSUME NEW c \in Command, Start(c) PROVE Honest'
  BY <1>0, <1>1 DEF Start, Life!Start
<1>2. CASE SetupFails
  BY <1>0, <1>2 DEF SetupFails, Life!SetupFails
<1>3. CASE Launch
  <2>1. /\ main = "ready" /\ main' \in {"select", "direct"} /\ apply' = "running"
        /\ UNCHANGED <<ctx, work>>
    BY <1>3 DEF Launch, Life!Launch, LifeDirect!Launch
  <2> QED BY <1>0, <2>1
<1>4. CASE ReceiveResult
  BY <1>0, <1>4 DEF ReceiveResult, Life!ReceiveResult
<1>5. CASE ReceiveSignal
  BY <1>0, <1>5 DEF ReceiveSignal, Life!ReceiveSignal
<1>6. CASE Drain
  BY <1>0, <1>6 DEF Drain, Life!Drain
<1>7. CASE Reset
  BY <1>0, <1>7 DEF Reset, Life!Reset
<1>8. CASE ReleaseLock
  BY <1>0, <1>8 DEF ReleaseLock, Life!ReleaseLock
<1>9. CASE ExitProcess
  BY <1>0, <1>9 DEF ExitProcess, Life!ExitProcess
<1>10. CASE Install
  BY <1>0, <1>10 DEF Install, CallFails
<1>11. CASE Installed
  BY <1>0, <1>11 DEF Installed
<1>12. CASE Cancelled
  BY <1>0, <1>12 DEF Cancelled
<1>13. CASE UndoItem
  BY <1>0, <1>13 DEF UndoItem, CallFails
<1>14. CASE ApplyReturns
  BY <1>0, <1>14 DEF ApplyReturns, Life!ApplyReturns
<1>15. CASE Expire
  BY <1>0, <1>15 DEF Expire, AtExpiry
<1>16. CASE Breaks
  BY <1>0, <1>16 DEF Breaks, CallFails
<1>17. CASE Signal
  BY <1>0, <1>17 DEF Signal, Life!Signal
<1>18. CASE Crash
  BY <1>0, <1>18 DEF Crash, Life!Crash
<1>19. CASE UNCHANGED vars
  BY <1>0, <1>19
<1> QED BY <1>1, <1>2, <1>3, <1>4, <1>5, <1>6, <1>7, <1>8, <1>9, <1>10, <1>11, <1>12,
           <1>13, <1>14, <1>15, <1>16, <1>17, <1>18, <1>19 DEF Next, MainStep, Work

\* What a command returns is what happened (the errors of Apply, and the error
\* of ApplyDisruption after a signal), whatever fails and whoever is killed.
THEOREM OutcomeCorrect == Spec => []OutcomeHonest
<1>1. Init => Honest
  BY DEF Init, Life!AgentInit, Honest
<1>2. Honest => OutcomeHonest
  BY DEF Honest, Verdict, OutcomeHonest
<1> QED BY Initial, Inductive, <1>1, HonestKept, <1>2, PTL DEF Spec

-----------------------------------------------------------------------------
(***************************************************************************)
(* The accounting of IOStress, for any number of workers.  The counters of *)
(* Apply are related to the set of workers it has yet to hear of: every    *)
(* step of a worker leaves that set alone and every receive takes one      *)
(* worker out of it.                                                       *)
(***************************************************************************)

\* The workers whose result Apply has not received.
Unheard == {w \in Worker : worker[w] # "sent"} \cup errCh

\* While Apply runs, results in the channel were sent and files belong to
\* workers that have not sent.  The counter of the select loop is the number
\* of workers not heard of; the drain loop waits for all of them but one.
Accounts ==
  ioMain # "exited" =>
    /\ \A w \in Worker : worker[w] # "gone"
    /\ \A w \in errCh : worker[w] = "sent"
    /\ \A w \in file : worker[w] \in {"check", "open", "busy", "return"}
    /\ ioMain = "select" => pending = Cardinality(Unheard) /\ pending > 0
    /\ ioMain = "drain" => left + 1 = Cardinality(Unheard)
    /\ ioMain = "nil" => Cardinality(Unheard) <= 1

IOInv == IOTypeOK /\ Accounts

USE WorkerAssumption

LEMMA UnheardFinite ==
  ASSUME IOTypeOK
  PROVE  /\ Unheard \in SUBSET Worker
         /\ IsFiniteSet(Unheard)
         /\ Cardinality(Unheard) \in Nat
         /\ Cardinality(Unheard) <= Cardinality(Worker)
         /\ Cardinality(Worker) \in Nat
<1>1. Unheard \in SUBSET Worker
  BY DEF IOTypeOK, Unheard
<1> QED BY <1>1, FS_Subset, FS_CardinalityType

\* Receiving a result takes its worker, and no other, out of the set.
LEMMA Received ==
  ASSUME IOInv, ioMain # "exited", NEW w \in errCh,
         errCh' = errCh \ {w}, worker' = worker
  PROVE  /\ Unheard' = Unheard \ {w}
         /\ Cardinality(Unheard') = Cardinality(Unheard) - 1
         /\ Cardinality(Unheard) >= 1
         /\ Cardinality(Unheard) - 1 = 0 <=> Unheard' = {}
<1>1. Unheard' = Unheard \ {w} /\ w \in Unheard
  BY DEF IOInv, IOTypeOK, Accounts, Unheard
<1>2. IsFiniteSet(Unheard) /\ Cardinality(Unheard) \in Nat
  BY UnheardFinite DEF IOInv
<1>3. IsFiniteSet(Unheard') /\ Cardinality(Unheard') = Cardinality(Unheard) - 1
  BY <1>1, <1>2, FS_RemoveElement
<1>4. Cardinality(Unheard') \in Nat
  BY <1>3, FS_CardinalityType
<1>5. Cardinality(Unheard') = 0 <=> Unheard' = {}
  BY <1>3, FS_EmptySet
<1> QED BY <1>1, <1>2, <1>3, <1>4, <1>5

LEMMA IOInitial == IOInit => IOInv
<1> SUFFICES ASSUME IOInit PROVE IOInv
  OBVIOUS
<1>1. Cardinality(Worker) \in Nat /\ Cardinality(Worker) > 0
  BY FS_CardinalityType, FS_EmptySet
<1>2. Unheard = Worker
  BY DEF IOInit, Unheard
<1> QED BY <1>1, <1>2 DEF IOInit, IOInv, IOTypeOK, Accounts

\* A step of a worker: the counters of Apply are its own, and the set they
\* count does not change.
LEMMA WorkerSteps ==
  ASSUME IOInv, NEW w \in Worker,
         NextRound(w) \/ RoundEnds(w) \/ WorkerFails(w) \/ WorkerStep(w)
  PROVE  IOInv'
<1> USE DEF IOInv, IOTypeOK, Goto
<1>1. IOTypeOK' /\ UNCHANGED <<ioMain, pending, left>>
  BY DEF NextRound, RoundEnds, WorkerFails, WorkerStep, OpenFile, SeeDone, RemoveFile, Send
<1>2. CASE ioMain = "exited"
  BY <1>1, <1>2 DEF Accounts
<1>3. CASE ioMain # "exited"
  <2>1. Unheard' = Unheard
    <3>1. CASE Send(w)
      BY <1>3, <3>1 DEF Send, Unheard, Accounts
    <3>2. CASE ~Send(w)
      BY <1>3, <3>2 DEF Unheard, Accounts, NextRound, RoundEnds, WorkerFails, WorkerStep,
                        OpenFile, SeeDone, RemoveFile
    <3> QED BY <3>1, <3>2
  <2>2. \A v \in Worker : worker'[v] # "gone"
    BY <1>3 DEF Accounts, NextRound, RoundEnds, WorkerFails, WorkerStep,
                OpenFile, SeeDone, RemoveFile, Send
  <2>3. \A v \in errCh' : worker'[v] = "sent"
    BY <1>3 DEF Accounts, NextRound, RoundEnds, WorkerFails, WorkerStep,
                OpenFile, SeeDone, RemoveFile, Send
  <2>4. \A v \in file' : worker'[v] \in {"check", "open", "busy", "return"}
    BY <1>3 DEF Accounts, NextRound, RoundEnds, WorkerFails, WorkerStep,
                OpenFile, SeeDone, RemoveFile, Send
  <2> QED BY <1>1, <1>3, <2>1, <2>2, <2>3, <2>4 DEF Accounts
<1> QED BY <1>2, <1>3

LEMMA IOInductive == IOInv /\ [IONext]_ioVars => IOInv'
<1> SUFFICES ASSUME IOInv, [IONext]_ioVars PROVE IOInv'
  OBVIOUS
<1> USE DEF IOInv
<1>0. Cardinality(Unheard) \in Nat /\ Cardinality(Unheard) <= Cardinality(Worker)
      /\ Cardinality(Worker) \in Nat
  BY UnheardFinite
<1>1. ASSUME NEW w \in Worker, ReceiveErr(w) PROVE IOInv'
  <2>1. /\ w \in errCh /\ errCh' = errCh \ {w} /\ worker' = worker
        /\ ioMain = "select" /\ pending' = pending - 1 /\ pending = Cardinality(Unheard)
        /\ UNCHANGED <<file, failed, left>>
    BY <1>1 DEF ReceiveErr, Accounts
  <2>2. /\ Cardinality(Unheard') = Cardinality(Unheard) - 1
        /\ Cardinality(Unheard) >= 1
    BY <2>1, Received, Zenon
  <2>3. pending' \in 0..Cardinality(Worker) /\ pending' = Cardinality(Unheard')
    BY <1>0, <2>1, <2>2
  <2>4. IOTypeOK'
    BY <1>1, <2>1, <2>3 DEF ReceiveErr, IOTypeOK
  <2>5. ioMain' \in {"select", "nil", "error"}
        /\ (ioMain' = "select" => pending' # 0) /\ (ioMain' = "nil" => pending' = 0)
    BY <1>1 DEF ReceiveErr
  <2>6. Accounts'
    BY <2>1, <2>3, <2>5 DEF Accounts
  <2> QED BY <2>4, <2>6
<1>2. CASE ReceiveDone
  <2>1. Unheard' = Unheard
    BY <1>2 DEF ReceiveDone, Unheard
  <2>2. left' + 1 = Cardinality(Unheard) /\ left' \in 0..Cardinality(Worker)
    BY <1>0, <1>2 DEF ReceiveDone, Accounts
  <2>3. IOTypeOK'
    BY <1>2, <2>2 DEF ReceiveDone, IOTypeOK
  <2> QED BY <1>2, <2>1, <2>2, <2>3 DEF ReceiveDone, Accounts
<1>3. ASSUME NEW w \in Worker, DrainOne(w) PROVE IOInv'
  <2>1. /\ w \in errCh /\ errCh' = errCh \ {w} /\ worker' = worker
        /\ ioMain = "drain" /\ ioMain' = "drain" /\ left' = left - 1 /\ left > 0
        /\ UNCHANGED <<ioCtx, file, failed, pending>>
    BY <1>3 DEF DrainOne
  <2>2. Cardinality(Unheard') = Cardinality(Unheard) - 1
    BY <2>1, Received, Zenon
  <2>3. left' + 1 = Cardinality(Unheard') /\ left' \in 0..Cardinality(Worker)
    BY <1>0, <2>1, <2>2 DEF Accounts, IOTypeOK
  <2>4. IOTypeOK'
    BY <2>1, <2>3 DEF IOTypeOK
  <2> QED BY <2>1, <2>3, <2>4 DEF Accounts
<1>4. CASE Drained
  <2>1. Unheard' = Unheard
    BY <1>4 DEF Drained, Unheard
  <2> QED BY <1>0, <1>4, <2>1 DEF Drained, Accounts, IOTypeOK
<1>5. CASE Exit
  BY <1>5 DEF Exit, Accounts, IOTypeOK
<1>6. CASE Timeout
  <2>1. Unheard' = Unheard
    BY <1>6 DEF Timeout, Unheard
  <2> QED BY <1>6, <2>1 DEF Timeout, Accounts, IOTypeOK
<1>7. CASE UNCHANGED ioVars
  <2>1. Unheard' = Unheard
    BY <1>7 DEF ioVars, Unheard
  <2> QED BY <1>7, <2>1 DEF ioVars, Accounts, IOTypeOK
<1> QED BY <1>1, <1>2, <1>3, <1>4, <1>5, <1>6, <1>7, WorkerSteps DEF IONext, IOMainStep

LEMMA IOInductively == IOSpec => []IOInv
BY IOInitial, IOInductive, PTL DEF IOSpec

\* The variables keep their types; in particular the counters of Apply never
\* go below zero, where the loop that drains would not be entered.
THEOREM IOTypeCorrect == IOSpec => []IOTypeOK
<1>1. IOInv => IOTypeOK
  BY DEF IOInv
<1> QED BY <1>1, IOInductively, PTL

\* Apply counts exactly the workers it has not heard of, and when it returns
\* nil at most one of them still has its file (disk.go, the loops over errCh).
THEOREM Accounted == IOSpec => []ResultsAccounted
<1>1. IOInv => ResultsAccounted
  <2> SUFFICES ASSUME IOInv PROVE ResultsAccounted
    OBVIOUS
  <2>1. ASSUME ioMain = "nil" PROVE Cardinality(file) <= 1
    <3>1. file \subseteq Unheard
      BY <2>1 DEF IOInv, IOTypeOK, Accounts, Unheard
    <3>2. IsFiniteSet(Unheard) /\ Cardinality(Unheard) \in Nat
      BY UnheardFinite DEF IOInv
    <3>3. IsFiniteSet(file) /\ Cardinality(file) <= Cardinality(Unheard)
      BY <3>1, <3>2, FS_Subset
    <3>4. Cardinality(file) \in Nat /\ Cardinality(Unheard) <= 1
      BY <2>1, <3>3, FS_CardinalityType DEF IOInv, Accounts
    <3> QED BY <3>2, <3>3, <3>4
  <2>2. ioMain = "select" =>
          pending = Cardinality({w \in Worker : worker[w] # "sent"} \cup errCh)
    BY DEF IOInv, Accounts, Unheard
  <2> QED BY <2>1, <2>2 DEF ResultsAccounted
<1> QED BY <1>1, IOInductively, PTL
=============================================================================
