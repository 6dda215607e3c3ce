------------------------------ MODULE IOStress ------------------------------
(***************************************************************************)
(* IOStressor.Apply (pkg/agent/stressors/disk.go) and the end of the agent *)
(* that runs it: a number of workers, each writing and reading back a file *)
(* of its own until the duration is over, and a main goroutine that        *)
(* collects their results from a buffered channel.                         *)
(*                                                                         *)
(* What a worker writes and reads is left out: it has its file or not, and *)
(* it notices the end of the context between two blocks.  When Apply has   *)
(* returned the process exits, and the workers that still run are gone.    *)
(***************************************************************************)
EXTENDS Naturals, FiniteSets

CONSTANT Worker

ASSUME WorkerAssumption == Worker # {} /\ IsFiniteSet(Worker)

VARIABLES
  ioCtx,      \* the context with the duration as its timeout: "live" or "done"
  worker,   \* [Worker -> where it is]
  file,     \* workers whose file is on the disk
  errCh,    \* results in the channel: workers that have sent
  failed,   \* workers whose result is an error
  ioMain,     \* the goroutine of Apply: what it does, or what it returned
  pending,  \* its counter
  left      \* results the drain loop has yet to receive

ioVars == <<ioCtx, worker, file, errCh, failed, ioMain, pending, left>>

IOTypeOK ==
  /\ ioCtx \in {"live", "done"}
  /\ worker \in [Worker -> {"check", "open", "busy", "return", "send", "sent", "gone"}]
  /\ file \subseteq Worker
  /\ errCh \subseteq Worker
  /\ failed \subseteq Worker
  /\ ioMain \in {"select", "drain", "nil", "error", "exited"}
  /\ pending \in 0..Cardinality(Worker)
  /\ left \in 0..Cardinality(Worker)

IOInit ==
  /\ ioCtx = "live"
  /\ worker = [w \in Worker |-> "check"]
  /\ file = {}
  /\ errCh = {}
  /\ failed = {}
  /\ ioMain = "select"
  /\ pending = Cardinality(Worker)
  /\ left = 0

-----------------------------------------------------------------------------
Goto(w, label) == worker' = [worker EXCEPT ![w] = label]

\* The top of a worker's loop.
NextRound(w) ==
  /\ worker[w] = "check"
  /\ ioCtx = "live"
  /\ Goto(w, "open")
  /\ UNCHANGED <<ioCtx, file, errCh, failed, ioMain, pending, left>>

\* os.OpenFile, which creates the file in the first round.
OpenFile(w) ==
  /\ worker[w] = "open"
  /\ file' = file \cup {w}
  /\ Goto(w, "busy")
  /\ UNCHANGED <<ioCtx, errCh, failed, ioMain, pending, left>>

\* The file has been written and read back.
RoundEnds(w) ==
  /\ worker[w] = "busy"
  /\ Goto(w, "check")
  /\ UNCHANGED <<ioCtx, file, errCh, failed, ioMain, pending, left>>

\* A worker notices that the context is done.
SeeDone(w) ==
  /\ worker[w] \in {"check", "busy"}
  /\ ioCtx = "done"
  /\ Goto(w, "return")
  /\ UNCHANGED <<ioCtx, file, errCh, failed, ioMain, pending, left>>

\* Opening, writing or syncing the file fails.
WorkerFails(w) ==
  /\ worker[w] \in {"open", "busy"}
  /\ failed' = failed \cup {w}
  /\ Goto(w, "return")
  /\ UNCHANGED <<ioCtx, file, errCh, ioMain, pending, left>>

\* The deferred os.Remove.
RemoveFile(w) ==
  /\ worker[w] = "return"
  /\ file' = file \ {w}
  /\ Goto(w, "send")
  /\ UNCHANGED <<ioCtx, errCh, failed, ioMain, pending, left>>

\* errCh <- ..., which never blocks: there is room for every worker.
Send(w) ==
  /\ worker[w] = "send"
  /\ errCh' = errCh \cup {w}
  /\ Goto(w, "sent")
  /\ UNCHANGED <<ioCtx, file, failed, ioMain, pending, left>>

-----------------------------------------------------------------------------
\* Mutant of ReceiveErr: only a result without an error is counted, and
\* an error does not end the loop.
ReceiveErrSkips(w) ==
  /\ ioMain = "select"
  /\ w \in errCh
  /\ errCh' = errCh \ {w}
  /\ pending' = IF w \in failed THEN pending ELSE pending - 1
  /\ ioMain' = IF pending' = 0 THEN "nil" ELSE "select"
  /\ ioCtx' = IF ioMain' = "select" THEN ioCtx ELSE "done"
  /\ UNCHANGED <<worker, file, failed, left>>

\* case err := <-errCh.  An error is returned at once, a cancel deferred.
ReceiveErr(w) ==
  /\ ioMain = "select"
  /\ w \in errCh
  /\ errCh' = errCh \ {w}
  /\ pending' = pending - 1
  /\ ioMain' = IF w \in failed THEN "error" ELSE IF pending' = 0 THEN "nil" ELSE "select"
  /\ ioCtx' = IF ioMain' = "select" THEN ioCtx ELSE "done"
  /\ UNCHANGED <<worker, file, failed, left>>

\* Mutant of ReceiveDone: one result too many is waited for.
ReceiveDoneMore ==
  /\ ioMain = "select"
  /\ ioCtx = "done"
  /\ ioMain' = "drain"
  /\ left' = pending + 1
  /\ UNCHANGED <<ioCtx, worker, file, errCh, failed, pending>>

\* case <-ctx.Done(), and the range of the loop that drains.
ReceiveDone ==
  /\ ioMain = "select"
  /\ ioCtx = "done"
  /\ ioMain' = "drain"
  /\ left' = pending - 1
  /\ UNCHANGED <<ioCtx, worker, file, errCh, failed, pending>>

\* <-errCh in the drain loop: the result is dropped.
DrainOne(w) ==
  /\ ioMain = "drain"
  /\ left > 0
  /\ w \in errCh
  /\ errCh' = errCh \ {w}
  /\ left' = left - 1
  /\ UNCHANGED <<ioCtx, worker, file, failed, ioMain, pending>>

Drained ==
  /\ ioMain = "drain"
  /\ left = 0
  /\ ioMain' = "nil"
  /\ UNCHANGED <<ioCtx, worker, file, errCh, failed, pending, left>>

\* The command returns, the agent stops, the process exits.
Exit ==
  /\ ioMain \in {"nil", "error"}
  /\ ioMain' = "exited"
  /\ worker' = [w \in Worker |-> "gone"]
  /\ UNCHANGED <<ioCtx, file, errCh, failed, pending, left>>

\* The duration is over.  Nothing else ends the context: the command calls
\* Apply itself, with a context that no signal cancels.
Timeout ==
  /\ ioCtx = "live"
  /\ ioMain = "select"
  /\ ioCtx' = "done"
  /\ UNCHANGED <<worker, file, errCh, failed, ioMain, pending, left>>

-----------------------------------------------------------------------------
WorkerStep(w) == OpenFile(w) \/ SeeDone(w) \/ RemoveFile(w) \/ Send(w)

IOMainStep ==
  \/ \E w \in Worker : ReceiveErr(w) \/ DrainOne(w)
  \/ ReceiveDone \/ Drained \/ Exit

IONext ==
  \/ IOMainStep \/ Timeout
  \/ \E w \in Worker : NextRound(w) \/ RoundEnds(w) \/ WorkerFails(w) \/ WorkerStep(w)

IOSpec == IOInit /\ [][IONext]_ioVars

\* Goroutines are scheduled and the timeout expires; a worker that goes round
\* its loop checks the context in every round.
IOFairSpec ==
  /\ IOSpec
  /\ WF_ioVars(IOMainStep)
  /\ WF_ioVars(Timeout)
  /\ \A w \in Worker : SF_ioVars(WorkerStep(w))

-----------------------------------------------------------------------------
\* Apply returns: the results it waits for are never more than the workers
\* can send.
ApplyEnds == <>(ioMain = "exited")

\* The counter, the channel and the workers agree: what Apply has still to
\* hear of is what is in the channel or has not been sent; and so a run that
\* ended without an error leaves at most one file behind, however many
\* workers there are.
ResultsAccounted ==
  /\ ioMain = "select" =>
       pending = Cardinality({w \in Worker : worker[w] # "sent"} \cup errCh)
  /\ ioMain = "nil" => Cardinality(file) <= 1
=============================================================================
