------------------------------- MODULE Agent -------------------------------
(***************************************************************************)
(* The life of an agent process (pkg/agent/agent.go): Start, the command   *)
(* that applies one disruption, Stop.  Agents run one after another in the *)
(* container; how they contend for the lock is module FileLock.            *)
(*                                                                         *)
(* A disruption is any implementation of Disruptor.Apply: here it runs for *)
(* as long as it likes, but returns once its context is cancelled.  It is  *)
(* also the abstract specification that ProtocolAgent implements.          *)
(*                                                                         *)
(* Commands that go through ApplyDisruption wait on the signal channel.    *)
(* Stress, memory, disk, I/O and kubelet commands call Apply themselves    *)
(* (Direct) and never read that channel.                                   *)
(***************************************************************************)
EXTENDS Naturals

CONSTANT Direct      \* the command calls Apply without ApplyDisruption

ASSUME DirectAssumption == Direct \in BOOLEAN

VARIABLES
  main,        \* where the main goroutine is
  apply,       \* the goroutine of Apply: "sending" waits for the receive from cc
  ctx,         \* the context given to Apply: "live" or "done"
  sig,         \* signals in the channel of Notify, which has room for one
  lock         \* the lock file: "free", "held", or "stale" after a crash

agentVars == <<main, apply, ctx, sig, lock>>

AgentTypeOK ==
  /\ main \in {"off", "ready", "select", "drain", "direct", "reset", "release",
               "exit"}
  /\ apply \in {"none", "running", "sending", "done"}
  /\ ctx \in {"live", "done"}
  /\ sig \in 0..1
  /\ lock \in {"free", "held", "stale"}

AgentInit ==
  /\ main = "off"
  /\ apply = "none"
  /\ ctx = "live"
  /\ sig = 0
  /\ lock = "free"

-----------------------------------------------------------------------------
\* Start: Notify, then a successful Acquire, which takes over a stale lock.
Start ==
  /\ main = "off"
  /\ main' = "ready"
  /\ lock' = "held"
  /\ sig' = 0
  /\ UNCHANGED <<apply, ctx>>

\* The profiler, the listener or the proxy of the command cannot be created.
SetupFails ==
  /\ main = "ready"
  /\ main' = "reset"
  /\ UNCHANGED <<apply, ctx, sig, lock>>

\* The command calls ApplyDisruption, or Apply itself.
Launch ==
  /\ main = "ready"
  /\ main' = IF Direct THEN "direct" ELSE "select"
  /\ apply' = "running"
  /\ UNCHANGED <<ctx, sig, lock>>

\* Apply returns its error to the goroutine, which blocks on the channel cc.
ApplyReturns ==
  /\ apply = "running"
  /\ apply' = "sending"
  /\ UNCHANGED <<main, ctx, sig, lock>>

\* case err := <-cc.  The deferred receive then sees cc closed.
ReceiveResult ==
  /\ main \in {"select", "direct"}
  /\ apply = "sending"
  /\ apply' = "done"
  /\ main' = "reset"
  /\ UNCHANGED <<ctx, sig, lock>>

\* Mutant of ReceiveSignal: the deferred cancel is missing.
ReceiveSignalNoCancel ==
  /\ main = "select"
  /\ sig = 1
  /\ sig' = 0
  /\ main' = "drain"
  /\ UNCHANGED <<apply, ctx, lock>>

\* Mutant of ReceiveSignal: the deferred receive from cc is missing.
ReceiveSignalNoWait ==
  /\ main = "select"
  /\ sig = 1
  /\ sig' = 0
  /\ ctx' = "done"
  /\ main' = "reset"
  /\ UNCHANGED <<apply, lock>>

\* case s := <-a.sc, and the deferred cancel.
ReceiveSignal ==
  /\ main = "select"
  /\ sig = 1
  /\ sig' = 0
  /\ ctx' = "done"
  /\ main' = "drain"
  /\ UNCHANGED <<apply, lock>>

\* The deferred <-cc.
Drain ==
  /\ main = "drain"
  /\ apply = "sending"
  /\ apply' = "done"
  /\ main' = "reset"
  /\ UNCHANGED <<ctx, sig, lock>>

\* Stop: Signal().Reset() restores the default action of the signals.
Reset ==
  /\ main = "reset"
  /\ main' = "release"
  /\ UNCHANGED <<apply, ctx, sig, lock>>

\* Stop: Lock().Release().
ReleaseLock ==
  /\ main = "release"
  /\ main' = "exit"
  /\ lock' = "free"
  /\ UNCHANGED <<apply, ctx, sig>>

\* The command returns and the process ends, with all its goroutines.
ExitProcess ==
  /\ main = "exit"
  /\ main' = "off"
  /\ apply' = "none"
  /\ ctx' = "live"
  /\ UNCHANGED <<sig, lock>>

-----------------------------------------------------------------------------
\* The cleanup command, or the container runtime, signals the agent.  The
\* channel drops a second signal.
Signal ==
  /\ main \notin {"off", "release", "exit"}
  /\ sig' = 1
  /\ UNCHANGED <<main, apply, ctx, lock>>

\* SIGKILL, an OOM kill, or a signal after Reset.
Crash ==
  /\ main # "off"
  /\ main' = "off"
  /\ apply' = "none"
  /\ ctx' = "live"
  /\ lock' = IF lock = "held" THEN "stale" ELSE lock
  /\ UNCHANGED sig

-----------------------------------------------------------------------------
\* The steps of the main goroutine that nothing but Apply can hold up.
MainStep ==
  \/ SetupFails \/ Launch \/ ReceiveResult \/ ReceiveSignal \/ Drain
  \/ Reset \/ ReleaseLock \/ ExitProcess

AgentNext == Start \/ MainStep \/ ApplyReturns \/ Signal \/ Crash

AgentSpec == AgentInit /\ [][AgentNext]_agentVars

\* Goroutines are scheduled, and Apply heeds its context.  Nothing is assumed
\* about a duration: what is shown does not need it to elapse.
PromptSpec ==
  /\ AgentSpec
  /\ WF_agentVars(MainStep)
  /\ WF_agentVars(ctx = "done" /\ ApplyReturns)

-----------------------------------------------------------------------------
\* Nothing is injected outside the lock: while Apply runs, its effects and
\* their removal included, no other agent can start in the container.
AppliedUnderLock == apply \in {"running", "sending"} => lock = "held"

\* "stops any ongoing fault injection" (the cleanup command): a signal that
\* reaches an agent while it applies a disruption ends that agent without
\* waiting for the duration of the disruption.
SignalStops == (sig = 1 /\ apply = "running") ~> (apply # "running")
=============================================================================
