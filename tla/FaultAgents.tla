---------------------------- MODULE FaultAgents ----------------------------
(***************************************************************************)
(* The commands of the agent that are not proxies of traffic: rules that   *)
(* drop, reject or redirect packets, traffic shaping, the DNS proxy, CPU   *)
(* and memory stress, disk fill, and stopping the kubelet.  Each alters    *)
(* the host, waits, and undoes what it altered, within the life of an      *)
(* agent (module Agent).  Agents of any of these commands run one after    *)
(* another in the same container or node.                                  *)
(***************************************************************************)
EXTENDS Integers

CONSTANTS MaxFaults,   \* bound: calls that fail
          MaxCrashes   \* bound: agents that are killed

ASSUME FaultAgentsAssumption == MaxFaults \in Nat /\ MaxCrashes \in Nat

VARIABLES
  main, apply, ctx, sig, lock,   \* the agent, as in module Agent
  cmd,       \* the subcommand the process runs
  step,      \* of Apply: "install", "wait" or "undo"
  host,      \* per item: copies of it on the host
  added,     \* the items in place that this process will undo
  lasted,    \* the duration of the disruption has elapsed
  outcome,   \* what Apply, and then the command, returns
  faults,    \* calls that failed so far
  crashes,   \* agents that were killed so far
  upset      \* history: this process had a failure or a signal

Life == INSTANCE Agent WITH Direct <- FALSE
LifeDirect == INSTANCE Agent WITH Direct <- TRUE

bounds == <<faults, crashes>>
work == <<cmd, step, host, added, lasted, outcome, bounds, upset>>
vars == <<main, apply, ctx, sig, lock, work>>

-----------------------------------------------------------------------------
(* The commands *)

\* These go through ApplyDisruption; the others call Apply themselves.
Disruptions == {"network-drop", "network-partition", "tcp-drop", "network-shape", "dns"}
DirectCommands == {"stress", "memory-stress", "disk-fill", "kubelet-kill"}
Command == Disruptions \cup DirectCommands

\* What a command alters, in this order.
First(c) ==
  CASE c = "network-drop"      -> {"drop"}
    [] c = "network-partition" -> {"drop-from"}
    [] c = "tcp-drop"          -> {"reject-marked"}
    [] c = "dns"               -> {"redirect-output"}
    [] c = "network-shape"     -> {"qdisc"}
    [] c = "disk-fill"         -> {"file"}
    [] c = "kubelet-kill"      -> {"kubelet-stopped"}
    [] OTHER                   -> {}
Second(c) ==
  CASE c = "network-partition" -> {"drop-to"}
    [] c = "tcp-drop"          -> {"queue"}
    [] c = "dns"               -> {"redirect-prerouting"}
    [] OTHER                   -> {}

Item == UNION {First(c) \cup Second(c) : c \in Command}

\* Items of which the host has one at most: the root qdisc and the unit.
Single == {"qdisc", "kubelet-stopped"}

\* What Apply returns when its duration elapses.  The network drop waits for a
\* timer and for a context with the same timeout, and either may win; the TCP
\* drop waits for the context only.
AtExpiry(c) ==
  CASE c = "network-drop" -> {"ok", "error"}
    [] c = "tcp-drop"     -> {"error"}
    [] OTHER              -> {"ok"}

\* What it returns when its context is cancelled, which happens only to
\* commands that go through ApplyDisruption.
AtCancel(c) ==
  IF c \in {"network-drop", "network-partition", "tcp-drop", "stress"} THEN "error" ELSE "ok"

\* The nfqueue may fail, the DNS server may end by itself, and the disk may be
\* full before the file is written.
Fragile == {"tcp-drop", "dns", "disk-fill"}

-----------------------------------------------------------------------------
(* Apply *)

\* Mutant of Put: a qdisc or a unit is counted like a rule.
PutCounted(i) == [host EXCEPT ![i] = @ + 1]

\* iptables -A appends a copy; "tc qdisc replace" and "systemctl stop" do not
\* mind one that is there.
Put(i) == [host EXCEPT ![i] = IF i \in Single THEN 1 ELSE @ + 1]
Take(i) == [host EXCEPT ![i] = IF i \in Single THEN 0 ELSE @ - 1]

CallFails ==
  /\ faults < MaxFaults
  /\ faults' = faults + 1
  /\ upset' = TRUE

\* The next item is installed, or cannot be: what was added is undone then.
Install ==
  \E i \in First(cmd) \cup Second(cmd) :
    /\ apply = "running" /\ step = "install"
    /\ i \notin added
    /\ i \in Second(cmd) => First(cmd) \subseteq added
    /\ \/ /\ host' = Put(i)
          /\ added' = added \cup {i}
          /\ UNCHANGED <<step, outcome, faults, upset>>
       \/ /\ CallFails
          /\ step' = "undo"
          /\ outcome' = "error"
          /\ UNCHANGED <<host, added>>
    /\ UNCHANGED <<main, apply, ctx, sig, lock, cmd, lasted, crashes>>

Installed ==
  /\ apply = "running" /\ step = "install"
  /\ First(cmd) \cup Second(cmd) \subseteq added
  /\ step' = "wait"
  /\ UNCHANGED <<main, apply, ctx, sig, lock, cmd, host, added, lasted, outcome,
                 bounds, upset>>

\* The wait ends: the duration elapses, the context is done, or the queue or
\* the server fails.
Expire ==
  /\ apply = "running" /\ step = "wait"
  /\ step' = "undo"
  /\ lasted' = TRUE
  /\ outcome' \in AtExpiry(cmd)
  /\ UNCHANGED <<main, apply, ctx, sig, lock, cmd, host, added, bounds, upset>>

\* Mutant of Cancelled: the wait does not heed the context.
CancelledDeaf == FALSE /\ UNCHANGED vars

Cancelled ==
  /\ apply = "running" /\ step = "wait" /\ ctx = "done"
  /\ step' = "undo"
  /\ outcome' = AtCancel(cmd)
  /\ UNCHANGED <<main, apply, ctx, sig, lock, cmd, host, added, lasted, bounds, upset>>

\* Mutant of Breaks: the error of the queue or the server is lost.
BreaksQuietly ==
  /\ apply = "running" /\ step = "wait" /\ cmd \in Fragile
  /\ CallFails
  /\ step' = "undo"
  /\ UNCHANGED <<main, apply, ctx, sig, lock, cmd, host, added, lasted, outcome,
                 crashes>>

Breaks ==
  /\ apply = "running" /\ step = "wait" /\ cmd \in Fragile
  /\ CallFails
  /\ step' = "undo"
  /\ outcome' = "error"
  /\ UNCHANGED <<main, apply, ctx, sig, lock, cmd, host, added, lasted, crashes>>

\* Mutant of UndoItem: RuleSet.Remove stops at the first error.
UndoItemStops ==
  \E i \in added :
    /\ apply = "running" /\ step = "undo"
    /\ \/ /\ host' = Take(i)
          /\ added' = added \ {i}
          /\ UNCHANGED <<outcome, faults, upset>>
       \/ /\ CallFails
          /\ added' = {}
          /\ UNCHANGED <<host, outcome>>
    /\ UNCHANGED <<main, apply, ctx, sig, lock, cmd, step, lasted, crashes>>

\* The deferred removal of one item, in the order they were added.  An error is
\* not retried and not reported, but for the start of the kubelet.
UndoItem ==
  \E i \in added :
    /\ apply = "running" /\ step = "undo"
    /\ i \in Second(cmd) => added \cap First(cmd) = {}
    /\ added' = added \ {i}
    /\ \/ /\ host' = Take(i)
          /\ UNCHANGED <<outcome, faults, upset>>
       \/ /\ CallFails
          /\ outcome' = IF cmd = "kubelet-kill" THEN "error" ELSE outcome
          /\ UNCHANGED host
    /\ UNCHANGED <<main, apply, ctx, sig, lock, cmd, step, lasted, crashes>>

ApplyReturns ==
  /\ step = "undo" /\ added = {}
  /\ Life!ApplyReturns
  /\ UNCHANGED work

-----------------------------------------------------------------------------
(* The agent *)

Start(c) ==
  /\ Life!Start
  /\ cmd' = c
  /\ step' = "install"
  /\ added' = {}
  /\ lasted' = FALSE
  /\ outcome' = "ok"
  /\ upset' = FALSE
  /\ UNCHANGED <<host, bounds>>

\* A flag or a value of the command is refused.
SetupFails ==
  /\ Life!SetupFails
  /\ outcome' = "error"
  /\ upset' = TRUE
  /\ UNCHANGED <<cmd, step, host, added, lasted, bounds>>

\* The kubelet command has no disruptor: it stops and starts the unit itself.
Launch ==
  /\ IF cmd \in DirectCommands THEN LifeDirect!Launch ELSE Life!Launch
  /\ UNCHANGED work

ReceiveResult == Life!ReceiveResult /\ UNCHANGED work

\* case s := <-a.sc
ReceiveSignal ==
  /\ Life!ReceiveSignal
  /\ upset' = TRUE
  /\ UNCHANGED <<cmd, step, host, added, lasted, outcome, bounds>>

\* What Apply returned is dropped: the command reports the signal.
Drain ==
  /\ Life!Drain
  /\ outcome' = "error"
  /\ UNCHANGED <<cmd, step, host, added, lasted, bounds, upset>>

Reset == Life!Reset /\ UNCHANGED work
ReleaseLock == Life!ReleaseLock /\ UNCHANGED work
ExitProcess == Life!ExitProcess /\ UNCHANGED work
Signal == Life!Signal /\ UNCHANGED work

\* The process is killed: what it has altered stays.
Crash ==
  /\ crashes < MaxCrashes
  /\ Life!Crash
  /\ crashes' = crashes + 1
  /\ added' = {}
  /\ UNCHANGED <<cmd, step, host, lasted, outcome, faults, upset>>

-----------------------------------------------------------------------------
(* The specification *)

Init ==
  /\ Life!AgentInit
  /\ cmd = "stress"
  /\ step = "install"
  /\ host = [i \in Item |-> 0]
  /\ added = {}
  /\ lasted = FALSE
  /\ outcome = "ok"
  /\ faults = 0 /\ crashes = 0
  /\ upset = FALSE

Work == Install \/ Installed \/ Cancelled \/ UndoItem \/ ApplyReturns
MainStep == SetupFails \/ Launch \/ ReceiveResult \/ ReceiveSignal \/ Drain
            \/ Reset \/ ReleaseLock \/ ExitProcess

Next ==
  \/ \E c \in Command : Start(c)
  \/ MainStep \/ Work \/ Expire \/ Breaks \/ Signal \/ Crash

Spec == Init /\ [][Next]_vars

\* Goroutines are scheduled and commands of the host return.  Nothing is assumed
\* of a duration: what is shown does not need it to elapse.
FairSpec == Spec /\ WF_vars(MainStep) /\ WF_vars(Work)

-----------------------------------------------------------------------------
(* Properties *)

\* Every variable has its type, and an item that is to be undone is there.
TypeOK ==
  /\ Life!AgentTypeOK
  /\ cmd \in Command
  /\ step \in {"install", "wait", "undo"}
  /\ host \in [Item -> Nat]
  /\ added \subseteq Item
  /\ lasted \in BOOLEAN /\ upset \in BOOLEAN
  /\ outcome \in {"ok", "error"}
  /\ faults \in Nat /\ crashes \in Nat
  /\ \A i \in Item : /\ i \in added => host[i] >= 1
                     /\ i \in Single => host[i] <= 1

\* The agents keep the promise of TemporaryFault: what is on the host beyond
\* the alterations of the present agent is what a failed removal or a killed
\* agent left, and an agent that gives up the lock has no alteration left.
Promise == INSTANCE TemporaryFault WITH
  held <- lock = "held",
  own <- added,
  left <- [i \in Item |-> host[i] - (IF i \in added THEN 1 ELSE 0)],
  broken <- faults + crashes > 0
KeepsPromise == Promise!PromiseSpec

\* What the command returns is what happened: without an error the disruption
\* was there for its duration; one that was there for its duration, with no
\* call that failed and no signal, is no error - but for the drop commands,
\* which return the expiry of their own context as an error.
OutcomeHonest ==
  main = "exit" =>
    /\ outcome = "ok" => lasted
    /\ lasted /\ ~upset /\ cmd \notin {"network-drop", "tcp-drop"} => outcome = "ok"

\* A signal that reaches an agent while its disruption is applied ends it, the
\* removal included, without waiting for the duration - unless the command is
\* one that does not read signals.
SignalEnds ==
  sig = 1 /\ apply = "running" /\ cmd \in Disruptions ~> added = {} /\ apply # "running"
=============================================================================
