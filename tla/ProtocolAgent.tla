--------------------------- MODULE ProtocolAgent ---------------------------
(***************************************************************************)
(* The agent of the protocol faults (HTTP, gRPC, reset-peer): Apply of     *)
(* pkg/agent/protocol/protocol.go, which runs a proxy and redirects the    *)
(* traffic of the target to it with iptables (redirector.go, iptables.go). *)
(*                                                                         *)
(* Three goroutines share the work: the main one (module Agent), the one   *)
(* of Apply (step) and the one that serves the proxy (proxy).  The rules   *)
(* in the kernel outlive the process, so a later agent meets what an       *)
(* earlier one left.  Successive agents use the same ports.                *)
(*                                                                         *)
(* An iptables call that fails changes nothing.  It also fails without a   *)
(* fault when the rule it should delete does not exist.                    *)
(***************************************************************************)
EXTENDS Agent, Naturals

CONSTANTS
  MaxFaults,     \* iptables calls that fail
  MaxCrashes,    \* agents that die without cleaning up
  MaxInflight    \* requests inside the proxy at a time

ASSUME BoundsAssumption ==
  /\ MaxFaults \in Nat
  /\ MaxCrashes \in Nat
  /\ MaxInflight \in Nat

VARIABLES
  step,       \* next call of Apply, "none" outside it
  idx,        \* next element of Redirector.rules()
  kernel,     \* copies of each redirector rule in the kernel
  reject,     \* copies of resetProxyRule in the kernel
  proxy,      \* listener of the proxy: "bound" before it is served
  inflight,   \* requests in the proxy
  served,     \* MetricRequests of this proxy, 1 for any number above 0
  result,     \* what Apply is about to return
  faults, crashes

protocolVars == <<step, idx, kernel, reject, proxy, inflight, served, result>>
vars == <<agentVars, protocolVars, faults, crashes>>

\* rules(): 1 and 2 redirect new local and external connections to the
\* proxy, 3 and 4 reset the connections made before.
Rules == 1..4
Redirects == {1, 2}

Step == {"none", "spawn", "unreject", "add", "wait", "remove", "reject",
         "shutdown", "drain"}

Result == {"none", "shortDuration", "redirectError", "proxyError",
           "noRequests", "ok", "cancelled"}

TypeOK ==
  /\ AgentTypeOK
  /\ step \in Step
  /\ idx \in Rules
  /\ kernel \in [Rules -> Nat]
  /\ reject \in Nat
  /\ proxy \in {"none", "bound", "open", "failed", "closed"}
  /\ inflight \in 0..MaxInflight
  /\ served \in 0..1
  /\ result \in Result
  /\ faults \in 0..MaxFaults
  /\ crashes \in 0..MaxCrashes

Init ==
  /\ AgentInit
  /\ step = "none"
  /\ idx = 1
  /\ kernel = [r \in Rules |-> 0]
  /\ reject = 0
  /\ proxy = "none"
  /\ inflight = 0
  /\ served = 0
  /\ result = "none"
  /\ faults = 0
  /\ crashes = 0

-----------------------------------------------------------------------------
\* One failed iptables call.
Fault == faults < MaxFaults /\ faults' = faults + 1

NoFault == UNCHANGED faults

\* Mutant of Removed: a rule that does not exist is deleted all the same.
RemovedUnchecked(n) == n - 1

\* Remove on a count of copies: an error, and no change, when there is none.
Removed(n) == IF n = 0 THEN 0 ELSE n - 1

\* What Apply's goroutine leaves alone in every step but its last.
Local == UNCHANGED <<agentVars, crashes>>

-----------------------------------------------------------------------------
\* A command builds its listener and proxy, then calls ApplyDisruption.
LaunchProtocol ==
  /\ Launch
  /\ step' = "spawn"
  /\ idx' = 1
  /\ proxy' = "bound"
  /\ served' = 0
  /\ result' = "none"
  /\ UNCHANGED <<kernel, reject, inflight, faults, crashes>>

\* The check of the duration, and the goroutine of proxy.Start().  A duration
\* that is too short returns before anything is deferred.
Spawn ==
  /\ step = "spawn"
  /\ \/ step' = "unreject" /\ proxy' = "open" /\ UNCHANGED <<result, agentVars>>
     \/ step' = "none" /\ result' = "shortDuration" /\ ApplyReturns /\ UNCHANGED proxy
  /\ UNCHANGED <<idx, kernel, reject, inflight, served, faults, crashes>>

\* Redirector.Start: the error of removing the old reset rule is ignored.
Unreject ==
  /\ step = "unreject"
  /\ \/ reject' = Removed(reject) /\ NoFault
     \/ Fault /\ UNCHANGED reject
  /\ step' = "add"
  /\ Local
  /\ UNCHANGED <<idx, kernel, proxy, inflight, served, result>>

\* Redirector.Start: the first error ends it, and Apply returns before the
\* deferred redirector.Stop is registered.
AddRule ==
  /\ step = "add"
  /\ \/ /\ kernel' = [kernel EXCEPT ![idx] = @ + 1]
        /\ idx' = IF idx = 4 THEN 1 ELSE idx + 1
        /\ step' = IF idx = 4 THEN "wait" ELSE "add"
        /\ NoFault
        /\ UNCHANGED result
     \/ /\ Fault
        /\ result' = "redirectError"
        /\ step' = "shutdown"
        /\ UNCHANGED <<kernel, idx>>
  /\ Local
  /\ UNCHANGED <<reject, proxy, inflight, served>>

\* Mutant of EndWait: proxy.Stop runs before redirector.Stop.
EndWaitProxyFirst(res) ==
  /\ step = "wait"
  /\ result' = res
  /\ step' = "remove"
  /\ proxy' = "closed"
  /\ NoFault
  /\ Local
  /\ UNCHANGED <<idx, kernel, reject, inflight, served>>

\* Mutant of EndWait: Apply ends the context of its caller.
EndWaitCancels(res) ==
  /\ step = "wait"
  /\ result' = res
  /\ step' = "remove"
  /\ ctx' = "done"
  /\ NoFault
  /\ UNCHANGED <<main, apply, sig, lock, crashes>>
  /\ UNCHANGED <<idx, kernel, reject, proxy, inflight, served>>

\* The select of Apply takes one of its cases.
EndWait(res) ==
  /\ step = "wait"
  /\ result' = res
  /\ step' = "remove"
  /\ NoFault
  /\ Local
  /\ UNCHANGED <<idx, kernel, reject, proxy, inflight, served>>

\* Mutant of WaitProxy: the error of proxy.Start is not received.
WaitProxyDeaf == FALSE /\ UNCHANGED vars

\* case err := <-wc.  proxy.Start returns nil only after proxy.Stop.
WaitProxy == proxy = "failed" /\ EndWait("proxyError")

\* case <-time.After(duration).
WaitTimer == EndWait(IF served = 0 THEN "noRequests" ELSE "ok")

\* case <-ctx.Done().
WaitContext == ctx = "done" /\ EndWait("cancelled")

\* Mutant of RemoveRule: the loop stops before the last rule.
RemoveRuleShort ==
  /\ step = "remove"
  /\ \/ kernel' = [kernel EXCEPT ![idx] = Removed(@)] /\ NoFault
     \/ Fault /\ UNCHANGED kernel
  /\ idx' = IF idx = 3 THEN 1 ELSE idx + 1
  /\ step' = IF idx = 3 THEN "reject" ELSE "remove"
  /\ Local
  /\ UNCHANGED <<reject, proxy, inflight, served, result>>

\* Redirector.Stop: goes on to the next rule after an error.
RemoveRule ==
  /\ step = "remove"
  /\ \/ kernel' = [kernel EXCEPT ![idx] = Removed(@)] /\ NoFault
     \/ Fault /\ UNCHANGED kernel
  /\ idx' = IF idx = 4 THEN 1 ELSE idx + 1
  /\ step' = IF idx = 4 THEN "reject" ELSE "remove"
  /\ Local
  /\ UNCHANGED <<reject, proxy, inflight, served, result>>

\* Redirector.Stop: the reset rule that kills leftover connections.
AddReject ==
  /\ step = "reject"
  /\ \/ reject' = reject + 1 /\ NoFault
     \/ Fault /\ UNCHANGED reject
  /\ step' = "shutdown"
  /\ Local
  /\ UNCHANGED <<idx, kernel, proxy, inflight, served, result>>

\* proxy.Stop closes the listener...
Shutdown ==
  /\ step = "shutdown"
  /\ proxy' = "closed"
  /\ step' = "drain"
  /\ NoFault
  /\ Local
  /\ UNCHANGED <<idx, kernel, reject, inflight, served, result>>

\* Mutant of DrainProxy: the proxy is closed, not shut down.
DrainProxyForce ==
  /\ step = "drain"
  /\ step' = "none"
  /\ ApplyReturns
  /\ UNCHANGED <<idx, kernel, reject, proxy, inflight, served, result, faults, crashes>>

\* ... and waits for the requests in it (Shutdown of net/http with a context
\* that is never done, GracefulStop of gRPC).  Apply returns.
DrainProxy ==
  /\ step = "drain"
  /\ inflight = 0
  /\ step' = "none"
  /\ ApplyReturns
  /\ UNCHANGED <<idx, kernel, reject, proxy, inflight, served, result, faults, crashes>>

ApplyStep ==
  \/ Unreject \/ AddRule \/ WaitProxy \/ WaitContext
  \/ RemoveRule \/ AddReject \/ Shutdown \/ DrainProxy

-----------------------------------------------------------------------------
\* A new connection to the target port goes to the proxy and is not reset.
Redirected(r) == r \in Redirects /\ kernel[r] > 0 /\ reject = 0 /\ proxy = "open"

\* A local or external client sends a request to the target; the proxy
\* counts it and holds it until the upstream has answered.
Request(r) ==
  /\ Redirected(r)
  /\ inflight < MaxInflight
  /\ inflight' = inflight + 1
  /\ served' = 1
  /\ UNCHANGED <<agentVars, step, idx, kernel, reject, proxy, result, faults, crashes>>

Response ==
  /\ inflight > 0
  /\ inflight' = inflight - 1
  /\ UNCHANGED <<agentVars, step, idx, kernel, reject, proxy, served, result,
                 faults, crashes>>

\* Serve of the proxy ends with an error of the listener.
ProxyFails ==
  /\ proxy = "open"
  /\ proxy' = "failed"
  /\ UNCHANGED <<agentVars, step, idx, kernel, reject, inflight, served, result,
                 faults, crashes>>

\* The main goroutine takes a step of its own.
MainOnly ==
  /\ Start \/ SetupFails \/ ReceiveResult \/ ReceiveSignal \/ Drain \/ Reset
     \/ ReleaseLock \/ Signal
  /\ UNCHANGED <<protocolVars, faults, crashes>>

\* The process ends, and with it its sockets; the kernel keeps the rules.
Exit ==
  /\ step' = "none"
  /\ idx' = 1
  /\ proxy' = "none"
  /\ inflight' = 0
  /\ UNCHANGED <<kernel, reject, served, result, faults>>

StopProtocol == ExitProcess /\ Exit /\ UNCHANGED crashes

CrashProtocol ==
  /\ crashes < MaxCrashes
  /\ Crash
  /\ Exit
  /\ crashes' = crashes + 1

-----------------------------------------------------------------------------
Next ==
  \/ MainOnly \/ LaunchProtocol \/ StopProtocol \/ CrashProtocol
  \/ Spawn \/ ApplyStep \/ WaitTimer
  \/ ProxyFails \/ Response
  \/ \E r \in Rules : Request(r)

Spec == Init /\ [][Next]_vars

\* Goroutines are scheduled; the upstream answers.  No fairness for the timer
\* (what is shown does not wait for it), nor for faults, signals and requests.
FairSpec ==
  /\ Spec
  /\ WF_vars(MainOnly /\ ~(Start \/ Signal))
  /\ WF_vars(LaunchProtocol) /\ WF_vars(StopProtocol)
  /\ WF_vars(Spawn) /\ WF_vars(ApplyStep)
  /\ WF_vars(Response)

-----------------------------------------------------------------------------
\* This run of Apply has a copy of rule r in the kernel that it still means
\* to remove, or is about to leave behind after a failed Start.
Installed(r) ==
  \/ step = "add" /\ r < idx
  \/ step = "wait"
  \/ step = "remove" /\ r >= idx

\* The redirections are a temporary fault: an agent alters the kernel only
\* under the lock, gives the lock up only when its redirector is stopped, and
\* a rule that stays behind is one whose removal failed, or that was in place
\* when an addition failed or the agent was killed.  (The rule that resets
\* leftover connections stays by design.)  (disruptor.Apply, Redirector.Start
\* and Stop under Agent.ApplyDisruption and Agent.Stop.)
Promise == INSTANCE TemporaryFault WITH
  Item <- Rules,
  held <- lock = "held",
  own <- {r \in Rules : Installed(r)},
  left <- [r \in Rules |-> kernel[r] - (IF Installed(r) THEN 1 ELSE 0)],
  broken <- faults + crashes > 0
KeepsPromise == Promise!LoosePromiseSpec

\* No execution of Start and Stop, however errors, crashes and later agents
\* mix, lets copies pile up: each failed call and each crash leaves at most
\* one copy of a rule behind, and at most one reset rule is there besides.
RulesAccounted ==
  /\ \A r \in Rules :
       kernel[r] <= faults + crashes + (IF Installed(r) THEN 1 ELSE 0)
  /\ reject <= faults + 1

\* Traffic is redirected only to a proxy that takes it: rules are in place
\* only while the listener is open, and never together with the rule that
\* resets traffic to the proxy, unless something failed.
NoBlackhole ==
  faults = 0 /\ crashes = 0 /\ proxy # "failed" =>
    \A r \in Redirects : kernel[r] > 0 => proxy = "open" /\ reject = 0

\* An agent that ends by itself has answered every request it accepted.
RequestsFinished == main \in {"reset", "release", "exit"} => inflight = 0

\* A proxy that dies does not hold the traffic of the target: Apply notices
\* and goes through its clean-up, though its duration has not elapsed.
ProxyFailureEnds == (proxy = "failed" /\ step = "wait") ~> step = "none"

-----------------------------------------------------------------------------
\* How the goroutines stand to each other: Apply's steps lie inside its run,
\* that run inside the wait of the main goroutine, and that inside the lock;
\* the proxy is open from its start until Shutdown.
Phases ==
  /\ main \notin {"off", "exit"} <=> lock = "held"
  /\ apply \in {"running", "sending"} => main \in {"select", "drain", "direct"}
  /\ step # "none" => apply = "running"
  /\ step \in {"spawn", "unreject", "wait"} => idx = 1
  /\ step \in {"none", "spawn"} => inflight = 0
  /\ proxy \in {"open", "failed"} <=>
       step \in {"unreject", "add", "wait", "remove", "reject", "shutdown"}
  /\ step \in {"add", "wait", "remove", "reject"} => reject <= faults

\* A rule that Apply still means to remove is there: nobody else removes it.
InPlace == \A r \in Rules : Installed(r) => kernel[r] >= 1

IInv == TypeOK /\ Phases /\ RulesAccounted /\ InPlace
=============================================================================
