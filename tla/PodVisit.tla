------------------------------ MODULE PodVisit ------------------------------
(***************************************************************************)
(* How k6 injects a fault in a set of pods (pkg/disruptors/controller.go): *)
(* PodController.Visit starts a goroutine per target, and each runs        *)
(* PodAgentVisitor.Visit, which attaches the agent container, execs the    *)
(* fault command in it and, when that fails, execs the cleanup command.    *)
(*                                                                         *)
(* Several virtual users may visit the same pods at the same time.  They   *)
(* share the agent container of a pod and the lock in it, which lets one   *)
(* agent process of the pod run (module FileLock has the details).         *)
(*                                                                         *)
(* Cancelling an exec closes its stream; the process behind it goes on.    *)
(* That is why the visitor execs the cleanup command, which signals        *)
(* whatever process holds the lock at that time.                           *)
(***************************************************************************)
EXTENDS Naturals

CONSTANTS
  VU,           \* virtual users, each with one call of an Inject method
  Pod,          \* the pods
  Targets,      \* [VU -> the targets of its call]
  Attached,     \* the pods that have the agent container from an earlier test
  FaultyCall    \* [VU -> calls of its visitors that may fail or time out]

\* Without targets Visit returns nil at once.
ASSUME VisitAssumption ==
  /\ Targets \in [VU -> (SUBSET Pod) \ {{}}]
  /\ Attached \subseteq Pod
  /\ FaultyCall \in [VU -> SUBSET {"get", "patch", "wait", "commands", "exec", "stream",
                                   "cleanup"}]

VARIABLES
  visit,     \* [VU -> state of PodController.Visit]
  ctx,       \* [VU -> "live" or "done"]: the context of the call
  visitor,   \* [VU -> [Pod -> next call of the goroutine, or its result]]
  why,       \* [VU -> [Pod -> the error of Exec]]
  container, \* [Pod -> state of the ephemeral container xk6-agent]
  agent      \* [VU -> [Pod -> the agent process this exec started]]

vars == <<visit, ctx, visitor, why, container, agent>>

Visitor == {"none", "get", "patch", "wait", "exec", "stream", "cleanup", "ok", "err",
            "taken"}
Process == {"none", "starting", "running", "signalled", "applied", "failed"}

TypeOK ==
  /\ visit \in [VU -> {"idle", "visiting", "ok", "error"}]
  /\ ctx \in [VU -> {"live", "done"}]
  /\ visitor \in [VU -> [Pod -> Visitor]]
  /\ why \in [VU -> [Pod -> {"none", "canceled", "failed"}]]
  /\ container \in [Pod -> {"absent", "starting", "running"}]
  /\ agent \in [VU -> [Pod -> Process]]

Init ==
  /\ visit = [v \in VU |-> "idle"]
  /\ ctx = [v \in VU |-> "live"]
  /\ visitor = [v \in VU |-> [p \in Pod |-> "none"]]
  /\ why = [v \in VU |-> [p \in Pod |-> "none"]]
  /\ container = [p \in Pod |-> IF p \in Attached THEN "running" ELSE "absent"]
  /\ agent = [v \in VU |-> [p \in Pod |-> "none"]]

-----------------------------------------------------------------------------
\* visitCtx: ends with the context of the call, and when Visit returns.
VisitDone(v) == ctx[v] = "done" \/ visit[v] \in {"ok", "error"}

\* The process holds the lock of its container.
Holds(v, p) == agent[v][p] \in {"running", "signalled"}

Moves(v, p, label) == visitor' = [visitor EXCEPT ![v][p] = label]

\* Exec returned an error: the cleanup command comes next.
ExecFails(v, p, error) ==
  /\ why' = [why EXCEPT ![v][p] = error]
  /\ Moves(v, p, "cleanup")

-----------------------------------------------------------------------------
\* PodController.Visit: one goroutine for each target.
BeginVisit(v) ==
  /\ visit[v] = "idle"
  /\ visit' = [visit EXCEPT ![v] = "visiting"]
  /\ visitor' = [visitor EXCEPT ![v] = [p \in Pod |-> IF p \in Targets[v] THEN "get" ELSE "none"]]
  /\ UNCHANGED <<ctx, why, container, agent>>

\* Mutant of ReceiveDone: the first goroutine that is done ends the visit.
ReceiveDoneFirst(v, p) ==
  /\ visit[v] = "visiting"
  /\ visitor[v][p] \in {"ok", "err"}
  /\ Moves(v, p, "taken")
  /\ visit' = [visit EXCEPT ![v] = IF visitor[v][p] = "err" THEN "error" ELSE "ok"]
  /\ UNCHANGED <<ctx, why, container, agent>>

\* Mutant of ReceiveDone: pending is compared before it is decremented.
ReceiveDoneLate(v, p) ==
  /\ visit[v] = "visiting"
  /\ visitor[v][p] \in {"ok", "err"}
  /\ Moves(v, p, "taken")
  /\ visit' = [visit EXCEPT ![v] = IF visitor[v][p] = "err" THEN "error" ELSE @]
  /\ UNCHANGED <<ctx, why, container, agent>>

\* case e := <-doneCh.  The first error is returned, which cancels visitCtx;
\* nil is returned when nothing is pending.
ReceiveDone(v, p) ==
  /\ visit[v] = "visiting"
  /\ visitor[v][p] \in {"ok", "err"}
  /\ Moves(v, p, "taken")
  /\ visit' = [visit EXCEPT ![v] =
                 IF visitor[v][p] = "err" THEN "error"
                 ELSE IF \A q \in Targets[v] \ {p} : visitor[v][q] = "taken" THEN "ok"
                 ELSE "visiting"]
  /\ UNCHANGED <<ctx, why, container, agent>>

\* case <-ctx.Done().
ReceiveCancel(v) ==
  /\ visit[v] = "visiting"
  /\ ctx[v] = "done"
  /\ visit' = [visit EXCEPT ![v] = "error"]
  /\ UNCHANGED <<ctx, visitor, why, container, agent>>

-----------------------------------------------------------------------------
\* AttachEphemeralContainer: Get.  A container that exists, running or not,
\* is taken as attached (IgnoreIfExists).
GetPod(v, p) ==
  /\ visitor[v][p] = "get"
  /\ \/ /\ VisitDone(v) \/ "get" \in FaultyCall[v]
        /\ Moves(v, p, "err")
     \/ /\ ~VisitDone(v)
        /\ Moves(v, p, IF container[p] = "absent" THEN "patch" ELSE "exec")
  /\ UNCHANGED <<visit, ctx, why, container, agent>>

\* AttachEphemeralContainer: Patch.  Another visitor may have patched the pod
\* after Get; the merge by container name then changes nothing.  A cancelled
\* request may have reached the API server.
PatchPod(v, p) ==
  /\ visitor[v][p] = "patch"
  /\ \/ /\ VisitDone(v) \/ "patch" \in FaultyCall[v]
        /\ Moves(v, p, "err")
     \/ /\ ~VisitDone(v)
        /\ Moves(v, p, "wait")
  /\ \/ container' = [container EXCEPT ![p] = IF @ = "absent" THEN "starting" ELSE @]
     \/ visitor'[v][p] = "err" /\ UNCHANGED container
  /\ UNCHANGED <<visit, ctx, why, agent>>

\* waitForCondition: the container runs, or the timeout expires.
WaitContainer(v, p) ==
  /\ visitor[v][p] = "wait"
  /\ \/ container[p] = "running" /\ Moves(v, p, "exec")
     \/ (VisitDone(v) \/ "wait" \in FaultyCall[v]) /\ Moves(v, p, "err")
  /\ UNCHANGED <<visit, ctx, why, container, agent>>

\* Commands cannot build the command line for this pod.
CommandFails(v, p) ==
  /\ visitor[v][p] = "exec"
  /\ "commands" \in FaultyCall[v]
  /\ Moves(v, p, "err")
  /\ UNCHANGED <<visit, ctx, why, container, agent>>

\* Exec of the fault command.
ExecCommand(v, p) ==
  /\ visitor[v][p] = "exec"
  /\ \/ /\ VisitDone(v)
        /\ ExecFails(v, p, "canceled")
        /\ UNCHANGED agent
     \/ /\ ~VisitDone(v)
        /\ container[p] # "running" \/ "exec" \in FaultyCall[v]
        /\ ExecFails(v, p, "failed")
        /\ UNCHANGED agent
     \/ /\ ~VisitDone(v)
        /\ container[p] = "running"
        /\ agent' = [agent EXCEPT ![v][p] = "starting"]
        /\ Moves(v, p, "stream")
        /\ UNCHANGED why
  /\ UNCHANGED <<visit, ctx, container>>

\* The stream of the exec ends: with the process, with the context, or
\* because the connection is lost while the process runs.
StreamEnds(v, p) ==
  /\ visitor[v][p] = "stream"
  /\ \/ agent[v][p] = "applied" /\ Moves(v, p, "ok") /\ UNCHANGED why
     \/ agent[v][p] = "failed" /\ ExecFails(v, p, "failed")
     \/ VisitDone(v) /\ ExecFails(v, p, "canceled")
     \/ "stream" \in FaultyCall[v] /\ ExecFails(v, p, "failed")
  /\ UNCHANGED <<visit, ctx, container, agent>>

\* The cleanup command: SIGTERM to the process in the lock file of pod p.
SignalHolder(p) ==
  agent' = [w \in VU |-> [agent[w] EXCEPT ![p] =
              IF @ = "running" /\ container[p] = "running" THEN "signalled" ELSE @]]

\* Mutant of Reported: the error of Exec itself is handed on.
ReportedRaw(v, p) == why[v][p]

\* The visitor's result: a cancelled exec is not reported.
Reported(v, p) == IF why[v][p] = "canceled" THEN "ok" ELSE "err"

\* Mutant of CleanUp: the cleanup command is given the context of the visit.
CleanUpCancelled(v, p) ==
  /\ visitor[v][p] = "cleanup"
  /\ Moves(v, p, Reported(v, p))
  /\ IF VisitDone(v) THEN UNCHANGED agent ELSE SignalHolder(p)
  /\ UNCHANGED <<visit, ctx, why, container>>

\* Exec of the cleanup command with a context of its own: SIGTERM to the
\* process that holds the lock, whoever started it.  Its errors are ignored.
CleanUp(v, p) ==
  /\ visitor[v][p] = "cleanup"
  /\ Moves(v, p, Reported(v, p))
  /\ \/ SignalHolder(p)
     \/ "cleanup" \in FaultyCall[v] /\ UNCHANGED agent
  /\ UNCHANGED <<visit, ctx, why, container>>

-----------------------------------------------------------------------------
\* Mutant of AgentStarts: an agent that finds the lock held ends the holder.
AgentStartsEvicts(v, p) ==
  /\ agent[v][p] = "starting"
  /\ agent' = [w \in VU |-> [agent[w] EXCEPT ![p] =
                 IF w = v THEN "running"
                 ELSE IF @ = "running" THEN "signalled" ELSE @]]
  /\ UNCHANGED <<visit, ctx, visitor, why, container>>

\* The agent process takes the lock, or finds it held and ends.
AgentStarts(v, p) ==
  /\ agent[v][p] = "starting"
  /\ agent' = [agent EXCEPT ![v][p] =
                 IF \E w \in VU : Holds(w, p) THEN "failed" ELSE "running"]
  /\ UNCHANGED <<visit, ctx, visitor, why, container>>

\* The agent applies its fault for the whole duration, or fails by itself.
AgentEnds(v, p) ==
  /\ agent[v][p] = "running"
  /\ \E end \in {"applied", "failed"} : agent' = [agent EXCEPT ![v][p] = end]
  /\ UNCHANGED <<visit, ctx, visitor, why, container>>

\* The signal ends the agent, or arrives after its fault was applied.
AgentStops(v, p) ==
  /\ agent[v][p] = "signalled"
  /\ \E end \in {"applied", "failed"} : agent' = [agent EXCEPT ![v][p] = end]
  /\ UNCHANGED <<visit, ctx, visitor, why, container>>

ContainerStarts(p) ==
  /\ container[p] = "starting"
  /\ container' = [container EXCEPT ![p] = "running"]
  /\ UNCHANGED <<visit, ctx, visitor, why, agent>>

\* k6 ends the iteration of the user.
CancelCall(v) ==
  /\ visit[v] = "visiting"
  /\ ctx[v] = "live"
  /\ ctx' = [ctx EXCEPT ![v] = "done"]
  /\ UNCHANGED <<visit, visitor, why, container, agent>>

-----------------------------------------------------------------------------
VisitorStep(v, p) ==
  \/ GetPod(v, p) \/ PatchPod(v, p) \/ WaitContainer(v, p) \/ CommandFails(v, p)
  \/ ExecCommand(v, p) \/ StreamEnds(v, p) \/ CleanUp(v, p)

Next ==
  \/ \E v \in VU : BeginVisit(v) \/ ReceiveCancel(v) \/ CancelCall(v)
  \/ \E v \in VU, p \in Pod :
       \/ ReceiveDone(v, p) \/ VisitorStep(v, p)
       \/ AgentStarts(v, p) \/ AgentEnds(v, p) \/ AgentStops(v, p)
  \/ \E p \in Pod : ContainerStarts(p)

Spec == Init /\ [][Next]_vars

\* Goroutines and agents are scheduled and containers start.  A fault's
\* duration (AgentEnds) is left out: only VisitEnds waits for it.
VisitStep(v) == ReceiveCancel(v) \/ \E p \in Pod : ReceiveDone(v, p)
FairSpec ==
  /\ Spec
  /\ \A v \in VU : WF_vars(VisitStep(v))
  /\ \A v \in VU : \A p \in Targets[v] :
       WF_vars(VisitorStep(v, p)) /\ WF_vars(AgentStarts(v, p) \/ AgentStops(v, p))
  /\ \A p \in Pod : WF_vars(ContainerStarts(p))

-----------------------------------------------------------------------------
\* Visit returns nil in a call that is not cancelled only if the fault was
\* applied in every target, although errors of cancelled execs are dropped
\* and a user's agents may be signalled by the visitors of another.
OkMeansApplied ==
  \A v \in VU :
    visit[v] = "ok" /\ ctx[v] = "live" => \A p \in Targets[v] : agent[v][p] = "applied"

\* The cleanup command never hits an agent whose visitor still follows it,
\* unless another user's visit is in the same pod.
AloneUndisturbed ==
  \A v \in VU, p \in Pod :
    agent[v][p] = "signalled" /\ visitor[v][p] = "stream" =>
      \E w \in VU \ {v} : visitor[w][p] \in {"ok", "err", "taken"} /\ why[w][p] # "none"

\* "we use a fresh context because the context used in exec may have been
\* cancelled": when Visit returns an error, the agents that run in the other
\* targets are stopped without waiting for their duration, if the cleanup
\* command itself works.
ErrorStopsAgents ==
  \A v \in VU : \A p \in Targets[v] :
    (/\ "cleanup" \notin FaultyCall[v]
     /\ visit[v] = "error" /\ visitor[v][p] = "stream" /\ agent[v][p] = "running")
      ~> (agent[v][p] # "running")

\* Every call of Visit returns, and no goroutine of it is left behind, if the
\* agents end their faults when the duration is over.
VisitEnds ==
  (\A v \in VU : \A p \in Targets[v] : WF_vars(AgentEnds(v, p))) =>
    \A v \in VU :
      (visit[v] = "visiting")
        ~> (visit[v] \in {"ok", "error"} /\ \A p \in Targets[v] : visitor[v][p] \in {"ok", "err", "taken"})

-----------------------------------------------------------------------------
\* The goroutine has put a nil error in doneCh.
ReportedNil(v, p) ==
  \/ visitor[v][p] = "ok"
  \/ visitor[v][p] = "taken" /\ visit[v] # "error"

\* A visitor is silent only about an applied fault or a cancelled visit, and
\* a visit is cancelled from outside or after the error of another visitor.
SilenceExplained ==
  \A v \in VU : \A p \in Targets[v] :
    /\ ReportedNil(v, p) => agent[v][p] = "applied" \/ why[v][p] = "canceled"
    /\ why[v][p] = "canceled" => ctx[v] = "done" \/ visit[v] = "error"
    /\ visit[v] = "ok" => visitor[v][p] = "taken"

\* A visitor only cleans up after an error of Exec, and a call that has not
\* begun has no goroutines.
CleanupsExplained ==
  \A v \in VU, p \in Pod :
    /\ visitor[v][p] = "cleanup" => why[v][p] # "none"
    /\ visit[v] = "idle" => visitor[v][p] = "none"

IInv == TypeOK /\ SilenceExplained /\ CleanupsExplained /\ AloneUndisturbed
=============================================================================
