----------------------------- MODULE FaultPath -----------------------------
(***************************************************************************)
(* Virtual users that inject faults from their scripts: construction of    *)
(* the JavaScript object, the call of a method, the metrics emitted around *)
(* the fault (api/metrics.go), and the fault on its way to the agents of   *)
(* the target pods.                                                        *)
(*                                                                         *)
(* Each sample is sent on the VU's channel by itself, and the samples of   *)
(* two VUs with the same tags meet in one time series.  A call that ends   *)
(* with an error returns while agents of other pods may still be running.  *)
(* The methods whose fault does not go through an agent in a pod are       *)
(* modelled elsewhere and end here in any way they can.                    *)
(***************************************************************************)
EXTENDS FaultCommand, FiniteSets

CONSTANTS
  VU,        \* the virtual users
  Setup,     \* those that run setup() or teardown(), where a VU has no state
  Pod,       \* the pods of the cluster
  MaxCalls,  \* bound: the calls of a script
  Cases      \* the runs, a sequence: a cluster [pods, ports, selector] and, for
             \* each VU, a script [kind, arg, calls]

ASSUME UsersAssumption == IsFiniteSet(VU) /\ Setup \subseteq VU
ASSUME MaxCallsAssumption == MaxCalls \in Nat

\* The objects a script can pass for a struct: exported values, and no
\* negative number for an unsigned field, which Go would wrap around.
Passable(fields, object) ==
  \A f \in DOMAIN object :
    /\ Exported(object[f])
    /\ f \in DOMAIN fields /\ fields[f] = "uint" /\ object[f].kind \in {"int", "float"}
         => object[f].value >= 0

\* The calls a script can make: of a method that the object has, with values
\* of any kind.
Callable(kind, c) ==
  \/ c.method = "cleanup"
  \/ /\ c.method \in DOMAIN Methods(kind)
     /\ c.args \in Nat
     /\ Exported(c.duration)
     /\ Passable(Methods(kind)[c.method].fields, c.fault)
     /\ Passable(Methods(kind)[c.method].options, c.options)
     /\ c.args < 3 => c.options = NoFields

ServicePorts == Seq([name : STRING, port : Int, targetPort : IntOrString])
PodPorts     == Seq([name : STRING, number : Int])

ASSUME CasesAssumption ==
  \A i \in DOMAIN Cases :
    /\ Cases[i].world.ports \in ServicePorts
    /\ \A p \in Pod : Cases[i].world.pods[p].ports \in PodPorts
    /\ \A v \in VU : LET s == Cases[i].script[v]
                     IN  /\ s.kind \in Kinds
                         /\ Len(s.calls) \in 0 .. MaxCalls
                         /\ \A k \in 1 .. Len(s.calls) : Callable(s.kind, s.calls[k])

VARIABLES
  world,     \* the cluster: its pods, and the ports and selector of the service
  script,    \* the script of each VU
  pc,        \* where each VU is
  call,      \* how many calls it has begun
  target,    \* the tags of the disruptor it has constructed
  request,   \* the converted arguments of the call in progress
  result,    \* how its calls ended, in order: [type, outcome], type "" if not tracked
  visit,     \* the visit of each pod by the call in progress
  agent,     \* what the agent in each pod applies, and for which call
  cancelled, \* the VUs whose context is done
  series,    \* the samples: per tags, the gauge and three counters
  lost,      \* tags of calls whose samples are not all sent
  met        \* tags two calls have used at the same time

vars == <<world, script, pc, call, target, request, result, visit, agent, cancelled,
          series, lost, met>>

None == [status |-> "none"]

(***************************************************************************)
(* Construction.  A constructor converts its argument, checks it, and      *)
(* gives the object a tracker with the tags of its target.  The argument   *)
(* holds the fields of the constructor's struct; labels are sets.          *)
(***************************************************************************)
Arg == [namespace |-> "", name |-> "", labels |-> {}, exclude |-> {}, zone |-> "", kind |-> ""]
Tags(disruptor, namespace, name, labels) ==
  [disruptor |-> disruptor, namespace |-> namespace, name |-> name, labels |-> labels]
Default(namespace) == IF namespace = "" THEN "default" ELSE namespace

NewPodDisruptor(a) ==
  [ok   |-> a.namespace # "" \/ a.labels # {} \/ a.exclude # {},
   tags |-> Tags("pod", Default(a.namespace), "", <<a.labels, a.exclude>>)]
NewServiceDisruptor(a) ==
  [ok   |-> a.name # "" /\ a.namespace # "",
   tags |-> Tags("service", a.namespace, a.name, <<>>)]
NewWorkloadDisruptor(a) ==
  [ok   |-> a.kind \in {"Deployment", "StatefulSet"} /\ (a.name # "") # (a.labels # {}),
   tags |-> Tags("workload", Default(a.namespace), a.name, <<a.kind, a.labels>>)]
NewNodeDisruptor(a) ==
  [ok   |-> IF a.zone # "" THEN a.name = "" /\ a.labels = {} ELSE (a.name # "") # (a.labels # {}),
   tags |-> Tags("node", a.namespace, a.name, <<a.zone, a.labels>>)]
NewWebhookDisruptor(a) ==
  [ok |-> a.kind \in {"Mutating", "Validating"} /\ a.name # "",
   tags |-> Tags("webhook", "", a.name, <<a.kind>>)]
NewNodePoolDisruptor(a) ==
  [ok |-> TRUE, tags |-> Tags("nodepool", a.namespace, "xk6-disruptor-filler", <<>>)]
NewVirtualServiceDisruptor(a) ==
  [ok |-> a.name # "", tags |-> Tags("virtualservice", a.namespace, a.name, <<>>)]
NewDestinationRuleDisruptor(a) ==
  [ok |-> a.name # "", tags |-> Tags("destinationrule", a.namespace, a.name, <<>>)]
NewPeerAuthenticationDisruptor(a) ==
  [ok |-> a.name # "", tags |-> Tags("peerauthentication", a.namespace, a.name, <<>>)]
NewAuthorizationPolicyDisruptor(a) ==
  [ok |-> a.name # "", tags |-> Tags("authorizationpolicy", a.namespace, a.name, <<>>)]

Constructed(kind, a) ==
  CASE kind = "pod"                 -> NewPodDisruptor(a)
    [] kind = "service"             -> NewServiceDisruptor(a)
    [] kind = "workload"            -> NewWorkloadDisruptor(a)
    [] kind = "node"                -> NewNodeDisruptor(a)
    [] kind = "webhook"             -> NewWebhookDisruptor(a)
    [] kind = "nodepool"            -> NewNodePoolDisruptor(a)
    [] kind = "virtualservice"      -> NewVirtualServiceDisruptor(a)
    [] kind = "destinationrule"     -> NewDestinationRuleDisruptor(a)
    [] kind = "peerauthentication"  -> NewPeerAuthenticationDisruptor(a)
    [] kind = "authorizationpolicy" -> NewAuthorizationPolicyDisruptor(a)

\* These look their target up, which may fail; the service, with its ports,
\* is kept as it was then.
LooksUp(kind) == kind \notin {"pod", "nodepool"}

(***************************************************************************)
(* Targets.                                                                *)
(***************************************************************************)
PodTargets(v) ==
  LET a == script[v].arg
  IN  {p \in Pod : /\ a.labels \subseteq world.pods[p].labels
                   /\ a.exclude \cap world.pods[p].labels = {}}
\* A service without a selector matches every pod of its namespace.
ServiceTargets == {p \in Pod : world.selector \subseteq world.pods[p].labels}
Targets(v) == IF script[v].kind = "service" THEN ServiceTargets ELSE PodTargets(v)

(***************************************************************************)
(* Metrics.                                                                *)
(***************************************************************************)
Series(v) == [target |-> target[v], type |-> request[v].type]
NoSamples == [active |-> 0, injected |-> 0, failed |-> 0, ended |-> 0]
Sampled(tags) == IF tags \in DOMAIN series THEN series[tags] ELSE NoSamples

\* PushIfNotDone drops the sample when the context of the object is done.
Push(v, sample) ==
  IF v \in cancelled
  THEN /\ lost' = lost \cup {Series(v)}
       /\ UNCHANGED series
  ELSE /\ series' = [s \in DOMAIN series \cup {Series(v)} |->
                        IF s = Series(v) THEN sample ELSE series[s]]
       /\ UNCHANGED lost

InTrack == {"active", "injected", "begin", "visit", "idle", "failed", "ended"}
Tracking(tags) == {w \in VU \ Setup : pc[w] \in InTrack /\ Series(w) = tags}

\* How the call of v ends, and how its last one did.
Outcome(v, o) == result' = [result EXCEPT ![v] = Append(@, [type |-> request[v].type, outcome |-> o])]
Failed(v) == result[v][Len(result[v])].outcome = "error"

Init ==
  /\ \E i \in DOMAIN Cases : world = Cases[i].world /\ script = Cases[i].script
  /\ pc = [v \in VU |-> "new"]
  /\ call = [v \in VU |-> 0]
  /\ target = [v \in VU |-> None]
  /\ request = [v \in VU |-> None]
  /\ result = [v \in VU |-> <<>>]
  /\ visit = [v \in VU |-> [p \in Pod |-> "none"]]
  /\ agent = [p \in Pod |-> None]
  /\ cancelled = {}
  /\ series = <<>>
  /\ lost = {}
  /\ met = {}

\* A constructor that fails ends the iteration, as does a failed call whose
\* exception the script does not catch.
New(v) ==
  /\ pc[v] = "new"
  /\ LET made == Constructed(script[v].kind, script[v].arg)
     IN  \/ /\ made.ok
            /\ pc' = [pc EXCEPT ![v] = "script"]
            /\ target' = [target EXCEPT ![v] = made.tags]
         \/ /\ ~made.ok \/ LooksUp(script[v].kind)
            /\ pc' = [pc EXCEPT ![v] = "end"]
            /\ UNCHANGED target
  /\ UNCHANGED <<world, script, call, request, result, visit, agent, cancelled, series, lost, met>>

\* The next method call, up to track: its arguments are converted and
\* checked, and Track starts when the VU has a state.  A script can catch an
\* exception; a panic ends the iteration.
Invoke(v) ==
  /\ pc[v] = "script"
  /\ call[v] < Len(script[v].calls)
  /\ script[v].calls[call[v] + 1].method # "cleanup"
  /\ call' = [call EXCEPT ![v] = @ + 1]
  /\ visit' = [visit EXCEPT ![v] = [p \in Pod |-> "none"]]
  /\ LET c      == script[v].calls[call'[v]]
         method == Methods(script[v].kind)[c.method]
     IN  \/ /\ "ok" \in CallOutcomes(method, c)
            /\ request' = [request EXCEPT ![v] = Request(method, c)]
            /\ pc' = [pc EXCEPT ![v] = IF v \in Setup THEN "begin" ELSE "active"]
            /\ LET tags == [target |-> target[v], type |-> method.type]
               IN  met' = IF v \notin Setup /\ Tracking(tags) # {} THEN met \cup {tags} ELSE met
            /\ UNCHANGED result
         \/ /\ "error" \in CallOutcomes(method, c)
            /\ result' = [result EXCEPT ![v] = Append(@, [type |-> "", outcome |-> "error"])]
            /\ pc' = [pc EXCEPT ![v] = "threw"]
            /\ UNCHANGED <<request, met>>
         \/ /\ "panic" \in CallOutcomes(method, c)
            /\ result' = [result EXCEPT ![v] = Append(@, [type |-> "", outcome |-> "panic"])]
            /\ pc' = [pc EXCEPT ![v] = "end"]
            /\ UNCHANGED <<request, met>>
  /\ UNCHANGED <<world, script, target, agent, cancelled, series, lost>>

\* cleanup() is not tracked.  It throws when the targets cannot be listed; in
\* each target the cleanup command signals the agent that runs there, whoever
\* started it, and its errors are ignored: such an agent ends by EndAgent.
CleanUp(v) ==
  /\ pc[v] = "script"
  /\ call[v] < Len(script[v].calls)
  /\ script[v].calls[call[v] + 1].method = "cleanup"
  /\ call' = [call EXCEPT ![v] = @ + 1]
  /\ visit' = [visit EXCEPT ![v] = [p \in Pod |-> "none"]]
  /\ \E o \in {"ok", "error"} :
       /\ result' = [result EXCEPT ![v] = Append(@, [type |-> "", outcome |-> o])]
       /\ pc' = [pc EXCEPT ![v] = IF o = "ok" THEN "script" ELSE "threw"]
  /\ UNCHANGED <<world, script, target, request, agent, cancelled, series, lost, met>>

\* The script goes on after an exception or leaves the iteration.
Threw(v) ==
  /\ pc[v] = "threw"
  /\ \E next \in {"script", "end"} : pc' = [pc EXCEPT ![v] = next]
  /\ UNCHANGED <<world, script, call, target, request, result, visit, agent, cancelled, series,
                 lost, met>>

PushActive(v) ==
  /\ pc[v] = "active"
  /\ pc' = [pc EXCEPT ![v] = "injected"]
  /\ Push(v, [Sampled(Series(v)) EXCEPT !.active = 1])
  /\ UNCHANGED <<world, script, call, target, request, result, visit, agent, cancelled, met>>

PushInjected(v) ==
  /\ pc[v] = "injected"
  /\ pc' = [pc EXCEPT ![v] = "begin"]
  /\ Push(v, [Sampled(Series(v)) EXCEPT !.injected = @ + 1])
  /\ UNCHANGED <<world, script, call, target, request, result, visit, agent, cancelled, met>>

\* The disruptor's method, up to the visit of the targets: the port is
\* replaced and the targets are looked up, which fails when there are none or
\* the API server does.  A panic leaves Track through its caller, and no
\* further sample is sent.
ThroughAgents(v) == script[v].kind \in {"pod", "service"} /\ request[v].type \in Commanded

Begin(v) ==
  /\ pc[v] = "begin"
  /\ ThroughAgents(v)
  /\ LET prepared == Prepared(script[v].kind, request[v], world.ports)
     IN  \/ /\ prepared.status = "ok" /\ Targets(v) # {}
            /\ request' = [request EXCEPT ![v] = prepared.request]
            /\ visit' = [visit EXCEPT ![v] =
                            [p \in Pod |-> IF p \in Targets(v) THEN "todo" ELSE "none"]]
            /\ pc' = [pc EXCEPT ![v] = "visit"]
            /\ UNCHANGED <<result, lost>>
         \/ /\ prepared.status # "panic"
            /\ Outcome(v, "error")
            /\ pc' = [pc EXCEPT ![v] = IF v \in Setup THEN "threw" ELSE "idle"]
            /\ UNCHANGED <<request, visit, lost>>
         \/ /\ prepared.status = "panic"
            /\ Outcome(v, "panic")
            /\ pc' = [pc EXCEPT ![v] = "end"]
            /\ lost' = IF v \in Setup THEN lost ELSE lost \cup {Series(v)}
            /\ UNCHANGED <<request, visit>>
  /\ UNCHANGED <<world, script, call, target, agent, cancelled, series, met>>

\* Visit of one pod: the command is built and the agent started, which fails
\* when another one holds the pod or when it refuses the command.  Once the
\* context is done no agent starts any more.
Starts(c, p) == c.status = "ok" /\ ~Refused(c) /\ agent[p] = None

StartAgent(v, p) ==
  /\ pc[v] = "visit" /\ v \notin cancelled
  /\ visit[v][p] = "todo"
  /\ LET c == Commands(request[v], world.pods[p])
     IN  \/ /\ Starts(c, p)
            /\ agent' = [agent EXCEPT ![p] = [status |-> "running", vu |-> v, call |-> call[v],
                                              command |-> Applied(c)]]
            /\ visit' = [visit EXCEPT ![v][p] = "running"]
         \/ /\ ~Starts(c, p)
            /\ visit' = [visit EXCEPT ![v][p] = "failed"]
            /\ UNCHANGED agent
  /\ UNCHANGED <<world, script, pc, call, target, request, result, cancelled, series, lost, met>>

\* The fault is over: its time is up, the disruption failed, or the cleanup
\* command that follows a failed or cancelled exec has stopped it.
EndAgent(p) ==
  /\ agent[p] # None
  /\ agent' = [agent EXCEPT ![p] = None]
  /\ LET v == agent[p].vu
     IN  visit' = IF pc[v] = "visit" /\ call[v] = agent[p].call /\ visit[v][p] = "running"
                  THEN [visit EXCEPT ![v][p] = "done"]
                  ELSE visit
  /\ UNCHANGED <<world, script, pc, call, target, request, result, cancelled, series, lost, met>>

\* An exec that reports an error is followed by the cleanup command, which
\* may leave the agent running for a while.  The visit does not report the
\* error of a context that is done.
FailAgent(v, p) ==
  /\ pc[v] = "visit"
  /\ visit[v][p] = "running"
  /\ visit' = [visit EXCEPT ![v][p] = IF v \in cancelled THEN "done" ELSE "failed"]
  /\ UNCHANGED <<world, script, pc, call, target, request, result, agent, cancelled, series, lost,
                 met>>

\* Mutants: a controller that does not wait for all of its visitors, and a
\* Track that forgets its failures.
ReturnEarly(v) ==
  /\ pc[v] = "visit"
  /\ \/ /\ \E p \in Pod : visit[v][p] = "done"
        /\ Outcome(v, "ok")
        /\ pc' = [pc EXCEPT ![v] = IF v \in Setup THEN "script" ELSE "idle"]
     \/ /\ (\E p \in Pod : visit[v][p] = "failed") \/ v \in cancelled
        /\ Outcome(v, "error")
        /\ pc' = [pc EXCEPT ![v] = IF v \in Setup THEN "threw" ELSE "idle"]
  /\ UNCHANGED <<world, script, call, target, request, visit, agent, cancelled, series, lost, met>>
PushIdleOnly(v) ==
  /\ pc[v] = "idle"
  /\ pc' = [pc EXCEPT ![v] = "ended"]
  /\ Push(v, [Sampled(Series(v)) EXCEPT !.active = 0])
  /\ UNCHANGED <<world, script, call, target, request, result, visit, agent, cancelled, met>>

\* The controller returns when every visit is done, at the first failed one,
\* or when the context is done.
Return(v) ==
  /\ pc[v] = "visit"
  /\ \/ /\ \A p \in Pod : visit[v][p] \in {"none", "done"}
        /\ Outcome(v, "ok")
        /\ pc' = [pc EXCEPT ![v] = IF v \in Setup THEN "script" ELSE "idle"]
     \/ /\ (\E p \in Pod : visit[v][p] = "failed") \/ v \in cancelled
        /\ Outcome(v, "error")
        /\ pc' = [pc EXCEPT ![v] = IF v \in Setup THEN "threw" ELSE "idle"]
  /\ UNCHANGED <<world, script, call, target, request, visit, agent, cancelled, series, lost, met>>

\* A fault that does not go through an agent in a pod.
ReturnOther(v) ==
  /\ pc[v] = "begin"
  /\ ~ThroughAgents(v)
  /\ \/ /\ Outcome(v, "ok")
        /\ pc' = [pc EXCEPT ![v] = IF v \in Setup THEN "script" ELSE "idle"]
     \/ /\ Outcome(v, "error")
        /\ pc' = [pc EXCEPT ![v] = IF v \in Setup THEN "threw" ELSE "idle"]
  /\ UNCHANGED <<world, script, call, target, request, visit, agent, cancelled, series, lost, met>>

PushIdle(v) ==
  /\ pc[v] = "idle"
  /\ pc' = [pc EXCEPT ![v] = IF Failed(v) THEN "failed" ELSE "ended"]
  /\ Push(v, [Sampled(Series(v)) EXCEPT !.active = 0])
  /\ UNCHANGED <<world, script, call, target, request, result, visit, agent, cancelled, met>>

PushFailed(v) ==
  /\ pc[v] = "failed"
  /\ pc' = [pc EXCEPT ![v] = "ended"]
  /\ Push(v, [Sampled(Series(v)) EXCEPT !.failed = @ + 1])
  /\ UNCHANGED <<world, script, call, target, request, result, visit, agent, cancelled, met>>

PushEnded(v) ==
  /\ pc[v] = "ended"
  /\ pc' = [pc EXCEPT ![v] = IF Failed(v) THEN "threw" ELSE "script"]
  /\ Push(v, [Sampled(Series(v)) EXCEPT !.ended = @ + 1])
  /\ UNCHANGED <<world, script, call, target, request, result, visit, agent, cancelled, met>>

\* The context of the VU ends: the test is aborted or its time is up.
Cancel(v) ==
  /\ v \notin cancelled
  /\ pc[v] \notin {"new", "end"}
  /\ cancelled' = cancelled \cup {v}
  /\ UNCHANGED <<world, script, pc, call, target, request, result, visit, agent, series, lost, met>>

\* The script has made its calls.
End(v) ==
  /\ pc[v] = "script"
  /\ call[v] = Len(script[v].calls)
  /\ pc' = [pc EXCEPT ![v] = "end"]
  /\ UNCHANGED <<world, script, call, target, request, result, visit, agent, cancelled, series,
                 lost, met>>

Next ==
  \/ \E v \in VU : \/ New(v) \/ Invoke(v) \/ CleanUp(v) \/ Threw(v) \/ PushActive(v)
                   \/ PushInjected(v) \/ Begin(v) \/ Return(v) \/ ReturnOther(v)
                   \/ PushIdle(v) \/ PushFailed(v) \/ PushEnded(v) \/ Cancel(v) \/ End(v)
  \/ \E v \in VU, p \in Pod : StartAgent(v, p) \/ FailAgent(v, p)
  \/ \E p \in Pod : EndAgent(p)

Spec == Init /\ [][Next]_vars

(***************************************************************************)
(* Properties.                                                             *)
(***************************************************************************)
\* What the script of the call that started an agent passed.
Asked(p) == script[agent[p].vu].calls[agent[p].call]

\* What a script means by a value of a field (a number given for a text, the
\* character with that code), fields that mean nothing without another one,
\* and the documented defaults.
Meant(type, x) ==
  CASE x.kind = "time" /\ type = "string"  -> "time"
    [] x.kind = "time" /\ type # "string"  -> (x.value \div 1000) * 1000
    [] x.kind = "int" /\ type = "string"   -> "rune"
    [] x.kind = "int" /\ type = "float"    -> 100 * x.value
    [] x.kind = "float" /\ type # "float"  -> IntegerPart(x.value)
    [] OTHER                               -> x.value
Positive(type, x) ==
  CASE type \in {"int", "uint", "float", "duration"} -> Meant(type, x) > 0
    [] type = "string"                               -> Meant(type, x) # ""
    [] OTHER                                         -> Meant(type, x) # <<>>
Companion ==
  [delayVariation |-> "averageDelay", errorCode |-> "errorRate", errorBody |-> "errorRate",
   statusCode |-> "errorRate", statusMessage |-> "errorRate", jitter |-> "delay"]
Effective(f, fields, fault) ==
  /\ f \in DOMAIN fault
  /\ f # "load" => Positive(fields[f], fault[f])
  /\ f \in DOMAIN Companion =>
       /\ Companion[f] \in DOMAIN fault
       /\ Positive(fields[Companion[f]], fault[Companion[f]])
Documented ==
  [toxicity |-> 100, interface |-> "eth0", upstreamDNS |-> "8.8.8.8:53", path |-> "/tmp",
   workers |-> 4, blockSize |-> 262144, bytesPerWorker |-> 1048576, direction |-> "both"]

Expected(f, fields, fault) ==
  IF Effective(f, fields, fault) THEN Meant(fields[f], fault[f])
  ELSE IF f \in DOMAIN Documented THEN Documented[f] ELSE Zero(fields[f])
PortAsked(options) ==
  LET port == IF "proxyPort" \in DOMAIN options THEN Meant("uint", options.proxyPort) ELSE 0
  IN  IF port # 0 THEN port ELSE 8000

Near(d, asked) == d - asked \in -5000 .. 5000

\* What an agent applies is what a call asks for.
Heeds(got, c) ==
  /\ \A f \in DOMAIN got.settings : got.settings[f] = Expected(f, Fields(got.type), c.fault)
  /\ Near(got.duration, c.duration.value)
  /\ "proxyPort" \in DOMAIN got.options => ProxyPort(got.options) = PortAsked(c.options)

\* Every setting an agent applies is the one the script of its call asked
\* for, to the millisecond, and the documented default where the script left
\* it out or gave nothing positive (a CPU load is passed on whatever its
\* sign); its duration is the one asked for to within five milliseconds, and
\* its proxy port is that of the options.
\* (api/convert.go Convert, disruptors/commads.go build*Cmd and the flags of
\* cmd/agent/commands.)
AsAsked == \A p \in Pod : agent[p] # None => Heeds(agent[p].command, Asked(p))

\* A proxy is put in front of the port the script meant.  Through a pod
\* disruptor that is the port of the pod with the number or the name given,
\* or port 80; through a service disruptor the port of the pod behind the
\* service port with the number or the name given, or behind the only one.
\* gRPC faults through a service are left out: InjectGrpcFaults drops the
\* port it has mapped.  (utils.GetTargetPort, utils.FindPort and the fault
\* passed on by service.go InjectHTTPFaults.)
Means(asked, name, number) ==
  \/ asked.kind = "int" /\ asked.value = number
  \/ asked.kind = "time" /\ name = "time"
  \/ asked.kind = "text" /\ (asked.value = name \/ FromString(asked.value) = Number(number))
Unset(fault) ==
  \/ "port" \notin DOMAIN fault
  \/ fault.port.kind = "int" /\ fault.port.value = 0
  \/ /\ fault.port.kind = "text"
     /\ fault.port.value = "" \/ IsZero(FromString(fault.port.value))
Proxied(p) ==
  /\ agent[p] # None
  /\ agent[p].command.type \in Protocol
  /\ script[agent[p].vu].kind = "service" => agent[p].command.type # "grpc"
Meets(fault, kind, q) ==
  IF kind = "pod"
  THEN IF Unset(fault) THEN q.number = 80 ELSE Means(fault.port, q.name, q.number)
  ELSE \E i \in DOMAIN world.ports :
         LET s == world.ports[i]
         IN  /\ s.targetPort \in {Number(q.number), Named(q.name)}
             /\ IF Unset(fault) THEN Len(world.ports) = 1 ELSE Means(fault.port, s.name, s.port)
RightPort ==
  \A p \in Pod : Proxied(p) =>
    \E i \in DOMAIN world.pods[p].ports :
      LET q == world.pods[p].ports[i]
      IN  /\ agent[p].command.target = Number(q.number)
          /\ Meets(Asked(p).fault, script[agent[p].vu].kind, q)

\* The calls of all VUs that returned with these tags and this outcome.
Returned(tags, outcomes) ==
  {r \in (VU \ Setup) \X (1 .. MaxCalls) :
     LET done == result[r[1]]
     IN  /\ target[r[1]] = tags.target
         /\ r[2] \in DOMAIN done
         /\ done[r[2]].type = tags.type
         /\ done[r[2]].outcome \in outcomes}
Reporting(tags, places) == {v \in Tracking(tags) : pc[v] \in places}

\* As long as no sample of a series was dropped, its counters say what the
\* scripts saw: a fault is counted as injected once, as ended once its call
\* has returned, and as failed exactly when the call threw, whatever other
\* VUs do with the same tags meanwhile.  (api/metrics.go Track.)
CountsAgree ==
  \A s \in DOMAIN series \ lost :
    /\ series[s].injected = Cardinality(Returned(s, {"ok", "error"}))
                              + Cardinality(Reporting(s, {"begin", "visit"}))
    /\ series[s].ended = Cardinality(Returned(s, {"ok", "error"}))
                           - Cardinality(Reporting(s, {"idle", "failed", "ended"}))
    /\ series[s].failed =
         Cardinality(Returned(s, {"error"}))
           - Cardinality({v \in Reporting(s, {"idle", "failed"}) : Failed(v)})

\* The gauge is one while a call is in progress and zero otherwise, and a
\* fault that is still applied in a pod is one whose gauge is one, or whose
\* call has failed, in a series without dropped samples and without calls at
\* the same time.  (Track, and PodController.Visit that returns at the first
\* error.)
GaugeExplained ==
  /\ \A s \in DOMAIN series \ (lost \cup met) :
       series[s].active = 1 <=> Reporting(s, {"injected", "begin", "visit", "idle"}) # {}
  /\ \A p \in Pod : agent[p] # None =>
       LET v == agent[p].vu
           s == [target |-> target[v], type |-> agent[p].command.type]
       IN  \/ v \in Setup \cup cancelled
           \/ s \in lost \cup met
           \/ series[s].active = 1
           \/ agent[p].call <= Len(result[v]) /\ result[v][agent[p].call].outcome = "error"
=============================================================================
