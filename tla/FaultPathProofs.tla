-------------------------- MODULE FaultPathProofs --------------------------
(***************************************************************************)
(* Proofs about FaultPath for any scripts, clusters and virtual users.     *)
(***************************************************************************)
EXTENDS FaultPath, FiniteSetTheorems, SequenceTheorems, WellFoundedInduction, TLAPS

(***************************************************************************)
(* The methods.                                                            *)
(***************************************************************************)
\* What a fault is tagged with: never the empty type of a call that failed
\* before Track.
FaultTypes ==
  Commanded \cup {"terminate", "crash_loop", "replica_change", "drain", "taint", "kubelet_kill",
                  "webhook_config", "filler_workload", "istio_vs_fault_injection",
                  "istio_vs_misroute", "istio_dr_tls", "istio_pa_mtls", "istio_authz_deny"}

\* A method whose command goes to an agent takes the struct of its fault and
\* a duration; only those of a proxy know a port to listen on.
Plain(m) ==
  /\ m.type \in Commanded =>
       /\ m.fields = Fields(m.type)
       /\ m.args = 2
       /\ m.duration = "required"
  /\ m.type \in Protocol => "proxyPort" \in DOMAIN m.options /\ m.options.proxyPort = "uint"
  /\ m.type \in Commanded \ Protocol => m.options = NoFields

Tagged(methods) == \A m \in DOMAIN methods : methods[m].type \in FaultTypes
AllPlain(methods) == \A m \in DOMAIN methods : Plain(methods[m])

LEMMA MergedTagged ==
  ASSUME NEW f, NEW g, Tagged(f), Tagged(g)
  PROVE  Tagged(f ++ g)
BY DEF Tagged, ++

LEMMA MergedPlain ==
  ASSUME NEW f, NEW g, AllPlain(f), AllPlain(g)
  PROVE  AllPlain(f ++ g)
BY DEF AllPlain, ++

\* Every method of every object has a type.
LEMMA TypesOfMethods == ASSUME NEW kind \in Kinds PROVE Tagged(Methods(kind))
<1> USE DEF FaultTypes, Commanded, Protocol, Method, WithOptions
<1>1. Tagged(ProtocolMethods) /\ Tagged(TerminateMethods)
  <2>1. TerminateMethods["terminatePods"].type = "terminate"
    BY DEF TerminateMethods
  <2>2. DOMAIN TerminateMethods = {"terminatePods"}
    BY DEF TerminateMethods
  <2>3. Tagged(ProtocolMethods)
    BY DEF Tagged, ProtocolMethods
  <2> QED BY <2>1, <2>2, <2>3 DEF Tagged
<1>2. Tagged(TrafficMethods) /\ Tagged(StressMethods)
  BY DEF Tagged, TrafficMethods, StressMethods
<1>3. Tagged(DiskMethods) /\ Tagged(NetworkMethods)
  BY DEF Tagged, DiskMethods, NetworkMethods
<1>4. Tagged(WorkloadMethods) /\ Tagged(NodeMethods) /\ Tagged(KubeletMethods)
  <2>1. WorkloadMethods["scaleReplicas"].type = "replica_change"
    BY DEF WorkloadMethods
  <2>2. KubeletMethods["injectKubeletServiceKill"].type = "kubelet_kill"
    BY DEF KubeletMethods
  <2>3. /\ DOMAIN WorkloadMethods = {"scaleReplicas"}
        /\ DOMAIN KubeletMethods = {"injectKubeletServiceKill"}
    BY DEF WorkloadMethods, KubeletMethods
  <2>4. Tagged(NodeMethods)
    BY DEF Tagged, NodeMethods
  <2> QED BY <2>1, <2>2, <2>3, <2>4 DEF Tagged
<1>5. Tagged(WebhookMethods) /\ Tagged(NodePoolMethods) /\ Tagged(VirtualServiceMethods)
  BY DEF Tagged, WebhookMethods, NodePoolMethods, VirtualServiceMethods
<1>6. /\ Tagged(DestinationRuleMethods) /\ Tagged(PeerAuthenticationMethods)
      /\ Tagged(AuthorizationPolicyMethods)
  BY DEF Tagged, DestinationRuleMethods, PeerAuthenticationMethods, AuthorizationPolicyMethods
<1>7. Tagged(PodMethods)
  BY <1>1, <1>2, <1>3, MergedTagged DEF PodMethods
<1>8. Tagged(ServiceMethods) /\ Tagged(NodeMethods ++ KubeletMethods)
  BY <1>1, <1>4, MergedTagged DEF ServiceMethods
<1> QED BY <1>4, <1>5, <1>6, <1>7, <1>8 DEF Kinds, Methods

\* The methods of pods and services that reach an agent are plain.
LEMMA PlainMethods == ASSUME NEW kind \in {"pod", "service"} PROVE AllPlain(Methods(kind))
<1> USE DEF Plain, Method, WithOptions, Commanded, Protocol, Fields
<1>1. AllPlain(ProtocolMethods)
  BY DEF AllPlain, ProtocolMethods, HTTPOptions, GrpcOptions
<1>2. AllPlain(TerminateMethods)
  <2>1. TerminateMethods["terminatePods"].type = "terminate"
    BY DEF TerminateMethods
  <2>2. DOMAIN TerminateMethods = {"terminatePods"}
    BY DEF TerminateMethods
  <2>3. "terminate" \notin Commanded
    OBVIOUS
  <2> QED BY <2>1, <2>2, <2>3 DEF AllPlain
<1>3. AllPlain(TrafficMethods)
  BY DEF AllPlain, TrafficMethods
<1>4. AllPlain(StressMethods)
  BY DEF AllPlain, StressMethods
<1>5. AllPlain(DiskMethods)
  BY DEF AllPlain, DiskMethods
<1>6. AllPlain(NetworkMethods)
  BY DEF AllPlain, NetworkMethods
<1>7. AllPlain(PodMethods)
  BY <1>1, <1>2, <1>3, <1>4, <1>5, <1>6, MergedPlain DEF PodMethods
<1>8. AllPlain(ServiceMethods)
  BY <1>1, <1>2, MergedPlain DEF ServiceMethods
<1> QED BY <1>7, <1>8 DEF Methods

(***************************************************************************)
(* Where the virtual users are.                                            *)
(***************************************************************************)
Places == {"new", "script", "active", "injected", "begin", "visit", "idle", "failed", "ended",
           "threw", "end"}
Underway == {"active", "injected", "begin", "visit"}
Closing == {"idle", "failed", "ended"}

Ending == [type : FaultTypes \cup {""}, outcome : {"ok", "error", "panic"}]
Samples == [active : {0, 1}, injected : Nat, failed : Nat, ended : Nat]
Visits == {"none", "todo", "running", "done", "failed"}

Shape ==
  /\ \E i \in DOMAIN Cases : world = Cases[i].world /\ script = Cases[i].script
  /\ pc \in [VU -> Places]
  /\ call \in [VU -> Nat]
  /\ DOMAIN target = VU
  /\ DOMAIN request = VU
  /\ result \in [VU -> Seq(Ending)]
  /\ visit \in [VU -> [Pod -> Visits]]
  /\ DOMAIN agent = Pod
  /\ cancelled \subseteq VU
  /\ \A s \in DOMAIN series : series[s] \in Samples

\* The call in progress, its method, and what track was given for it.
Current(v) == script[v].calls[call[v]]
MethodOf(v) == Methods(script[v].kind)[Current(v).method]
Converts(v) ==
  Current(v).method # "cleanup" /\ "ok" \in CallOutcomes(MethodOf(v), Current(v))
Wanted(v) == Request(MethodOf(v), Current(v))
Directed(v) == Prepared(script[v].kind, Wanted(v), world.ports)

\* A call has ended, or is being made and has passed its conversions.
Progress(v) ==
  /\ call[v] <= Len(script[v].calls)
  /\ Len(result[v]) = IF pc[v] \in Underway THEN call[v] - 1 ELSE call[v]
  /\ pc[v] = "new" => call[v] = 0
  /\ pc[v] \in Closing =>
       /\ request[v].type \in FaultTypes
       /\ Len(result[v]) > 0
       /\ result[v][Len(result[v])].type = request[v].type
       /\ result[v][Len(result[v])].outcome \in {"ok", "error"}
  /\ pc[v] = "failed" => Failed(v)
  /\ v \in Setup => pc[v] \notin {"active", "injected"} \cup Closing

\* What the disruptor is given is what the conversions made of the call, and
\* what the controller is given is that with the port replaced.
Asking(v) ==
  /\ pc[v] \in Underway => Converts(v)
  /\ pc[v] \in {"active", "injected", "begin"} => request[v] = Wanted(v)
  /\ pc[v] = "visit" =>
       /\ script[v].kind \in {"pod", "service"}
       /\ Wanted(v).type \in Commanded
       /\ Directed(v).status = "ok"
       /\ request[v] = Directed(v).request

Users == Shape /\ \A v \in VU : Progress(v) /\ Asking(v)

\* What the assumptions say of the run at hand.
LEMMA CaseFacts ==
  ASSUME Shape
  PROVE  /\ world.ports \in ServicePorts
         /\ \A p \in Pod : world.pods[p].ports \in PodPorts
         /\ \A v \in VU : /\ script[v].kind \in Kinds
                          /\ Len(script[v].calls) \in 0 .. MaxCalls
                          /\ \A k \in 1 .. Len(script[v].calls) :
                               Callable(script[v].kind, script[v].calls[k])
BY CasesAssumption DEF Shape

LEMMA PreparedType ==
  ASSUME NEW kind, NEW r, NEW ports, "type" \in DOMAIN r
  PROVE  Prepared(kind, r, ports).request.type = r.type
BY DEF Prepared

LEMMA WantedType ==
  ASSUME Shape, NEW v \in VU, Progress(v), call[v] > 0, Current(v).method # "cleanup"
  PROVE  /\ Wanted(v).type = MethodOf(v).type
         /\ Wanted(v).type \in FaultTypes
         /\ "type" \in DOMAIN Wanted(v)
         /\ Directed(v).request.type = Wanted(v).type
<1>1. call[v] \in 1 .. Len(script[v].calls)
  BY CaseFacts DEF Shape, Progress
<1>2. Current(v).method \in DOMAIN Methods(script[v].kind) /\ script[v].kind \in Kinds
  BY <1>1, CaseFacts DEF Callable, Current
<1>3. MethodOf(v).type \in FaultTypes
  BY <1>2, TypesOfMethods DEF Tagged, MethodOf
<1>4. Wanted(v).type = MethodOf(v).type /\ "type" \in DOMAIN Wanted(v)
  BY DEF Wanted, Request
<1> QED BY <1>3, <1>4, PreparedType DEF Directed

\* The type a call is tracked with while it is made.
LEMMA TypeUnderway ==
  ASSUME Shape, NEW v \in VU, Progress(v), Asking(v), pc[v] \in Underway \cup Closing
  PROVE  request[v].type \in FaultTypes
<1>1. CASE pc[v] \in Underway
  <2>1. call[v] > 0
    BY <1>1 DEF Shape, Progress
  <2> QED BY <1>1, <2>1, WantedType DEF Asking, Converts, Underway
<1> QED BY <1>1 DEF Progress

(***************************************************************************)
(* The frame: an action is one of one virtual user, or of one agent.       *)
(***************************************************************************)
Same(w) ==
  /\ pc'[w] = pc[w] /\ call'[w] = call[w] /\ target'[w] = target[w]
  /\ request'[w] = request[w] /\ result'[w] = result[w]

UserStep(v) ==
  \/ New(v) \/ Invoke(v) \/ CleanUp(v) \/ Threw(v) \/ PushActive(v)
  \/ PushInjected(v) \/ Begin(v) \/ Return(v) \/ ReturnOther(v)
  \/ PushIdle(v) \/ PushFailed(v) \/ PushEnded(v) \/ Cancel(v) \/ End(v)

PodStep ==
  \/ \E v \in VU, p \in Pod : StartAgent(v, p) \/ FailAgent(v, p)
  \/ \E p \in Pod : EndAgent(p)

LEMMA Steps ==
  ASSUME [Next]_vars
  PROVE  (\E v \in VU : UserStep(v)) \/ PodStep \/ UNCHANGED vars
BY DEF Next, UserStep, PodStep

\* What a call does to the others, and to the run.
LEMMA Frame ==
  ASSUME Shape, NEW v \in VU, UserStep(v)
  PROVE  /\ UNCHANGED <<world, script>>
         /\ \A w \in VU \ {v} : Same(w)
<1> USE DEF Shape, Same
<1>1. CASE New(v)
  BY <1>1 DEF New
<1>2. CASE Invoke(v)
  BY <1>2 DEF Invoke
<1>3. CASE CleanUp(v)
  BY <1>3 DEF CleanUp
<1>4. CASE Threw(v) \/ Cancel(v) \/ End(v)
  BY <1>4 DEF Threw, Cancel, End
<1>5. CASE PushActive(v) \/ PushInjected(v)
  BY <1>5 DEF PushActive, PushInjected
<1>6. CASE Begin(v)
  BY <1>6 DEF Begin, Outcome
<1>7. CASE Return(v) \/ ReturnOther(v)
  BY <1>7 DEF Return, ReturnOther, Outcome
<1>8. CASE PushIdle(v) \/ PushFailed(v) \/ PushEnded(v)
  BY <1>8 DEF PushIdle, PushFailed, PushEnded
<1> QED BY <1>1, <1>2, <1>3, <1>4, <1>5, <1>6, <1>7, <1>8 DEF UserStep

LEMMA PodFrame ==
  ASSUME PodStep
  PROVE  /\ UNCHANGED <<world, script, pc, call, target, request, result, cancelled, series,
                        lost, met>>
         /\ \A w \in VU : Same(w)
BY DEF PodStep, StartAgent, FailAgent, EndAgent, Same

\* A sample keeps the types of the series.
LEMMA PushShape ==
  ASSUME \A s \in DOMAIN series : series[s] \in Samples, NEW v, NEW sample \in Samples,
         Push(v, sample)
  PROVE  \A s \in DOMAIN series' : series'[s] \in Samples
BY DEF Push

LEMMA SampledShape ==
  ASSUME \A s \in DOMAIN series : series[s] \in Samples, NEW s
  PROVE  Sampled(s) \in Samples
BY DEF Sampled, NoSamples, Samples

LEMMA AppendFacts ==
  ASSUME NEW S, NEW s \in Seq(S), NEW e \in S, NEW t, t = Append(s, e)
  PROVE  /\ t \in Seq(S)
         /\ Len(t) = Len(s) + 1
         /\ t[Len(s) + 1] = e
         /\ \A i \in 1 .. Len(s) : t[i] = s[i]
         /\ DOMAIN t = 1 .. Len(s) + 1
         /\ DOMAIN s = 1 .. Len(s)
         /\ Len(s) \in Nat
BY AppendProperties, LenProperties

\* The outcome of a call is appended to those before it.
LEMMA Appended ==
  ASSUME Shape, NEW v \in VU, NEW e \in Ending, result' = [result EXCEPT ![v] = Append(@, e)]
  PROVE  result' \in [VU -> Seq(Ending)]
<1>1. Append(result[v], e) \in Seq(Ending)
  BY AppendProperties DEF Shape
<1> QED BY <1>1 DEF Shape

LEMMA OutcomeAppends ==
  ASSUME Shape, NEW v \in VU, NEW o \in {"ok", "error", "panic"}, Outcome(v, o),
         request[v].type \in FaultTypes \cup {""}
  PROVE  \E e \in Ending : /\ e.type = request[v].type /\ e.outcome = o
                           /\ result' = [result EXCEPT ![v] = Append(@, e)]
<1>1. [type |-> request[v].type, outcome |-> o] \in Ending
  BY DEF Ending
<1> QED BY <1>1 DEF Outcome

\* One pod of one visit changes.
LEMMA VisitSet ==
  ASSUME Shape, NEW v \in VU, NEW p \in Pod, NEW x \in Visits,
         visit' = [visit EXCEPT ![v][p] = x]
  PROVE  /\ visit' \in [VU -> [Pod -> Visits]]
         /\ visit'[v][p] = x
         /\ \A w \in VU, q \in Pod : <<w, q>> # <<v, p>> => visit'[w][q] = visit[w][q]
<1>1. visit[v] \in [Pod -> Visits]
  BY DEF Shape
<1>2. [visit[v] EXCEPT ![p] = x] \in [Pod -> Visits]
  BY <1>1
<1>3. visit' = [visit EXCEPT ![v] = [visit[v] EXCEPT ![p] = x]]
  OBVIOUS
<1> QED BY <1>1, <1>2, <1>3 DEF Shape

LEMMA ShapeKept == Users /\ [Next]_vars => Shape'
<1> SUFFICES ASSUME Users, [Next]_vars PROVE Shape'
  OBVIOUS
<1>0. Shape
  BY DEF Users
<1>1. CASE UNCHANGED vars
  BY <1>0, <1>1 DEF vars, Shape
<1>2. CASE PodStep
  <2>1. visit' \in [VU -> [Pod -> Visits]] /\ DOMAIN agent' = Pod
    <3>1. ASSUME NEW v \in VU, NEW p \in Pod, StartAgent(v, p) \/ FailAgent(v, p)
          PROVE  visit' \in [VU -> [Pod -> Visits]] /\ DOMAIN agent' = Pod
      <4>1. \E x \in Visits : visit' = [visit EXCEPT ![v][p] = x]
        BY <3>1 DEF StartAgent, FailAgent, Visits
      <4>2. DOMAIN agent' = Pod
        BY <1>0, <3>1 DEF StartAgent, FailAgent, Shape
      <4> QED BY <1>0, <4>1, <4>2, VisitSet
    <3>2. ASSUME NEW p \in Pod, EndAgent(p)
          PROVE  visit' \in [VU -> [Pod -> Visits]] /\ DOMAIN agent' = Pod
      <4>1. DOMAIN agent' = Pod
        BY <1>0, <3>2 DEF EndAgent, Shape
      <4>2. UNCHANGED visit \/ visit' = [visit EXCEPT ![agent[p].vu][p] = "done"]
        BY <3>2 DEF EndAgent
      <4>3. CASE agent[p].vu \in VU
        BY <1>0, <4>1, <4>2, <4>3, VisitSet DEF Visits, Shape
      <4>4. CASE agent[p].vu \notin VU
        <5>1. UNCHANGED visit
          BY <1>0, <4>2, <4>4 DEF Shape
        <5> QED BY <1>0, <4>1, <5>1 DEF Shape
      <4> QED BY <4>3, <4>4
    <3> QED BY <1>2, <3>1, <3>2 DEF PodStep
  <2> QED BY <1>0, <1>2, <2>1, PodFrame DEF Shape
<1>3. ASSUME NEW v \in VU, UserStep(v) PROVE Shape'
  <2>1. UNCHANGED <<world, script>>
    BY <1>0, <1>3, Frame
  <2>2. pc' \in [VU -> Places]
    BY <1>0, <1>3 DEF Shape, Places, UserStep, New, Invoke, CleanUp, Threw, Cancel, End, PushActive,
      PushInjected, Begin, Return, ReturnOther, PushIdle, PushFailed, PushEnded
  <2>3. call' \in [VU -> Nat] /\ cancelled' \subseteq VU /\ DOMAIN agent' = Pod
    <3>1. UNCHANGED agent
      BY <1>3 DEF UserStep, New, Invoke, CleanUp, Threw, Cancel, End, PushActive,
        PushInjected, Begin, Return, ReturnOther, PushIdle, PushFailed, PushEnded
    <3>2. UNCHANGED call \/ call' = [call EXCEPT ![v] = @ + 1]
      BY <1>3 DEF UserStep, New, Invoke, CleanUp, Threw, Cancel, End, PushActive,
        PushInjected, Begin, Return, ReturnOther, PushIdle, PushFailed, PushEnded
    <3>3. UNCHANGED cancelled \/ cancelled' = cancelled \cup {v}
      BY <1>3 DEF UserStep, New, Invoke, CleanUp, Threw, Cancel, End, PushActive,
        PushInjected, Begin, Return, ReturnOther, PushIdle, PushFailed, PushEnded
    <3>4. call' \in [VU -> Nat]
      <4>1. call \in [VU -> Nat]
        BY <1>0 DEF Shape
      <4> QED BY <3>2, <4>1
    <3> QED BY <1>0, <3>1, <3>3, <3>4 DEF Shape
  <2>4. DOMAIN target' = VU /\ DOMAIN request' = VU
    BY <1>0, <1>3 DEF Shape, UserStep, New, Invoke, CleanUp, Threw, Cancel, End, PushActive,
      PushInjected, Begin, Return, ReturnOther, PushIdle, PushFailed, PushEnded
  <2>5. visit' \in [VU -> [Pod -> Visits]]
    <3>1. CASE UNCHANGED visit
      BY <1>0, <3>1 DEF Shape
    <3>2. CASE \E S \in SUBSET Pod :
                 visit' = [visit EXCEPT ![v] = [p \in Pod |-> IF p \in S THEN "todo" ELSE "none"]]
      BY <1>0, <3>2 DEF Shape, Visits
    <3>3. CASE Invoke(v) \/ CleanUp(v)
      <4>1. visit' = [visit EXCEPT ![v] = [p \in Pod |-> "none"]]
        BY <3>3 DEF Invoke, CleanUp
      <4> QED BY <1>0, <4>1 DEF Shape, Visits
    <3>4. CASE Begin(v)
      <4>1. Targets(v) \in SUBSET Pod
        BY DEF Targets, PodTargets, ServiceTargets
      <4>2. \/ UNCHANGED visit
            \/ visit' = [visit EXCEPT ![v] =
                            [p \in Pod |-> IF p \in Targets(v) THEN "todo" ELSE "none"]]
        BY <3>4 DEF Begin
      <4> QED BY <3>1, <3>2, <4>1, <4>2
    <3>5. CASE ~(Invoke(v) \/ CleanUp(v) \/ Begin(v))
      BY <1>3, <3>1, <3>5 DEF UserStep, New, Threw, Cancel, End, PushActive,
        PushInjected, Return, ReturnOther, PushIdle, PushFailed, PushEnded
    <3> QED BY <3>3, <3>4, <3>5
  <2>6. result' \in [VU -> Seq(Ending)]
    <3>1. CASE New(v) \/ Threw(v) \/ Cancel(v) \/ End(v) \/ PushActive(v) \/ PushInjected(v)
               \/ PushIdle(v) \/ PushFailed(v) \/ PushEnded(v)
      BY <1>0, <3>1 DEF Shape, New, Threw, Cancel, End, PushActive, PushInjected, PushIdle,
        PushFailed, PushEnded
    <3>2. CASE Invoke(v) \/ CleanUp(v)
      <4>1. \A o \in {"ok", "error", "panic"} : [type |-> "", outcome |-> o] \in Ending
        BY DEF Ending
      <4>2. \/ UNCHANGED result
            \/ \E o \in {"ok", "error", "panic"} :
                 result' = [result EXCEPT ![v] = Append(@, [type |-> "", outcome |-> o])]
        BY <3>2 DEF Invoke, CleanUp
      <4> QED BY <1>0, <4>1, <4>2, Appended DEF Shape
    <3>3. CASE Begin(v) \/ Return(v) \/ ReturnOther(v)
      <4>1. pc[v] \in Underway
        BY <3>3 DEF Begin, Return, ReturnOther, Underway
      <4>2. request[v].type \in FaultTypes
        BY <1>0, <4>1, TypeUnderway DEF Users
      <4>3. UNCHANGED result \/ \E o \in {"ok", "error", "panic"} : Outcome(v, o)
        BY <3>3 DEF Begin, Return, ReturnOther
      <4>4. CASE UNCHANGED result
        BY <1>0, <4>4 DEF Shape
      <4>5. ASSUME NEW o \in {"ok", "error", "panic"}, Outcome(v, o)
            PROVE  result' \in [VU -> Seq(Ending)]
        <5>1. PICK e \in Ending : result' = [result EXCEPT ![v] = Append(@, e)]
          BY <1>0, <4>2, <4>5, OutcomeAppends
        <5> QED BY <1>0, <5>1, Appended
      <4> QED BY <4>3, <4>4, <4>5
    <3> QED BY <1>3, <3>1, <3>2, <3>3 DEF UserStep
  <2>7. \A s \in DOMAIN series' : series'[s] \in Samples
    <3>1. CASE UNCHANGED series
      BY <1>0, <3>1 DEF Shape
    <3>2. CASE \E sample \in Samples : Push(v, sample)
      BY <1>0, <3>2, PushShape DEF Shape
    <3>3. Sampled(Series(v)) \in Samples
      BY <1>0, SampledShape DEF Shape
    <3>4. UNCHANGED series \/ \E sample \in Samples : Push(v, sample)
      <4>1. /\ [Sampled(Series(v)) EXCEPT !.active = 1] \in Samples
            /\ [Sampled(Series(v)) EXCEPT !.active = 0] \in Samples
            /\ [Sampled(Series(v)) EXCEPT !.injected = @ + 1] \in Samples
            /\ [Sampled(Series(v)) EXCEPT !.failed = @ + 1] \in Samples
            /\ [Sampled(Series(v)) EXCEPT !.ended = @ + 1] \in Samples
        BY <3>3 DEF Samples
      <4> QED BY <1>3, <4>1 DEF UserStep, New, Invoke, CleanUp, Threw, Cancel, End, PushActive,
            PushInjected, Begin, Return, ReturnOther, PushIdle, PushFailed, PushEnded
    <3> QED BY <3>1, <3>2, <3>4
  <2> QED BY <1>0, <2>1, <2>2, <2>3, <2>4, <2>5, <2>6, <2>7 DEF Shape
<1> QED BY <1>1, <1>2, <1>3, Steps

(***************************************************************************)
(* What the actions that begin or end a call do to their virtual user.     *)
(***************************************************************************)
Ends(v, type, o) ==
  result'[v] = Append(result[v], [type |-> type, outcome |-> o])

Invoked(v) ==
  /\ pc[v] = "script"
  /\ call[v] + 1 <= Len(script[v].calls)
  /\ call'[v] = call[v] + 1
  /\ target' = target /\ agent' = agent /\ series' = series /\ lost' = lost
  /\ cancelled' = cancelled
  /\ visit'[v] = [p \in Pod |-> "none"]
  /\ Current(v)'.method # "cleanup"
  /\ \/ /\ Converts(v)'
        /\ request'[v] = Wanted(v)'
        /\ pc'[v] = IF v \in Setup THEN "begin" ELSE "active"
        /\ result' = result
        /\ LET tags == [target |-> target[v], type |-> MethodOf(v)'.type]
           IN  met' = IF v \notin Setup /\ Tracking(tags) # {} THEN met \cup {tags} ELSE met
     \/ /\ pc'[v] \in {"threw", "end"}
        /\ request' = request
        /\ met' = met
        /\ \E o \in {"error", "panic"} : Ends(v, "", o)

LEMMA InvokeDoes ==
  ASSUME Shape, NEW v \in VU, Invoke(v)
  PROVE  Invoked(v)
<1> USE DEF Invoked
<1>1. call[v] \in Nat /\ Len(script[v].calls) \in Nat /\ script' = script
  <2>1. Len(script[v].calls) \in 0 .. MaxCalls
    BY CaseFacts
  <2>2. script' = script
    BY DEF Invoke
  <2> QED BY <2>1, <2>2 DEF Shape
<1>2. call[v] < Len(script[v].calls)
  BY DEF Invoke
<1>3. call'[v] = call[v] + 1
  BY DEF Invoke, Shape
<1>4. call[v] + 1 <= Len(script[v].calls)
  BY <1>1, <1>2
<1>5. Current(v)' = script[v].calls[call[v] + 1]
  BY <1>1, <1>3 DEF Current
<1>6. MethodOf(v)' = Methods(script[v].kind)[Current(v)'.method]
  BY <1>1 DEF MethodOf
<1>7. Current(v)'.method # "cleanup"
  BY <1>5 DEF Invoke
<1>8. \/ /\ "ok" \in CallOutcomes(MethodOf(v)', Current(v)')
         /\ request' = [request EXCEPT ![v] = Request(MethodOf(v)', Current(v)')]
         /\ pc' = [pc EXCEPT ![v] = IF v \in Setup THEN "begin" ELSE "active"]
         /\ LET tags == [target |-> target[v], type |-> MethodOf(v)'.type]
            IN  met' = IF v \notin Setup /\ Tracking(tags) # {} THEN met \cup {tags} ELSE met
         /\ result' = result
      \/ /\ pc' = [pc EXCEPT ![v] = "threw"] \/ pc' = [pc EXCEPT ![v] = "end"]
         /\ request' = request /\ met' = met
         /\ \E o \in {"error", "panic"} :
              result' = [result EXCEPT ![v] = Append(@, [type |-> "", outcome |-> o])]
  BY <1>1, <1>3, <1>5, <1>6 DEF Invoke
<1>9. \A o \in {"error", "panic"} :
        result' = [result EXCEPT ![v] = Append(@, [type |-> "", outcome |-> o])] => Ends(v, "", o)
  BY DEF Shape, Ends
<1>10. visit'[v] = [p \in Pod |-> "none"]
  BY DEF Invoke, Shape
<1>11. CASE /\ "ok" \in CallOutcomes(MethodOf(v)', Current(v)')
            /\ request' = [request EXCEPT ![v] = Request(MethodOf(v)', Current(v)')]
            /\ pc' = [pc EXCEPT ![v] = IF v \in Setup THEN "begin" ELSE "active"]
  <2>1. Converts(v)'
    BY <1>7, <1>11 DEF Converts
  <2>2. request'[v] = Wanted(v)'
    BY <1>11 DEF Wanted, Shape
  <2>3. pc'[v] = IF v \in Setup THEN "begin" ELSE "active"
    BY <1>11 DEF Shape
  <2> QED BY <1>3, <1>4, <1>7, <1>8, <1>9, <1>10, <2>1, <2>2, <2>3 DEF Invoke, Shape
<1>12. CASE pc' = [pc EXCEPT ![v] = "threw"] \/ pc' = [pc EXCEPT ![v] = "end"]
  <2>1. pc'[v] \in {"threw", "end"}
    BY <1>12 DEF Shape
  <2> QED BY <1>3, <1>4, <1>7, <1>8, <1>9, <1>10, <2>1 DEF Invoke, Shape
<1> QED BY <1>8, <1>11, <1>12

Cleaned(v) ==
  /\ pc[v] = "script"
  /\ call[v] + 1 <= Len(script[v].calls)
  /\ call'[v] = call[v] + 1
  /\ UNCHANGED <<target, request, agent, series, lost, cancelled, met>>
  /\ visit'[v] = [p \in Pod |-> "none"]
  /\ pc'[v] \in {"script", "threw"}
  /\ \E o \in {"ok", "error"} : Ends(v, "", o)

LEMMA CleanUpDoes ==
  ASSUME Shape, NEW v \in VU, CleanUp(v)
  PROVE  Cleaned(v)
<1> USE DEF Cleaned
<1>1. call[v] \in Nat /\ Len(script[v].calls) \in Nat
  <2>1. Len(script[v].calls) \in 0 .. MaxCalls
    BY CaseFacts
  <2> QED BY <2>1 DEF Shape
<1>2. call[v] < Len(script[v].calls)
  BY DEF CleanUp
<1>3. call[v] + 1 <= Len(script[v].calls)
  BY <1>1, <1>2
<1>4. visit'[v] = [p \in Pod |-> "none"] /\ call'[v] = call[v] + 1
  BY DEF CleanUp, Shape
<1>5. PICK o \in {"ok", "error"} :
        /\ result' = [result EXCEPT ![v] = Append(@, [type |-> "", outcome |-> o])]
        /\ pc' = [pc EXCEPT ![v] = IF o = "ok" THEN "script" ELSE "threw"]
  BY DEF CleanUp
<1>6. Ends(v, "", o) /\ pc'[v] \in {"script", "threw"}
  BY <1>5 DEF Ends, Shape
<1> QED BY <1>3, <1>4, <1>6 DEF CleanUp

LEMMA OutcomeEnds ==
  ASSUME Shape, NEW v \in VU, NEW o, Outcome(v, o)
  PROVE  Ends(v, request[v].type, o)
BY DEF Outcome, Ends, Shape

\* A call is given to its controller, or returns.
Returns(v, o) ==
  /\ Ends(v, request[v].type, o)
  /\ pc'[v] = IF v \in Setup THEN IF o = "ok" THEN "script" ELSE "threw" ELSE "idle"

Begun(v) ==
  /\ pc[v] = "begin" /\ ThroughAgents(v)
  /\ UNCHANGED <<call, target, agent, series, cancelled, met>>
  /\ \/ /\ Prepared(script[v].kind, request[v], world.ports).status = "ok"
        /\ request'[v] = Prepared(script[v].kind, request[v], world.ports).request
        /\ visit'[v] = [p \in Pod |-> IF p \in Targets(v) THEN "todo" ELSE "none"]
        /\ pc'[v] = "visit"
        /\ UNCHANGED <<result, lost>>
     \/ /\ Returns(v, "error")
        /\ UNCHANGED <<request, visit, lost>>
     \/ /\ Ends(v, request[v].type, "panic")
        /\ pc'[v] = "end"
        /\ lost' = IF v \in Setup THEN lost ELSE lost \cup {Series(v)}
        /\ UNCHANGED <<request, visit>>

LEMMA BeginDoes ==
  ASSUME Shape, NEW v \in VU, Begin(v)
  PROVE  Begun(v)
<1> USE DEF Begun
<1> DEFINE prepared == Prepared(script[v].kind, request[v], world.ports)
<1>1. \/ /\ prepared.status = "ok"
         /\ request' = [request EXCEPT ![v] = prepared.request]
         /\ visit' = [visit EXCEPT ![v] =
                            [p \in Pod |-> IF p \in Targets(v) THEN "todo" ELSE "none"]]
         /\ pc' = [pc EXCEPT ![v] = "visit"]
         /\ UNCHANGED <<result, lost>>
      \/ /\ Outcome(v, "error")
         /\ pc' = [pc EXCEPT ![v] = IF v \in Setup THEN "threw" ELSE "idle"]
         /\ UNCHANGED <<request, visit, lost>>
      \/ /\ Outcome(v, "panic")
         /\ pc' = [pc EXCEPT ![v] = "end"]
         /\ lost' = IF v \in Setup THEN lost ELSE lost \cup {Series(v)}
         /\ UNCHANGED <<request, visit>>
  BY DEF Begin
<1>2. \A x : /\ pc' = [pc EXCEPT ![v] = x] => pc'[v] = x
             /\ request' = [request EXCEPT ![v] = x] => request'[v] = x
             /\ visit' = [visit EXCEPT ![v] = x] => visit'[v] = x
  BY DEF Shape
<1>3. \A o : Outcome(v, o) => Ends(v, request[v].type, o)
  BY OutcomeEnds
<1> HIDE DEF prepared
<1>4. CASE Outcome(v, "error") /\ pc' = [pc EXCEPT ![v] = IF v \in Setup THEN "threw" ELSE "idle"]
  <2>1. Returns(v, "error")
    BY <1>2, <1>3, <1>4 DEF Returns
  <2> QED BY <1>1, <1>2, <1>3, <2>1 DEF Begin, prepared
<1>5. CASE Outcome(v, "panic") /\ pc' = [pc EXCEPT ![v] = "end"]
  <2>1. Ends(v, request[v].type, "panic") /\ pc'[v] = "end"
    BY <1>2, <1>3, <1>5
  <2> QED BY <1>1, <1>2, <2>1 DEF Begin, prepared
<1>6. CASE /\ prepared.status = "ok"
           /\ request' = [request EXCEPT ![v] = prepared.request]
           /\ visit' = [visit EXCEPT ![v] =
                            [p \in Pod |-> IF p \in Targets(v) THEN "todo" ELSE "none"]]
           /\ pc' = [pc EXCEPT ![v] = "visit"]
           /\ UNCHANGED <<result, lost>>
  BY <1>2, <1>6 DEF Begin, prepared
<1> QED BY <1>1, <1>4, <1>5, <1>6

Done(v) ==
  /\ pc[v] \in {"begin", "visit"}
  /\ UNCHANGED <<call, target, request, visit, agent, series, lost, cancelled, met>>
  /\ \/ Returns(v, "error")
     \/ /\ Returns(v, "ok")
        /\ pc[v] = "visit" => \A p \in Pod : visit[v][p] \in {"none", "done"}

LEMMA ReturnDoes ==
  ASSUME Shape, NEW v \in VU, Return(v) \/ ReturnOther(v)
  PROVE  Done(v)
<1> USE DEF Done
<1>1. \/ /\ Outcome(v, "ok")
         /\ pc' = [pc EXCEPT ![v] = IF v \in Setup THEN "script" ELSE "idle"]
         /\ pc[v] = "visit" => \A p \in Pod : visit[v][p] \in {"none", "done"}
      \/ /\ Outcome(v, "error")
         /\ pc' = [pc EXCEPT ![v] = IF v \in Setup THEN "threw" ELSE "idle"]
  BY DEF Return, ReturnOther
<1>2. \A x : pc' = [pc EXCEPT ![v] = x] => pc'[v] = x
  BY DEF Shape
<1>3. \A o : Outcome(v, o) => Ends(v, request[v].type, o)
  BY OutcomeEnds
<1>4. \/ Returns(v, "error")
      \/ Returns(v, "ok") /\ (pc[v] = "visit" => \A p \in Pod : visit[v][p] \in {"none", "done"})
  BY <1>1, <1>2, <1>3 DEF Returns
<1> QED BY <1>4 DEF Return, ReturnOther

\* A VU that does nothing but send a sample, or stops.
Pushing(v) ==
  PushActive(v) \/ PushInjected(v) \/ PushIdle(v) \/ PushFailed(v) \/ PushEnded(v)

Pushed(v) ==
  /\ UNCHANGED <<call, target, request, result, visit, agent, cancelled, met>>
  /\ \/ pc[v] = "active" /\ pc'[v] = "injected"
        /\ Push(v, [Sampled(Series(v)) EXCEPT !.active = 1])
     \/ pc[v] = "injected" /\ pc'[v] = "begin"
        /\ Push(v, [Sampled(Series(v)) EXCEPT !.injected = @ + 1])
     \/ pc[v] = "idle" /\ pc'[v] = (IF Failed(v) THEN "failed" ELSE "ended")
        /\ Push(v, [Sampled(Series(v)) EXCEPT !.active = 0])
     \/ pc[v] = "failed" /\ pc'[v] = "ended"
        /\ Push(v, [Sampled(Series(v)) EXCEPT !.failed = @ + 1])
     \/ pc[v] = "ended" /\ pc'[v] = (IF Failed(v) THEN "threw" ELSE "script")
        /\ Push(v, [Sampled(Series(v)) EXCEPT !.ended = @ + 1])

LEMMA PushDoes ==
  ASSUME Shape, NEW v \in VU, Pushing(v)
  PROVE  Pushed(v)
<1> USE DEF Pushed
<1>1. \A x : pc' = [pc EXCEPT ![v] = x] => pc'[v] = x
  BY DEF Shape
<1> QED BY <1>1 DEF Pushing, PushActive, PushInjected, PushIdle, PushFailed, PushEnded

\* The steps of a script around its calls.
Aside(v) == New(v) \/ Threw(v) \/ Cancel(v) \/ End(v)

Stepped(v) ==
  /\ UNCHANGED <<call, request, result, visit, agent, series, lost, met>>
  /\ \/ pc[v] = "new" /\ pc'[v] \in {"script", "end"} /\ cancelled' = cancelled
     \/ /\ pc[v] \in {"script", "threw"} /\ pc'[v] \in {"script", "end"}
        /\ target' = target /\ cancelled' = cancelled
     \/ pc' = pc /\ target' = target /\ cancelled' = cancelled \cup {v}

LEMMA AsideDoes ==
  ASSUME Shape, NEW v \in VU, Aside(v)
  PROVE  Stepped(v)
<1> USE DEF Stepped
<1>1. \A x : pc' = [pc EXCEPT ![v] = x] => pc'[v] = x
  BY DEF Shape
<1>2. CASE New(v)
  BY <1>1, <1>2 DEF New
<1>3. CASE Threw(v)
  BY <1>1, <1>3 DEF Threw
<1>4. CASE Cancel(v) \/ End(v)
  BY <1>1, <1>4 DEF Cancel, End
<1> QED BY <1>2, <1>3, <1>4 DEF Aside

LEMMA UserSteps ==
  ASSUME NEW v, UserStep(v)
  PROVE  \/ Invoke(v) \/ CleanUp(v) \/ Begin(v) \/ (Return(v) \/ ReturnOther(v))
         \/ Pushing(v) \/ Aside(v)
BY DEF UserStep, Pushing, Aside

\* What an end of a call leaves in the VU's results.
Grown(v, type, o) ==
  /\ Len(result'[v]) = Len(result[v]) + 1
  /\ result'[v][Len(result[v]) + 1].type = type
  /\ result'[v][Len(result[v]) + 1].outcome = o
  /\ \A i : i \in DOMAIN result'[v] <=> i \in DOMAIN result[v] \/ i = Len(result[v]) + 1
  /\ \A i \in DOMAIN result[v] : result'[v][i] = result[v][i]
  /\ DOMAIN result[v] = 1 .. Len(result[v])
  /\ Len(result[v]) + 1 \notin DOMAIN result[v]
  /\ Len(result[v]) \in Nat

LEMMA EndsGrows ==
  ASSUME NEW v, NEW type, NEW o, Ends(v, type, o),
         result[v] \in Seq(Ending), [type |-> type, outcome |-> o] \in Ending
  PROVE  Grown(v, type, o)
<1>1. PICK e \in Ending : e = [type |-> type, outcome |-> o]
  OBVIOUS
<1>2. result'[v] = Append(result[v], e)
  BY <1>1 DEF Ends
<1>3. result[v] \in Seq(Ending) /\ e \in Ending
  BY <1>1
<1>4. e.type = type /\ e.outcome = o
  BY <1>1
<1> QED BY <1>2, <1>3, <1>4, AppendFacts DEF Grown

LEMMA EndsDoes ==
  ASSUME Shape, NEW v \in VU, NEW type \in FaultTypes \cup {""},
         NEW o \in {"ok", "error", "panic"}, Ends(v, type, o)
  PROVE  Grown(v, type, o)
BY EndsGrows DEF Shape, Ending

(***************************************************************************)
(* The virtual users stay where their calls put them.                      *)
(***************************************************************************)
LEMMA ProgressKept ==
  ASSUME Users, NEW v \in VU, UserStep(v)
  PROVE  Progress(v)'
<1>0. Shape /\ Progress(v) /\ Asking(v)
  BY DEF Users
<1>1. script' = script /\ call[v] \in Nat /\ Len(script[v].calls) \in Nat
  <2>1. Len(script[v].calls) \in 0 .. MaxCalls /\ script' = script
    BY <1>0, CaseFacts, Frame
  <2> QED BY <1>0, <2>1 DEF Shape
<1>2. result[v] \in Seq(Ending) /\ Len(result[v]) \in Nat
  BY <1>0, LenProperties DEF Shape
<1>3. Shape'
  BY ShapeKept DEF Next, UserStep
<1> USE DEF Underway, Closing
<1>4. CASE Invoke(v)
  <2>1. Invoked(v)
    BY <1>0, <1>4, InvokeDoes
  <2>2. CASE result' = result /\ pc'[v] = IF v \in Setup THEN "begin" ELSE "active"
    BY <1>0, <1>1, <1>2, <2>1, <2>2 DEF Progress, Invoked
  <2>3. CASE pc'[v] \in {"threw", "end"} /\ \E o \in {"error", "panic"} : Ends(v, "", o)
    <3>1. Len(result'[v]) = Len(result[v]) + 1
      BY <1>0, <2>3, EndsDoes DEF Grown
    <3> QED BY <1>0, <1>1, <1>2, <2>1, <2>3, <3>1 DEF Progress, Invoked
  <2> QED BY <2>1, <2>2, <2>3 DEF Invoked
<1>5. CASE CleanUp(v)
  <2>1. Cleaned(v)
    BY <1>0, <1>5, CleanUpDoes
  <2>2. Len(result'[v]) = Len(result[v]) + 1
    BY <1>0, <2>1, EndsDoes DEF Cleaned, Grown
  <2> QED BY <1>0, <1>1, <1>2, <2>1, <2>2 DEF Progress, Cleaned
<1>6. ASSUME NEW o \in {"ok", "error"}, Returns(v, o), pc[v] \in {"begin", "visit"},
             call' = call, request' = request
      PROVE  Progress(v)'
  <2>1. request[v].type \in FaultTypes
    BY <1>0, <1>6, TypeUnderway
  <2>2. /\ Len(result'[v]) = Len(result[v]) + 1
        /\ result'[v][Len(result[v]) + 1].type = request[v].type
        /\ result'[v][Len(result[v]) + 1].outcome = o
    <3>1. Grown(v, request[v].type, o)
      BY <1>0, <1>6, <2>1, EndsDoes DEF Returns
    <3> QED BY <3>1 DEF Grown
  <2> QED BY <1>0, <1>1, <1>2, <1>6, <2>1, <2>2 DEF Progress, Returns
<1>7. CASE Begin(v)
  <2>1. Begun(v)
    BY <1>0, <1>7, BeginDoes
  <2>2. CASE pc'[v] = "visit" /\ result' = result
    BY <1>0, <1>1, <1>2, <2>1, <2>2 DEF Progress, Begun
  <2>3. CASE Returns(v, "error") /\ request' = request
    BY <1>6, <2>1, <2>3 DEF Begun
  <2>4. CASE Ends(v, request[v].type, "panic") /\ pc'[v] = "end"
    <3>1. request[v].type \in FaultTypes
      BY <1>0, <2>1, TypeUnderway DEF Begun
    <3>2. Len(result'[v]) = Len(result[v]) + 1
      BY <1>0, <2>4, <3>1, EndsDoes DEF Grown
    <3> QED BY <1>0, <1>1, <1>2, <2>1, <2>4, <3>2 DEF Progress, Begun
  <2> QED BY <2>1, <2>2, <2>3, <2>4 DEF Begun
<1>8. CASE Return(v) \/ ReturnOther(v)
  <2>1. Done(v)
    BY <1>0, <1>8, ReturnDoes
  <2> QED BY <1>6, <2>1 DEF Done
<1>9. CASE Pushing(v)
  <2>1. Pushed(v)
    BY <1>0, <1>9, PushDoes
  <2> QED BY <1>0, <1>1, <1>2, <2>1 DEF Progress, Pushed, Failed
<1>10. CASE Aside(v)
  <2>1. Stepped(v)
    BY <1>0, <1>10, AsideDoes
  <2> QED BY <1>0, <1>1, <1>2, <2>1 DEF Progress, Stepped, Failed
<1> QED BY <1>4, <1>5, <1>7, <1>8, <1>9, <1>10, UserSteps

\* A VU keeps what it asked for as long as its call and its place stand.
LEMMA SameCall ==
  ASSUME NEW v, UNCHANGED <<world, script>>, call'[v] = call[v]
  PROVE  /\ Current(v)' = Current(v) /\ MethodOf(v)' = MethodOf(v)
         /\ Converts(v)' = Converts(v) /\ Wanted(v)' = Wanted(v) /\ Directed(v)' = Directed(v)
<1>1. Current(v)' = Current(v) /\ MethodOf(v)' = MethodOf(v)
  BY DEF Current, MethodOf
<1>2. Converts(v)' = Converts(v) /\ Wanted(v)' = Wanted(v)
  BY <1>1 DEF Converts, Wanted
<1> QED BY <1>1, <1>2 DEF Directed

LEMMA SameKept ==
  ASSUME NEW v, UNCHANGED <<world, script>>, Same(v), Progress(v), Asking(v)
  PROVE  Progress(v)' /\ Asking(v)'
<1>1. call'[v] = call[v]
  BY DEF Same
<1>2. Asking(v)'
  BY <1>1, SameCall DEF Same, Asking
<1>3. Progress(v)'
  BY DEF Same, Progress, Failed
<1> QED BY <1>2, <1>3

LEMMA AskingKept ==
  ASSUME Users, NEW v \in VU, UserStep(v)
  PROVE  Asking(v)'
<1>0. Shape /\ Progress(v) /\ Asking(v) /\ UNCHANGED <<world, script>>
  BY Frame DEF Users
<1>1. CASE Invoke(v)
  <2>1. Invoked(v)
    BY <1>0, <1>1, InvokeDoes
  <2> QED BY <2>1 DEF Invoked, Asking, Underway
<1>2. CASE CleanUp(v)
  <2>1. Cleaned(v)
    BY <1>0, <1>2, CleanUpDoes
  <2> QED BY <2>1 DEF Cleaned, Asking, Underway
<1>3. ASSUME call' = call PROVE Converts(v)' = Converts(v) /\ Wanted(v)' = Wanted(v)
                              /\ Directed(v)' = Directed(v)
  BY <1>0, <1>3, SameCall
<1>4. CASE Begin(v)
  <2>1. Begun(v)
    BY <1>0, <1>4, BeginDoes
  <2>2. CASE pc'[v] = "visit" /\ result' = result
    <3>1. request[v] = Wanted(v) /\ Converts(v)
      BY <1>0, <2>1 DEF Asking, Begun, Underway
    <3>2. /\ Prepared(script[v].kind, request[v], world.ports) = Directed(v)
          /\ script[v].kind \in {"pod", "service"} /\ Wanted(v).type \in Commanded
      BY <2>1, <3>1 DEF Directed, Begun, ThroughAgents
    <3>3. pc[v] = "begin" /\ pc'[v] # "end" /\ pc'[v] # "idle" /\ pc'[v] # "threw"
      BY <2>1, <2>2 DEF Begun
    <3>4. Directed(v).status = "ok" /\ request'[v] = Directed(v).request
      BY <2>1, <2>2, <3>2, <3>3 DEF Begun, Returns
    <3> QED BY <1>0, <1>3, <2>1, <2>2, <3>1, <3>2, <3>4 DEF Asking, Begun, Underway
  <2>3. CASE pc'[v] \in {"idle", "threw", "end"}
    BY <2>3 DEF Asking, Underway
  <2> QED BY <2>1, <2>2, <2>3 DEF Begun, Returns
<1>5. CASE Return(v) \/ ReturnOther(v)
  <2>1. Done(v)
    BY <1>0, <1>5, ReturnDoes
  <2> QED BY <2>1 DEF Done, Returns, Asking, Underway
<1>6. CASE Pushing(v)
  <2>1. Pushed(v)
    BY <1>0, <1>6, PushDoes
  <2> QED BY <1>0, <1>3, <2>1 DEF Pushed, Asking, Underway
<1>7. CASE Aside(v)
  <2>1. Stepped(v)
    BY <1>0, <1>7, AsideDoes
  <2> QED BY <1>0, <1>3, <2>1 DEF Stepped, Asking, Underway
<1> QED BY <1>1, <1>2, <1>4, <1>5, <1>6, <1>7, UserSteps

LEMMA UsersKept == Users /\ [Next]_vars => Users'
<1> SUFFICES ASSUME Users, [Next]_vars PROVE Users'
  OBVIOUS
<1>1. Shape'
  BY ShapeKept
<1>2. CASE UNCHANGED vars
  <2>1. \A v \in VU : Same(v)
    BY <1>2 DEF vars, Same
  <2>2. UNCHANGED <<world, script>>
    BY <1>2 DEF vars
  <2> QED BY <1>1, <2>1, <2>2, SameKept DEF Users
<1>3. CASE PodStep
  BY <1>1, <1>3, PodFrame, SameKept DEF Users
<1>4. ASSUME NEW v \in VU, UserStep(v) PROVE Users'
  <2>1. \A w \in VU \ {v} : Progress(w)' /\ Asking(w)'
    BY <1>4, Frame, SameKept DEF Users
  <2> QED BY <1>1, <1>4, <2>1, ProgressKept, AskingKept DEF Users
<1> QED BY <1>2, <1>3, <1>4, Steps

LEMMA UsersInit == Init => Users
<1> SUFFICES ASSUME Init PROVE Users
  OBVIOUS
<1>1. Shape
  <2>1. /\ \E i \in DOMAIN Cases : world = Cases[i].world /\ script = Cases[i].script
        /\ pc \in [VU -> Places] /\ call \in [VU -> Nat] /\ DOMAIN target = VU
        /\ DOMAIN request = VU /\ visit \in [VU -> [Pod -> Visits]] /\ DOMAIN agent = Pod
        /\ cancelled \subseteq VU
    BY DEF Init, Places, Visits
  <2>2. result \in [VU -> Seq(Ending)]
    BY EmptySeq DEF Init
  <2>3. DOMAIN series = {}
    BY DEF Init
  <2> QED BY <2>1, <2>2, <2>3 DEF Shape
<1>2. ASSUME NEW v \in VU PROVE Progress(v)
  <2>1. call[v] = 0 /\ pc[v] = "new" /\ Len(result[v]) = 0
    BY DEF Init
  <2>2. Len(script[v].calls) \in 0 .. MaxCalls
    BY <1>1, CaseFacts
  <2> QED BY <2>1, <2>2, MaxCallsAssumption DEF Progress, Underway, Closing
<1>3. ASSUME NEW v \in VU PROVE Asking(v)
  BY DEF Init, Asking, Underway
<1> QED BY <1>1, <1>2, <1>3 DEF Users

THEOREM UsersCorrect == Spec => []Users
BY UsersInit, UsersKept, PTL DEF Spec

(***************************************************************************)
(* Counting.  A set that changes in one element changes its cardinality by *)
(* what happens to that element.                                           *)
(***************************************************************************)
Bit(b) == IF b THEN 1 ELSE 0

LEMMA Toggle ==
  ASSUME NEW S, IsFiniteSet(S), NEW T, NEW x, T \ {x} = S \ {x}
  PROVE  Cardinality(T) = Cardinality(S) + Bit(x \in T) - Bit(x \in S)
<1>1. Cardinality(S) \in Nat
  BY FS_CardinalityType
<1>2. CASE x \in S /\ x \in T
  <2>1. T = S
    BY <1>2
  <2> QED BY <1>1, <1>2, <2>1 DEF Bit
<1>3. CASE x \notin S /\ x \notin T
  <2>1. T = S
    BY <1>3
  <2> QED BY <1>1, <1>3, <2>1 DEF Bit
<1>4. CASE x \notin S /\ x \in T
  <2>1. T = S \cup {x}
    BY <1>4
  <2>2. Cardinality(T) = Cardinality(S) + 1
    BY <1>4, <2>1, FS_AddElement
  <2> QED BY <1>1, <1>4, <2>2 DEF Bit
<1>5. CASE x \in S /\ x \notin T
  <2>1. T = S \ {x}
    BY <1>5
  <2>2. Cardinality(T) = Cardinality(S) - 1
    BY <1>5, <2>1, FS_RemoveElement
  <2> QED BY <1>1, <1>5, <2>2 DEF Bit
<1> QED BY <1>2, <1>3, <1>4, <1>5

\* The sets that are counted are finite.
LEMMA CountedFinite ==
  ASSUME NEW s, NEW places, NEW outcomes
  PROVE  /\ IsFiniteSet(Reporting(s, places))
         /\ IsFiniteSet({v \in Reporting(s, places) : Failed(v)})
         /\ IsFiniteSet(Returned(s, outcomes))
<1>1. IsFiniteSet(VU \ Setup)
  BY UsersAssumption, FS_Subset
<1>2. Reporting(s, places) \subseteq VU \ Setup
  BY DEF Reporting, Tracking
<1>3. {v \in Reporting(s, places) : Failed(v)} \subseteq VU \ Setup
  BY <1>2
<1>4. IsFiniteSet((VU \ Setup) \X (1 .. MaxCalls))
  <2>1. IsFiniteSet(1 .. MaxCalls)
    BY MaxCallsAssumption, FS_Interval
  <2> QED BY <1>1, <2>1, FS_Product
<1>5. Returned(s, outcomes) \subseteq (VU \ Setup) \X (1 .. MaxCalls)
  BY DEF Returned
<1> QED BY <1>1, <1>2, <1>3, <1>4, <1>5, FS_Subset

\* A step of one VU puts that VU into a set or takes it out.
LEMMA ReportingToggled ==
  ASSUME NEW v \in VU, \A w \in VU \ {v} : Same(w), NEW s, NEW places
  PROVE  /\ Reporting(s, places)' \ {v} = Reporting(s, places) \ {v}
         /\ {w \in Reporting(s, places) : Failed(w)}' \ {v}
              = {w \in Reporting(s, places) : Failed(w)} \ {v}
<1>1. \A w \in VU \ {v} : (w \in Reporting(s, places))' <=> w \in Reporting(s, places)
  BY DEF Reporting, Tracking, Series, Same
<1>2. \A w \in VU \ {v} : Failed(w)' <=> Failed(w)
  BY DEF Failed, Same
<1>3. Reporting(s, places) \subseteq VU /\ Reporting(s, places)' \subseteq VU
  BY DEF Reporting, Tracking
<1> QED BY <1>1, <1>2, <1>3

\* A call that ended before Track, or one that has not ended, is not counted.
LEMMA ReturnedSame ==
  ASSUME Shape, NEW v \in VU, \A w \in VU \ {v} : Same(w),
         target'[v] = target[v] \/ Len(result[v]) = 0,
         result'[v] = result[v] \/ \E o \in {"ok", "error", "panic"} : Ends(v, "", o),
         result'[v] = result[v] \/ target'[v] = target[v],
         NEW s, s.type \in FaultTypes, NEW outcomes
  PROVE  Returned(s, outcomes)' = Returned(s, outcomes)
<1> DEFINE counted(w, i) == /\ target[w] = s.target
                            /\ i \in DOMAIN result[w]
                            /\ result[w][i].type = s.type
                            /\ result[w][i].outcome \in outcomes
<1>1. s.type # ""
  BY DEF FaultTypes, Commanded, Protocol
<1>2. \A w \in VU \ {v}, i \in 1 .. MaxCalls : counted(w, i)' <=> counted(w, i)
  BY DEF Same
<1>3. ASSUME NEW i \in 1 .. MaxCalls PROVE counted(v, i)' <=> counted(v, i)
  <2>1. CASE result'[v] = result[v] /\ target'[v] = target[v]
    BY <2>1
  <2>2. CASE result'[v] = result[v] /\ Len(result[v]) = 0
    <3>1. DOMAIN result[v] = {}
      BY <2>2, LenProperties DEF Shape
    <3> QED BY <2>2, <3>1
  <2>3. CASE target'[v] = target[v] /\ \E o \in {"ok", "error", "panic"} : Ends(v, "", o)
    <3>1. PICK o \in {"ok", "error", "panic"} : Grown(v, "", o)
      BY <2>3, EndsDoes
    <3>2. /\ i \in DOMAIN result[v] => i \in DOMAIN result'[v] /\ result'[v][i] = result[v][i]
          /\ i \in DOMAIN result'[v] /\ i \notin DOMAIN result[v] => i = Len(result[v]) + 1
      BY <3>1 DEF Grown
    <3>3. i = Len(result[v]) + 1 => result'[v][i].type = ""
      BY <3>1 DEF Grown
    <3>4. target'[v] = target[v]
      BY <2>3
    <3> QED BY <1>1, <3>2, <3>3, <3>4
  <2> QED BY <2>1, <2>2, <2>3
<1>4. \A w \in VU, i \in 1 .. MaxCalls : counted(w, i)' <=> counted(w, i)
  BY <1>2, <1>3
<1>5. Returned(s, outcomes) = {r \in (VU \ Setup) \X (1 .. MaxCalls) : counted(r[1], r[2])}
  BY DEF Returned
<1>6. Returned(s, outcomes)' = {r \in (VU \ Setup) \X (1 .. MaxCalls) : counted(r[1], r[2])'}
  BY DEF Returned
<1> HIDE DEF counted
<1> QED BY <1>4, <1>5, <1>6

\* The call that ends is counted under its tags and outcome.
LEMMA ReturnedMore ==
  ASSUME Shape, NEW v \in VU, \A w \in VU \ {v} : Same(w), target'[v] = target[v],
         NEW type \in FaultTypes, NEW o \in {"ok", "error", "panic"}, Ends(v, type, o),
         Len(result[v]) + 1 <= MaxCalls, NEW s, NEW outcomes
  PROVE  LET r == <<v, Len(result[v]) + 1>>
         IN  /\ Returned(s, outcomes)' \ {r} = Returned(s, outcomes) \ {r}
             /\ r \notin Returned(s, outcomes)
             /\ r \in Returned(s, outcomes)' <=>
                  v \notin Setup /\ target[v] = s.target /\ type = s.type /\ o \in outcomes
<1> DEFINE counted(w, i) == /\ target[w] = s.target
                            /\ i \in DOMAIN result[w]
                            /\ result[w][i].type = s.type
                            /\ result[w][i].outcome \in outcomes
<1>1. Grown(v, type, o)
  BY EndsDoes
<1>0. PICK n \in Nat : n = Len(result[v]) + 1
  BY <1>1 DEF Grown
<1>2. \A w \in VU \ {v}, i \in 1 .. MaxCalls : counted(w, i)' <=> counted(w, i)
  BY DEF Same
<1>3. \A i \in 1 .. MaxCalls : i # n => counted(v, i)' <=> counted(v, i)
  BY <1>1, <1>0 DEF Grown
<1>4. ~counted(v, n)
  BY <1>1, <1>0 DEF Grown
<1>5. counted(v, n)' <=> target[v] = s.target /\ type = s.type /\ o \in outcomes
  <2>1. n \in DOMAIN result'[v] /\ result'[v][n].type = type /\ result'[v][n].outcome = o
    BY <1>1, <1>0 DEF Grown
  <2> QED BY <2>1
<1>6. n \in 1 .. MaxCalls
  BY <1>1, <1>0, MaxCallsAssumption DEF Grown
<1>7. Returned(s, outcomes) = {r \in (VU \ Setup) \X (1 .. MaxCalls) : counted(r[1], r[2])}
  BY DEF Returned
<1>8. Returned(s, outcomes)' = {r \in (VU \ Setup) \X (1 .. MaxCalls) : counted(r[1], r[2])'}
  BY DEF Returned
<1>9. <<v, n>> \in Returned(s, outcomes)' <=>
        v \notin Setup /\ target[v] = s.target /\ type = s.type /\ o \in outcomes
  <2> HIDE DEF counted
  <2>1. <<v, n>> \in Returned(s, outcomes)' <=> v \in VU \ Setup /\ counted(v, n)'
    BY <1>6, <1>8
  <2> QED BY <1>5, <2>1
<1>10. <<v, n>> \notin Returned(s, outcomes)
  <2> HIDE DEF counted
  <2> QED BY <1>4, <1>7
<1>11. Returned(s, outcomes)' \ {<<v, n>>} = Returned(s, outcomes) \ {<<v, n>>}
  <2> HIDE DEF counted
  <2>1. ASSUME NEW r \in (VU \ Setup) \X (1 .. MaxCalls), r # <<v, n>>
        PROVE  counted(r[1], r[2])' <=> counted(r[1], r[2])
    <3>1. r = <<r[1], r[2]>> /\ r[1] \in VU /\ r[2] \in 1 .. MaxCalls
      BY <2>1
    <3> QED BY <1>2, <1>3, <2>1, <3>1
  <2> QED BY <1>7, <1>8, <2>1
<1> QED BY <1>9, <1>10, <1>11, <1>0

(***************************************************************************)
(* The counters of a series.                                               *)
(***************************************************************************)
Both == {"ok", "error"}
Open == {"begin", "visit"}
Thrown(s) == {v \in Reporting(s, {"idle", "failed"}) : Failed(v)}

Agree(s) ==
  /\ Sampled(s).injected = Cardinality(Returned(s, Both)) + Cardinality(Reporting(s, Open))
  /\ Sampled(s).ended = Cardinality(Returned(s, Both)) - Cardinality(Reporting(s, Closing))
  /\ Sampled(s).failed = Cardinality(Returned(s, {"error"})) - Cardinality(Thrown(s))

\* The tags of a series, and those of one whose samples are all sent.
SeriesTags == {"target", "type"}
IsTags(s) == DOMAIN s = SeriesTags /\ s = [target |-> s.target, type |-> s.type]
               /\ s.type \in FaultTypes

Counting ==
  /\ \A s \in DOMAIN series : IsTags(s)
  /\ \A s : IsTags(s) /\ s \notin lost => Agree(s)

\* One step of one VU: what it adds to the counters is what it does to the
\* sets they count.
LEMMA AgreeKept ==
  ASSUME Users, Users', NEW v \in VU, \A w \in VU \ {v} : Same(w), NEW s, Agree(s),
         NEW r,
         Returned(s, Both)' \ {r} = Returned(s, Both) \ {r},
         Returned(s, {"error"})' \ {r} = Returned(s, {"error"}) \ {r},
         Sampled(s)'.injected = Sampled(s).injected
           + (Bit((r \in Returned(s, Both))') - Bit(r \in Returned(s, Both)))
           + (Bit((v \in Reporting(s, Open))') - Bit(v \in Reporting(s, Open))),
         Sampled(s)'.ended = Sampled(s).ended
           + (Bit((r \in Returned(s, Both))') - Bit(r \in Returned(s, Both)))
           - (Bit((v \in Reporting(s, Closing))') - Bit(v \in Reporting(s, Closing))),
         Sampled(s)'.failed = Sampled(s).failed
           + (Bit((r \in Returned(s, {"error"}))') - Bit(r \in Returned(s, {"error"})))
           - (Bit((v \in Thrown(s))') - Bit(v \in Thrown(s)))
  PROVE  Agree(s)'
<1> DEFINE R == Returned(s, Both)
           E == Returned(s, {"error"})
           A == Reporting(s, Open)
           B == Reporting(s, Closing)
           C == Thrown(s)
<1>1. /\ IsFiniteSet(R) /\ IsFiniteSet(E) /\ IsFiniteSet(A) /\ IsFiniteSet(B) /\ IsFiniteSet(C)
  BY CountedFinite DEF Thrown
<1>2. /\ Cardinality(R) \in Nat /\ Cardinality(E) \in Nat /\ Cardinality(A) \in Nat
      /\ Cardinality(B) \in Nat /\ Cardinality(C) \in Nat
  BY <1>1, FS_CardinalityType
<1>3. A' \ {v} = A \ {v} /\ B' \ {v} = B \ {v} /\ C' \ {v} = C \ {v}
  BY ReportingToggled DEF Thrown
<1> HIDE DEF R, E, A, B, C
<1>4. Cardinality(R') = Cardinality(R) + Bit(r \in R') - Bit(r \in R)
  BY <1>1, Toggle DEF R
<1>5. Cardinality(E') = Cardinality(E) + Bit(r \in E') - Bit(r \in E)
  BY <1>1, Toggle DEF E
<1>6. Cardinality(A') = Cardinality(A) + Bit(v \in A') - Bit(v \in A)
  BY <1>1, <1>3, Toggle
<1>7. Cardinality(B') = Cardinality(B) + Bit(v \in B') - Bit(v \in B)
  BY <1>1, <1>3, Toggle
<1>8. Cardinality(C') = Cardinality(C) + Bit(v \in C') - Bit(v \in C)
  BY <1>1, <1>3, Toggle
<1>9. \A b : Bit(b) \in {0, 1}
  BY DEF Bit
<1>10. Sampled(s).injected = Cardinality(R) + Cardinality(A)
  BY DEF Agree, R, A
<1>11. Sampled(s).ended = Cardinality(R) - Cardinality(B)
  BY DEF Agree, R, B
<1>12. Sampled(s).failed = Cardinality(E) - Cardinality(C)
  BY DEF Agree, E, C
<1>13. Sampled(s)'.injected = Cardinality(R') + Cardinality(A')
  BY <1>2, <1>4, <1>6, <1>9, <1>10 DEF R, A
<1>14. Sampled(s)'.ended = Cardinality(R') - Cardinality(B')
  BY <1>2, <1>4, <1>7, <1>9, <1>11 DEF R, B
<1>15. Sampled(s)'.failed = Cardinality(E') - Cardinality(C')
  BY <1>2, <1>5, <1>8, <1>9, <1>12 DEF E, C
<1> QED BY <1>13, <1>14, <1>15 DEF Agree, R, E, A, B, C

LEMMA Membership ==
  ASSUME NEW v \in VU, NEW s
  PROVE  /\ \A places : v \in Reporting(s, places) <=>
              v \notin Setup /\ pc[v] \in InTrack \cap places /\ Series(v) = s
         /\ v \in Thrown(s) <=>
              v \notin Setup /\ pc[v] \in {"idle", "failed"} /\ Series(v) = s /\ Failed(v)
BY DEF Reporting, Tracking, Thrown, InTrack

\* A step that sends no sample and ends no tracked call.
LEMMA QuietStep ==
  ASSUME Users, Users', NEW v \in VU, \A w \in VU \ {v} : Same(w), NEW s, Agree(s),
         series' = series,
         Returned(s, Both)' = Returned(s, Both),
         Returned(s, {"error"})' = Returned(s, {"error"}),
         (v \in Reporting(s, Open))' <=> v \in Reporting(s, Open),
         (v \in Reporting(s, Closing))' <=> v \in Reporting(s, Closing),
         (v \in Thrown(s))' <=> v \in Thrown(s)
  PROVE  Agree(s)'
<1>1. Sampled(s)' = Sampled(s)
  BY DEF Sampled
<1>2. Sampled(s) \in Samples
  BY SampledShape DEF Users, Shape
<1>3. /\ Sampled(s).injected \in Nat /\ Sampled(s).ended \in Nat /\ Sampled(s).failed \in Nat
  BY <1>2 DEF Samples
<1>4. /\ Sampled(s)'.injected = Sampled(s).injected
           + (Bit((v \in Returned(s, Both))') - Bit(v \in Returned(s, Both)))
           + (Bit((v \in Reporting(s, Open))') - Bit(v \in Reporting(s, Open)))
      /\ Sampled(s)'.ended = Sampled(s).ended
           + (Bit((v \in Returned(s, Both))') - Bit(v \in Returned(s, Both)))
           - (Bit((v \in Reporting(s, Closing))') - Bit(v \in Reporting(s, Closing)))
      /\ Sampled(s)'.failed = Sampled(s).failed
           + (Bit((v \in Returned(s, {"error"}))') - Bit(v \in Returned(s, {"error"})))
           - (Bit((v \in Thrown(s))') - Bit(v \in Thrown(s)))
  BY <1>1, <1>3 DEF Bit
<1> QED BY <1>4, AgreeKept

\* A step that sends a sample.
LEMMA PushSampled ==
  ASSUME NEW v, NEW sample, Push(v, sample)
  PROVE  /\ lost \subseteq lost'
         /\ DOMAIN series' \subseteq DOMAIN series \cup {Series(v)}
         /\ \A s : s \notin lost' =>
              Sampled(s)' = IF s = Series(v) THEN sample ELSE Sampled(s)
BY DEF Push, Sampled

LEMMA CountedAside ==
  ASSUME Users, Users', NEW v \in VU, \A w \in VU \ {v} : Same(w), Aside(v),
         NEW s, IsTags(s), Agree(s)
  PROVE  Agree(s)'
<1>1. Shape /\ Progress(v) /\ Stepped(v)
  BY AsideDoes DEF Users
<1>2. result' = result /\ series' = series /\ request' = request
  BY <1>1 DEF Stepped
<1>3. target'[v] = target[v] \/ Len(result[v]) = 0
  <2>1. pc[v] = "new" => Len(result[v]) = 0
    BY <1>1 DEF Progress, Underway
  <2> QED BY <1>1, <2>1 DEF Stepped
<1>4. \A outcomes : Returned(s, outcomes)' = Returned(s, outcomes)
  BY <1>1, <1>2, <1>3, ReturnedSame DEF IsTags
<1>5. \/ pc'[v] = pc[v] /\ target' = target
      \/ pc[v] \notin InTrack /\ pc'[v] \notin InTrack
  BY <1>1 DEF Stepped, InTrack
<1>6. Failed(v)' <=> Failed(v)
  BY <1>2 DEF Failed
<1>7. \A places : (v \in Reporting(s, places))' <=> v \in Reporting(s, places)
  BY <1>2, <1>5 DEF Reporting, Tracking, Series
<1>8. (v \in Thrown(s))' <=> v \in Thrown(s)
  BY <1>6, <1>7 DEF Thrown
<1> QED BY <1>2, <1>4, <1>7, <1>8, QuietStep

LEMMA CountedStart ==
  ASSUME Users, Users', NEW v \in VU, \A w \in VU \ {v} : Same(w), Invoke(v) \/ CleanUp(v),
         NEW s, IsTags(s), Agree(s)
  PROVE  Agree(s)'
<1>1. Shape /\ (Invoked(v) \/ Cleaned(v))
  BY InvokeDoes, CleanUpDoes DEF Users
<1>2. target' = target /\ series' = series
  BY <1>1 DEF Invoked, Cleaned
<1>3. result'[v] = result[v] \/ \E o \in {"ok", "error", "panic"} : Ends(v, "", o)
  BY <1>1 DEF Invoked, Cleaned
<1>4. \A outcomes : Returned(s, outcomes)' = Returned(s, outcomes)
  BY <1>1, <1>2, <1>3, ReturnedSame DEF IsTags
<1>5. pc[v] = "script" /\ (v \in Setup \/ pc'[v] \in {"active", "threw", "end", "script"})
  BY <1>1 DEF Invoked, Cleaned
<1>6. /\ \A places \in {Open, Closing} : v \notin Reporting(s, places)
      /\ v \notin Thrown(s)
  BY <1>5 DEF Reporting, Tracking, Thrown, InTrack
<1>7. /\ \A places \in {Open, Closing} : (v \notin Reporting(s, places))'
      /\ (v \notin Thrown(s))'
  BY <1>5 DEF Reporting, Tracking, Thrown, Open, Closing
<1> QED BY <1>2, <1>4, <1>6, <1>7, QuietStep

LEMMA CountedPush ==
  ASSUME Users, Users', NEW v \in VU, \A w \in VU \ {v} : Same(w), Pushing(v),
         NEW s, IsTags(s), s \notin lost', Agree(s)
  PROVE  Agree(s)'
<1>1. Shape /\ Progress(v) /\ Pushed(v)
  BY PushDoes DEF Users
<1>2. target' = target /\ request' = request /\ result' = result
  BY <1>1 DEF Pushed
<1>3. Series(v)' = Series(v) /\ (Failed(v)' <=> Failed(v))
  BY <1>2 DEF Series, Failed
<1>4. Sampled(s) \in Samples
  BY <1>1, SampledShape DEF Shape
<1>5. \A outcomes : Returned(s, outcomes)' = Returned(s, outcomes)
  BY <1>1, <1>2, ReturnedSame DEF IsTags
<1>6. v \notin Setup
  <2>1. v \in Setup => pc[v] \notin {"active", "injected"} \cup Closing
    BY <1>1 DEF Progress
  <2> QED BY <1>1, <2>1 DEF Pushed, Closing
<1>7. pc[v] = "failed" => Failed(v)
  BY <1>1 DEF Progress
<1>8. CASE s # Series(v)
  <2>1. Sampled(s)' = Sampled(s)
    BY <1>1, <1>8, PushSampled DEF Pushed
  <2>2. /\ \A places : v \notin Reporting(s, places)
        /\ v \notin Thrown(s)
    BY <1>8, Membership
  <2>3. /\ \A places : (v \notin Reporting(s, places))'
        /\ (v \notin Thrown(s))'
    BY <1>3, <1>8 DEF Reporting, Tracking, Thrown
  <2>4. /\ Sampled(s).injected \in Nat /\ Sampled(s).ended \in Nat /\ Sampled(s).failed \in Nat
    BY <1>4 DEF Samples
  <2>5. /\ Sampled(s)'.injected = Sampled(s).injected
           + (Bit((v \in Returned(s, Both))') - Bit(v \in Returned(s, Both)))
           + (Bit((v \in Reporting(s, Open))') - Bit(v \in Reporting(s, Open)))
        /\ Sampled(s)'.ended = Sampled(s).ended
           + (Bit((v \in Returned(s, Both))') - Bit(v \in Returned(s, Both)))
           - (Bit((v \in Reporting(s, Closing))') - Bit(v \in Reporting(s, Closing)))
        /\ Sampled(s)'.failed = Sampled(s).failed
           + (Bit((v \in Returned(s, {"error"}))') - Bit(v \in Returned(s, {"error"})))
           - (Bit((v \in Thrown(s))') - Bit(v \in Thrown(s)))
    BY <1>5, <2>1, <2>2, <2>3, <2>4 DEF Bit
  <2> QED BY <1>5, <2>5, AgreeKept
<1>9. CASE s = Series(v)
  <2>1. /\ (v \in Reporting(s, Open))' <=> pc'[v] \in InTrack \cap Open
        /\ (v \in Reporting(s, Closing))' <=> pc'[v] \in InTrack \cap Closing
        /\ (v \in Thrown(s))' <=> pc'[v] \in {"idle", "failed"} /\ Failed(v)
    BY <1>3, <1>6, <1>9 DEF Reporting, Tracking, Thrown, InTrack
  <2>2. /\ v \in Reporting(s, Open) <=> pc[v] \in InTrack \cap Open
        /\ v \in Reporting(s, Closing) <=> pc[v] \in InTrack \cap Closing
        /\ v \in Thrown(s) <=> pc[v] \in {"idle", "failed"} /\ Failed(v)
    BY <1>6, <1>9, Membership
  <2>3. /\ Bit((v \in Returned(s, Both))') = Bit(v \in Returned(s, Both))
        /\ Bit((v \in Returned(s, {"error"}))') = Bit(v \in Returned(s, {"error"}))
        /\ Bit(v \in Returned(s, Both)) \in Nat
        /\ Bit(v \in Returned(s, {"error"})) \in Nat
    BY <1>5 DEF Bit
  <2>4. \A sample : Push(v, sample) => Sampled(s)' = sample
    BY <1>9, PushSampled
  <2>5. \/ /\ pc[v] = "active" /\ pc'[v] = "injected"
           /\ Sampled(s)' = [Sampled(s) EXCEPT !.active = 1]
        \/ /\ pc[v] = "injected" /\ pc'[v] = "begin"
           /\ Sampled(s)' = [Sampled(s) EXCEPT !.injected = @ + 1]
        \/ /\ pc[v] = "idle" /\ pc'[v] = (IF Failed(v) THEN "failed" ELSE "ended")
           /\ Sampled(s)' = [Sampled(s) EXCEPT !.active = 0]
        \/ /\ pc[v] = "failed" /\ pc'[v] = "ended"
           /\ Sampled(s)' = [Sampled(s) EXCEPT !.failed = @ + 1]
        \/ /\ pc[v] = "ended" /\ pc'[v] = (IF Failed(v) THEN "threw" ELSE "script")
           /\ Sampled(s)' = [Sampled(s) EXCEPT !.ended = @ + 1]
    BY <1>1, <1>9, <2>4 DEF Pushed
  <2>6. PICK x \in Samples : x = Sampled(s)
    BY <1>4
  <2>7. /\ x.injected \in Nat /\ x.ended \in Nat /\ x.failed \in Nat
        /\ DOMAIN x = {"active", "injected", "failed", "ended"}
    BY <2>6 DEF Samples
  <2> DEFINE dA == Bit((v \in Reporting(s, Open))') - Bit(v \in Reporting(s, Open))
             dB == Bit((v \in Reporting(s, Closing))') - Bit(v \in Reporting(s, Closing))
             dC == Bit((v \in Thrown(s))') - Bit(v \in Thrown(s))
  <2>8. /\ Sampled(s)'.injected = x.injected + dA
        /\ Sampled(s)'.ended = x.ended - dB
        /\ Sampled(s)'.failed = x.failed - dC
    <3>1. CASE pc[v] = "active" /\ pc'[v] = "injected"
      <4>1. dA = 0 /\ dB = 0 /\ dC = 0
        BY <2>1, <2>2, <3>1 DEF Bit, InTrack, Open, Closing
      <4>2. Sampled(s)' = [x EXCEPT !.active = 1]
        BY <2>5, <2>6, <3>1
      <4> QED BY <2>7, <4>1, <4>2
    <3>2. CASE pc[v] = "injected" /\ pc'[v] = "begin"
      <4>1. dA = 1 /\ dB = 0 /\ dC = 0
        BY <2>1, <2>2, <3>2 DEF Bit, InTrack, Open, Closing
      <4>2. Sampled(s)' = [x EXCEPT !.injected = @ + 1]
        BY <2>5, <2>6, <3>2
      <4> QED BY <2>7, <4>1, <4>2
    <3>3. CASE pc[v] = "idle" /\ pc'[v] = (IF Failed(v) THEN "failed" ELSE "ended")
      <4>1. dA = 0 /\ dB = 0 /\ dC = 0
        BY <2>1, <2>2, <3>3 DEF Bit, InTrack, Open, Closing
      <4>2. Sampled(s)' = [x EXCEPT !.active = 0]
        BY <2>5, <2>6, <3>3
      <4> QED BY <2>7, <4>1, <4>2
    <3>4. CASE pc[v] = "failed" /\ pc'[v] = "ended"
      <4>1. dA = 0 /\ dB = 0 /\ dC = -1
        BY <1>7, <2>1, <2>2, <3>4 DEF Bit, InTrack, Open, Closing
      <4>2. Sampled(s)' = [x EXCEPT !.failed = @ + 1]
        BY <2>5, <2>6, <3>4
      <4> QED BY <2>7, <4>1, <4>2
    <3>5. CASE pc[v] = "ended" /\ pc'[v] = (IF Failed(v) THEN "threw" ELSE "script")
      <4>1. dA = 0 /\ dB = -1 /\ dC = 0
        BY <2>1, <2>2, <3>5 DEF Bit, InTrack, Open, Closing
      <4>2. Sampled(s)' = [x EXCEPT !.ended = @ + 1]
        BY <2>5, <2>6, <3>5
      <4> QED BY <2>7, <4>1, <4>2
    <3> QED BY <2>5, <3>1, <3>2, <3>3, <3>4, <3>5
  <2>9. dA \in Int /\ dB \in Int /\ dC \in Int
    BY DEF Bit
  <2> HIDE DEF dA, dB, dC
  <2>10. /\ Sampled(s)'.injected = Sampled(s).injected
           + (Bit((v \in Returned(s, Both))') - Bit(v \in Returned(s, Both))) + dA
         /\ Sampled(s)'.ended = Sampled(s).ended
           + (Bit((v \in Returned(s, Both))') - Bit(v \in Returned(s, Both))) - dB
         /\ Sampled(s)'.failed = Sampled(s).failed
           + (Bit((v \in Returned(s, {"error"}))') - Bit(v \in Returned(s, {"error"}))) - dC
    BY <2>3, <2>6, <2>7, <2>8, <2>9
  <2> QED BY <1>5, <2>10, AgreeKept DEF dA, dB, dC
<1> QED BY <1>8, <1>9

LEMMA CountedReturn ==
  ASSUME Users, Users', NEW v \in VU, \A w \in VU \ {v} : Same(w), pc[v] \in Open,
         NEW o \in Both, Returns(v, o),
         UNCHANGED <<script, call, target, request, series>>,
         NEW s, IsTags(s), Agree(s)
  PROVE  Agree(s)'
<1>1. Shape /\ Progress(v) /\ Asking(v) /\ Progress(v)'
  BY DEF Users
<1>2. request[v].type \in FaultTypes
  BY <1>1, TypeUnderway DEF Underway, Open
<1>3. Grown(v, request[v].type, o)
  BY <1>1, <1>2, EndsDoes DEF Returns, Both
<1>4. Len(result[v]) + 1 <= MaxCalls
  <2>1. Len(script[v].calls) \in 0 .. MaxCalls
    BY <1>1, CaseFacts
  <2>2. Len(result[v]) = call[v] - 1 /\ call[v] <= Len(script[v].calls) /\ call[v] \in Nat
    BY <1>1 DEF Progress, Underway, Open, Shape
  <2> QED BY <2>1, <2>2, MaxCallsAssumption
<1>5. target'[v] = target[v] /\ Ends(v, request[v].type, o)
  BY DEF Returns
<1> DEFINE r == <<v, Len(result[v]) + 1>>
           mine == v \notin Setup /\ Series(v) = s
<1>6. PICK q : q = r
  OBVIOUS
<1>7. \A outcomes : /\ Returned(s, outcomes)' \ {q} = Returned(s, outcomes) \ {q}
                    /\ q \notin Returned(s, outcomes)
                    /\ q \in Returned(s, outcomes)' <=>
                         v \notin Setup /\ target[v] = s.target /\ request[v].type = s.type
                           /\ o \in outcomes
  BY <1>1, <1>2, <1>4, <1>5, <1>6, ReturnedMore DEF Both
<1>8. Series(v) = s <=> target[v] = s.target /\ request[v].type = s.type
  BY DEF Series, IsTags
<1>9. Failed(v)' <=> o = "error"
  BY <1>3 DEF Grown, Failed
<1>10. pc'[v] = IF v \in Setup THEN IF o = "ok" THEN "script" ELSE "threw" ELSE "idle"
  BY DEF Returns
<1>11. Series(v)' = Series(v)
  BY DEF Series
<1>12. /\ v \in Reporting(s, Open) <=> mine
       /\ v \notin Reporting(s, Closing)
       /\ v \notin Thrown(s)
  <2>1. /\ v \in Reporting(s, Open) <=> v \notin Setup /\ pc[v] \in InTrack \cap Open /\ Series(v) = s
        /\ v \in Reporting(s, Closing) => pc[v] \in Closing
        /\ v \in Thrown(s) => pc[v] \in {"idle", "failed"}
    BY Membership
  <2> QED BY <2>1 DEF Open, Closing, InTrack
<1>13. /\ (v \notin Reporting(s, Open))'
       /\ (v \in Reporting(s, Closing))' <=> mine
       /\ (v \in Thrown(s))' <=> mine /\ o = "error"
  BY <1>9, <1>10, <1>11 DEF Reporting, Tracking, Thrown, Open, Closing, InTrack
<1>14. /\ q \in Returned(s, Both)' <=> mine
       /\ q \in Returned(s, {"error"})' <=> mine /\ o = "error"
  BY <1>7, <1>8 DEF Both
<1>15. Sampled(s)' = Sampled(s) /\ Sampled(s) \in Samples
  BY <1>1, SampledShape DEF Sampled, Shape
<1>16. /\ Sampled(s).injected \in Nat /\ Sampled(s).ended \in Nat /\ Sampled(s).failed \in Nat
  BY <1>15 DEF Samples
<1> HIDE DEF mine
<1>17. /\ Sampled(s)'.injected = Sampled(s).injected
           + (Bit((q \in Returned(s, Both))') - Bit(q \in Returned(s, Both)))
           + (Bit((v \in Reporting(s, Open))') - Bit(v \in Reporting(s, Open)))
       /\ Sampled(s)'.ended = Sampled(s).ended
           + (Bit((q \in Returned(s, Both))') - Bit(q \in Returned(s, Both)))
           - (Bit((v \in Reporting(s, Closing))') - Bit(v \in Reporting(s, Closing)))
       /\ Sampled(s)'.failed = Sampled(s).failed
           + (Bit((q \in Returned(s, {"error"}))') - Bit(q \in Returned(s, {"error"})))
           - (Bit((v \in Thrown(s))') - Bit(v \in Thrown(s)))
  BY <1>7, <1>12, <1>13, <1>14, <1>15, <1>16 DEF Bit
<1> QED BY <1>7, <1>17, AgreeKept

LEMMA CountedBegin ==
  ASSUME Users, Users', NEW v \in VU, \A w \in VU \ {v} : Same(w), Begin(v),
         NEW s, IsTags(s), s \notin lost', Agree(s)
  PROVE  Agree(s)'
<1>1. Shape /\ Progress(v) /\ Asking(v) /\ Begun(v) /\ UNCHANGED script
  BY BeginDoes, Frame DEF Users, UserStep
<1>2. pc[v] = "begin" /\ target' = target /\ series' = series
  BY <1>1 DEF Begun
<1>3. request[v].type \in FaultTypes
  BY <1>1, <1>2, TypeUnderway DEF Underway
<1>4. CASE pc'[v] = "visit" /\ result' = result
  <2>1. request[v] = Wanted(v) /\ "type" \in DOMAIN Wanted(v)
    BY <1>1, <1>2 DEF Asking, Wanted, Request
  <2>2. request'[v].type = request[v].type
    BY <1>1, <1>4, <2>1, PreparedType DEF Begun, Returns
  <2>3. Series(v)' = Series(v) /\ (Failed(v)' <=> Failed(v))
    BY <1>2, <1>4, <2>2 DEF Series, Failed
  <2>4. \A outcomes : Returned(s, outcomes)' = Returned(s, outcomes)
    BY <1>1, <1>2, <1>4, ReturnedSame DEF IsTags
  <2>5. /\ (v \in Reporting(s, Open))' <=> v \in Reporting(s, Open)
        /\ (v \in Reporting(s, Closing))' <=> v \in Reporting(s, Closing)
        /\ (v \in Thrown(s))' <=> v \in Thrown(s)
    BY <1>2, <1>4, <2>3 DEF Reporting, Tracking, Thrown, Open, Closing, InTrack
  <2> QED BY <1>2, <2>4, <2>5, QuietStep
<1>5. CASE Returns(v, "error") /\ request' = request
  BY <1>1, <1>2, <1>5, CountedReturn DEF Begun, Both, Open
<1>6. CASE /\ Ends(v, request[v].type, "panic") /\ pc'[v] = "end" /\ request' = request
           /\ lost' = IF v \in Setup THEN lost ELSE lost \cup {Series(v)}
  <2>1. Len(result[v]) + 1 <= MaxCalls
    <3>1. Len(script[v].calls) \in 0 .. MaxCalls
      BY <1>1, CaseFacts
    <3>2. Len(result[v]) = call[v] - 1 /\ call[v] <= Len(script[v].calls) /\ call[v] \in Nat
      BY <1>1, <1>2 DEF Progress, Underway, Shape
    <3> QED BY <3>1, <3>2, MaxCallsAssumption
  <2>2. v \in Setup \/ Series(v) # s
    BY <1>6
  <2>3. Series(v) = s <=> target[v] = s.target /\ request[v].type = s.type
    BY DEF Series, IsTags
  <2>4. PICK q : q = <<v, Len(result[v]) + 1>>
    OBVIOUS
  <2>5. \A outcomes : /\ Returned(s, outcomes)' \ {q} = Returned(s, outcomes) \ {q}
                      /\ q \notin Returned(s, outcomes)
                      /\ q \notin Returned(s, outcomes)'
    BY <1>1, <1>2, <1>3, <1>6, <2>1, <2>2, <2>3, <2>4, ReturnedMore
  <2>6. \A outcomes : Returned(s, outcomes)' = Returned(s, outcomes)
    BY <2>5
  <2>7. /\ v \notin Reporting(s, Open) /\ v \notin Reporting(s, Closing) /\ v \notin Thrown(s)
    BY <2>2, Membership
  <2>8. /\ (v \notin Reporting(s, Open))' /\ (v \notin Reporting(s, Closing))'
        /\ (v \notin Thrown(s))'
    BY <1>6 DEF Reporting, Tracking, Thrown, Open, Closing, InTrack
  <2> QED BY <1>2, <2>6, <2>7, <2>8, QuietStep
<1> QED BY <1>1, <1>4, <1>5, <1>6 DEF Begun

\* The series named are those of faults, and no sample is taken back.
LEMMA SeriesKept ==
  ASSUME Users, NEW v \in VU, UserStep(v), \A s \in DOMAIN series : IsTags(s)
  PROVE  lost \subseteq lost' /\ \A s \in DOMAIN series' : IsTags(s)
<1>1. Shape /\ Progress(v) /\ Asking(v)
  BY DEF Users
<1>2. CASE Pushing(v)
  <2>1. Pushed(v)
    BY <1>1, <1>2, PushDoes
  <2>2. pc[v] \in Underway \cup Closing
    BY <2>1 DEF Pushed, Underway, Closing
  <2>3. IsTags(Series(v))
    BY <1>1, <2>2, TypeUnderway DEF IsTags, Series, SeriesTags
  <2>4. lost \subseteq lost' /\ DOMAIN series' \subseteq DOMAIN series \cup {Series(v)}
    BY <2>1, PushSampled DEF Pushed
  <2> QED BY <2>3, <2>4
<1>3. CASE ~Pushing(v)
  <2>1. series' = series
    BY <1>3 DEF UserStep, Pushing, New, Invoke, CleanUp, Threw, Begin, Return, ReturnOther, Cancel, End
  <2>2. lost \subseteq lost'
    BY <1>3 DEF UserStep, Pushing, New, Invoke, CleanUp, Threw, Begin, Return, ReturnOther, Cancel, End
  <2> QED BY <2>1, <2>2
<1> QED BY <1>2, <1>3

LEMMA CountingKept == Users /\ Users' /\ Counting /\ [Next]_vars => Counting'
<1> SUFFICES ASSUME Users, Users', Counting, [Next]_vars PROVE Counting'
  OBVIOUS
<1>1. CASE UNCHANGED <<pc, target, request, result, series, lost>>
  <2>1. \A s : Agree(s)' <=> Agree(s)
    BY <1>1 DEF Agree, Sampled, Returned, Reporting, Tracking, Series, Thrown, Failed
  <2> QED BY <1>1, <2>1 DEF Counting
<1>2. CASE UNCHANGED vars
  BY <1>1, <1>2 DEF vars
<1>3. CASE PodStep
  BY <1>1, <1>3, PodFrame
<1>4. ASSUME NEW v \in VU, UserStep(v) PROVE Counting'
  <2>1. Shape /\ \A w \in VU \ {v} : Same(w)
    BY <1>4, Frame DEF Users
  <2>2. lost \subseteq lost' /\ \A s \in DOMAIN series' : IsTags(s)
    BY <1>4, SeriesKept DEF Counting
  <2>3. ASSUME NEW s, IsTags(s), s \notin lost' PROVE Agree(s)'
    <3>1. Agree(s)
      BY <2>2, <2>3 DEF Counting
    <3>2. CASE Aside(v)
      BY <2>1, <2>3, <3>1, <3>2, CountedAside
    <3>3. CASE Invoke(v) \/ CleanUp(v)
      BY <2>1, <2>3, <3>1, <3>3, CountedStart
    <3>4. CASE Pushing(v)
      BY <2>1, <2>3, <3>1, <3>4, CountedPush
    <3>5. CASE Begin(v)
      BY <2>1, <2>3, <3>1, <3>5, CountedBegin
    <3>6. CASE Return(v) \/ ReturnOther(v)
      <4>1. Done(v) /\ script' = script
        BY <1>4, <2>1, <3>6, ReturnDoes, Frame
      <4> QED BY <2>1, <2>3, <3>1, <4>1, CountedReturn DEF Done, Both, Open
    <3> QED BY <1>4, <3>2, <3>3, <3>4, <3>5, <3>6, UserSteps
  <2> QED BY <2>2, <2>3 DEF Counting, IsTags
<1> QED BY <1>2, <1>3, <1>4, Steps

LEMMA CountingInit == Init => Counting
<1> SUFFICES ASSUME Init PROVE Counting
  OBVIOUS
<1>1. DOMAIN series = {}
  BY DEF Init
<1>2. \A v \in VU : pc[v] = "new" /\ DOMAIN result[v] = {}
  BY DEF Init
<1>3. ASSUME NEW s PROVE Agree(s)
  <2>1. /\ \A outcomes : Returned(s, outcomes) = {}
        /\ \A places : Reporting(s, places) = {}
        /\ Thrown(s) = {}
    BY <1>2 DEF Returned, Reporting, Tracking, Thrown, InTrack
  <2>2. Sampled(s) = NoSamples
    BY <1>1 DEF Sampled
  <2>3. Sampled(s).injected = 0 /\ Sampled(s).ended = 0 /\ Sampled(s).failed = 0
    BY <2>2 DEF NoSamples
  <2> QED BY <2>1, <2>3, FS_EmptySet DEF Agree
<1> QED BY <1>1, <1>3 DEF Counting

\* As long as no sample of a series was dropped, its counters say what the
\* scripts saw: Track counts a fault as injected once, as ended once its call
\* has returned, and as failed exactly when the call threw, whatever other
\* VUs do with the same tags.
THEOREM CountsCorrect == Spec => []CountsAgree
<1>1. Users /\ Counting => CountsAgree
  <2>1. ASSUME Users, Counting, NEW s \in DOMAIN series \ lost
        PROVE  /\ series[s].injected = Cardinality(Returned(s, {"ok", "error"}))
                                         + Cardinality(Reporting(s, {"begin", "visit"}))
               /\ series[s].ended = Cardinality(Returned(s, {"ok", "error"}))
                                      - Cardinality(Reporting(s, {"idle", "failed", "ended"}))
               /\ series[s].failed =
                    Cardinality(Returned(s, {"error"}))
                      - Cardinality({v \in Reporting(s, {"idle", "failed"}) : Failed(v)})
    <3>1. Agree(s) /\ Sampled(s) = series[s]
      BY <2>1 DEF Counting, Sampled
    <3> QED BY <3>1 DEF Agree, Both, Open, Closing, Thrown
  <2> QED BY <2>1 DEF CountsAgree
<1>2. Spec => []Counting
  <2>1. Users /\ Users' /\ Counting /\ [Next]_vars => Counting'
    BY CountingKept
  <2> QED BY <2>1, CountingInit, UsersCorrect, PTL DEF Spec
<1> QED BY <1>1, <1>2, UsersCorrect, PTL

(***************************************************************************)
(* The gauge of a series.                                                  *)
(***************************************************************************)
Lit == {"injected", "begin", "visit", "idle"}

\* Tags that no two calls have used at the same time have one call at most.
Sole(s) == s \notin met => \A v, w \in Tracking(s) : v = w
Shown(s) == s \notin lost \cup met => (Sampled(s).active = 1 <=> Reporting(s, Lit) # {})

Lighting ==
  /\ \A s : Sole(s)
  /\ \A s : IsTags(s) => Shown(s)

\* Between Invoke and the last sample a call keeps its tags.
LEMMA SeriesStays ==
  ASSUME Users, NEW v \in VU, UserStep(v), ~Invoke(v), pc'[v] \in InTrack, v \notin Setup
  PROVE  pc[v] \in InTrack /\ Series(v)' = Series(v) /\ met' = met
<1>1. Shape /\ Progress(v) /\ Asking(v) /\ UNCHANGED <<world, script>>
  BY Frame DEF Users
<1>2. CASE CleanUp(v)
  <2>1. Cleaned(v)
    BY <1>1, <1>2, CleanUpDoes
  <2> QED BY <2>1 DEF Cleaned, InTrack
<1>3. CASE Begin(v)
  <2>1. Begun(v)
    BY <1>1, <1>3, BeginDoes
  <2>2. request[v] = Wanted(v) /\ "type" \in DOMAIN Wanted(v)
    BY <1>1, <2>1 DEF Asking, Begun, Wanted, Request
  <2>3. request'[v].type = request[v].type
    BY <2>1, <2>2, PreparedType DEF Begun, InTrack
  <2> QED BY <2>1, <2>3 DEF Begun, Series, InTrack
<1>4. CASE Return(v) \/ ReturnOther(v)
  <2>1. Done(v)
    BY <1>1, <1>4, ReturnDoes
  <2> QED BY <2>1 DEF Done, Series, InTrack
<1>5. CASE Pushing(v)
  <2>1. Pushed(v)
    BY <1>1, <1>5, PushDoes
  <2> QED BY <2>1 DEF Pushed, Series, InTrack
<1>6. CASE Aside(v)
  <2>1. Stepped(v)
    BY <1>1, <1>6, AsideDoes
  <2> QED BY <2>1 DEF Stepped, Series, InTrack
<1> QED BY <1>2, <1>3, <1>4, <1>5, <1>6, UserSteps

\* A call that begins while another one is tracked with its tags is noted.
LEMMA SoleKept ==
  ASSUME Users, NEW v \in VU, UserStep(v), NEW s, Sole(s)
  PROVE  Sole(s)' /\ (s \in met => s \in met')
<1>1. Shape /\ \A w \in VU \ {v} : Same(w)
  BY Frame DEF Users
<1>2. \A w \in VU \ {v} : (w \in Tracking(s))' <=> w \in Tracking(s)
  BY <1>1 DEF Tracking, Series, Same
<1>3. Tracking(s) \subseteq VU \ Setup /\ Tracking(s)' \subseteq VU \ Setup
  BY DEF Tracking
<1>4. CASE Invoke(v)
  <2>1. Invoked(v)
    BY <1>1, <1>4, InvokeDoes
  <2>2. CASE pc'[v] \in {"threw", "end"} /\ met' = met
    <3>1. (v \notin Tracking(s))'
      BY <2>2 DEF Tracking, InTrack
    <3> QED BY <1>2, <1>3, <2>2, <3>1 DEF Sole
  <2>3. CASE request'[v] = Wanted(v)' /\ pc'[v] \notin {"threw", "end"}
    <3> DEFINE tags == [target |-> target[v], type |-> MethodOf(v)'.type]
    <3>1. met' = IF v \notin Setup /\ Tracking(tags) # {} THEN met \cup {tags} ELSE met
      BY <2>1, <2>3 DEF Invoked
    <3>2. Wanted(v)'.type = MethodOf(v)'.type
      BY DEF Wanted, Request
    <3>3. Series(v)' = tags
      BY <2>1, <2>3, <3>2 DEF Series, Invoked
    <3>4. (v \in Tracking(s))' => s = tags /\ v \notin Setup
      BY <3>3 DEF Tracking
    <3>5. CASE (v \in Tracking(s))' /\ s \notin met'
      <4>1. Tracking(s) = {}
        BY <3>1, <3>4, <3>5
      <4>2. Tracking(s)' \subseteq {v}
        BY <1>2, <1>3, <4>1
      <4> QED BY <3>1, <4>2 DEF Sole
    <3>6. CASE ~(v \in Tracking(s))'
      BY <1>2, <1>3, <3>1, <3>6 DEF Sole
    <3> HIDE DEF tags
    <3> QED BY <3>1, <3>5, <3>6 DEF Sole
  <2> QED BY <2>1, <2>2, <2>3 DEF Invoked
<1>5. CASE ~Invoke(v)
  <2>1. (v \in Tracking(s))' => v \in Tracking(s)
    BY <1>5, SeriesStays DEF Tracking
  <2>2. met' = met
    BY <1>5 DEF UserStep, New, CleanUp, Threw, PushActive, PushInjected, Begin, Return, ReturnOther,
      PushIdle, PushFailed, PushEnded, Cancel, End
  <2> QED BY <1>2, <1>3, <2>1, <2>2 DEF Sole
<1> QED BY <1>4, <1>5

LEMMA ShownSame ==
  ASSUME NEW v \in VU, \A w \in VU \ {v} : Same(w), NEW s, Shown(s),
         s \in lost => s \in lost', s \in met => s \in met',
         s \notin lost' => Sampled(s)'.active = Sampled(s).active,
         s \notin lost' => ((v \in Reporting(s, Lit))' <=> v \in Reporting(s, Lit))
  PROVE  Shown(s)'
<1>1. s \notin lost' => Reporting(s, Lit)' = Reporting(s, Lit)
  <2>1. Reporting(s, Lit)' \ {v} = Reporting(s, Lit) \ {v}
    BY ReportingToggled
  <2> QED BY <2>1
<1> QED BY <1>1 DEF Shown

LEMMA ShownKept ==
  ASSUME Users, Users', NEW v \in VU, UserStep(v), NEW s, IsTags(s), Sole(s), Shown(s),
         s \in lost => s \in lost'
  PROVE  Shown(s)'
<1>1. Shape /\ Progress(v) /\ Asking(v) /\ \A w \in VU \ {v} : Same(w)
  BY Frame DEF Users
<1>2. s \in met => s \in met'
  BY SoleKept
<1>3. Sampled(s) \in Samples
  BY <1>1, SampledShape DEF Shape
<1>4. series' = series => Sampled(s)' = Sampled(s)
  BY DEF Sampled
<1>5. CASE Invoke(v) \/ CleanUp(v)
  <2>1. Invoked(v) \/ Cleaned(v)
    BY <1>1, <1>5, InvokeDoes, CleanUpDoes
  <2>2. /\ series' = series
        /\ pc[v] = "script" /\ (v \in Setup \/ pc'[v] \in {"active", "threw", "end", "script"})
    BY <2>1 DEF Invoked, Cleaned
  <2>3. v \notin Reporting(s, Lit) /\ (v \notin Reporting(s, Lit))'
    BY <2>2 DEF Reporting, Tracking, Lit
  <2> QED BY <1>1, <1>2, <1>4, <2>2, <2>3, ShownSame
<1>6. CASE Aside(v)
  <2>1. Stepped(v)
    BY <1>1, <1>6, AsideDoes
  <2>2. series' = series
    BY <2>1 DEF Stepped
  <2>3. (v \in Reporting(s, Lit))' <=> v \in Reporting(s, Lit)
    BY <2>1 DEF Stepped, Reporting, Tracking, Lit, Series
  <2> QED BY <1>1, <1>2, <1>4, <2>2, <2>3, ShownSame
<1>7. CASE Begin(v)
  <2>1. Begun(v)
    BY <1>1, <1>7, BeginDoes
  <2>2. pc'[v] \in {"visit", "idle"} /\ v \notin Setup => Series(v)' = Series(v)
    BY <1>7, <2>1, SeriesStays DEF Begun, UserStep, InTrack, Invoke
  <2>3. s \notin lost' => ((v \in Reporting(s, Lit))' <=> v \in Reporting(s, Lit))
    <3>1. CASE v \in Setup
      BY <3>1 DEF Reporting, Tracking
    <3>2. CASE v \notin Setup /\ pc'[v] \in {"visit", "idle"}
      BY <2>1, <2>2, <3>2 DEF Begun, Reporting, Tracking, Lit, InTrack
    <3>3. CASE v \notin Setup /\ pc'[v] = "end" /\ lost' = lost \cup {Series(v)}
      BY <3>3 DEF Reporting, Tracking, Lit
    <3> QED BY <2>1, <3>1, <3>2, <3>3 DEF Begun, Returns
  <2> QED BY <1>1, <1>2, <1>4, <2>1, <2>3, ShownSame DEF Begun
<1>8. CASE Return(v) \/ ReturnOther(v)
  <2>1. Done(v)
    BY <1>1, <1>8, ReturnDoes
  <2>2. (v \in Reporting(s, Lit))' <=> v \in Reporting(s, Lit)
    BY <2>1 DEF Done, Returns, Reporting, Tracking, Lit, InTrack, Series
  <2> QED BY <1>1, <1>2, <1>4, <2>1, <2>2, ShownSame DEF Done
<1>9. CASE Pushing(v)
  <2>1. Pushed(v)
    BY <1>1, <1>9, PushDoes
  <2>2. Series(v)' = Series(v) /\ met' = met
    BY <2>1 DEF Pushed, Series
  <2>3. v \notin Setup
    <3>1. v \in Setup => pc[v] \notin {"active", "injected"} \cup Closing
      BY <1>1 DEF Progress
    <3> QED BY <2>1, <3>1 DEF Pushed, Closing
  <2>4. CASE s # Series(v)
    <3>1. s \notin lost' => Sampled(s)' = Sampled(s)
      BY <2>1, <2>4, PushSampled DEF Pushed
    <3>2. v \notin Reporting(s, Lit) /\ (v \notin Reporting(s, Lit))'
      BY <2>2, <2>4 DEF Reporting, Tracking
    <3> QED BY <1>1, <1>2, <3>1, <3>2, ShownSame
  <2>5. CASE s = Series(v) /\ s \in lost'
    BY <2>5 DEF Shown
  <2>6. CASE s = Series(v) /\ s \notin lost'
    <3>1. \A sample : Push(v, sample) => Sampled(s)' = sample
      BY <2>6, PushSampled
    <3>2. PICK x \in Samples : x = Sampled(s)
      BY <1>3
    <3>3. DOMAIN x = {"active", "injected", "failed", "ended"}
      BY <3>2 DEF Samples
    <3>4. CASE pc[v] = "active" /\ pc'[v] = "injected"
      <4>1. Sampled(s)' = [x EXCEPT !.active = 1]
        BY <2>1, <2>6, <3>1, <3>2, <3>4 DEF Pushed
      <4>2. Sampled(s)'.active = 1
        BY <3>3, <4>1
      <4>3. (v \in Reporting(s, Lit))'
        BY <2>2, <2>3, <2>6, <3>4 DEF Reporting, Tracking, Lit, InTrack
      <4> QED BY <4>2, <4>3 DEF Shown
    <3>5. CASE pc[v] = "injected" /\ pc'[v] = "begin"
      <4>1. Sampled(s)' = [x EXCEPT !.injected = @ + 1]
        BY <2>1, <2>6, <3>1, <3>2, <3>5 DEF Pushed
      <4>2. Sampled(s)'.active = Sampled(s).active
        BY <3>2, <3>3, <4>1
      <4>3. (v \in Reporting(s, Lit))' /\ v \in Reporting(s, Lit)
        BY <2>2, <2>3, <2>6, <3>5 DEF Reporting, Tracking, Lit, InTrack
      <4> QED BY <1>1, <1>2, <4>2, <4>3, ShownSame
    <3>6. CASE pc[v] = "idle" /\ pc'[v] \in {"failed", "ended"}
      <4>1. Sampled(s)' = [x EXCEPT !.active = 0]
        BY <2>1, <2>6, <3>1, <3>2, <3>6 DEF Pushed
      <4>2. Sampled(s)'.active = 0
        BY <3>3, <4>1
      <4>3. v \in Tracking(s)
        BY <2>3, <2>6, <3>6 DEF Tracking, InTrack
      <4>4. (v \notin Reporting(s, Lit))'
        BY <3>6 DEF Reporting, Lit
      <4>5. Reporting(s, Lit)' \subseteq Tracking(s)
        <5>1. Reporting(s, Lit)' \ {v} = Reporting(s, Lit) \ {v}
          BY <1>1, ReportingToggled
        <5> QED BY <4>4, <5>1 DEF Reporting
      <4>6. s \notin met' => Reporting(s, Lit)' = {}
        BY <2>2, <4>3, <4>4, <4>5 DEF Sole
      <4> QED BY <4>2, <4>6 DEF Shown
    <3>7. CASE pc[v] \in {"failed", "ended"} /\ pc'[v] \in {"ended", "threw", "script"}
      <4>1. \/ Sampled(s)' = [x EXCEPT !.failed = @ + 1]
            \/ Sampled(s)' = [x EXCEPT !.ended = @ + 1]
        BY <2>1, <2>6, <3>1, <3>2, <3>7 DEF Pushed
      <4>2. Sampled(s)'.active = Sampled(s).active
        BY <3>2, <3>3, <4>1
      <4>3. (v \notin Reporting(s, Lit))' /\ v \notin Reporting(s, Lit)
        BY <3>7 DEF Reporting, Lit
      <4> QED BY <1>1, <1>2, <4>2, <4>3, ShownSame
    <3> QED BY <2>1, <3>4, <3>5, <3>6, <3>7 DEF Pushed
  <2> QED BY <2>4, <2>5, <2>6
<1> QED BY <1>5, <1>6, <1>7, <1>8, <1>9, UserSteps

LEMMA LightingKept == Users /\ Users' /\ Counting /\ Lighting /\ [Next]_vars => Lighting'
<1> SUFFICES ASSUME Users, Users', Counting, Lighting, [Next]_vars PROVE Lighting'
  OBVIOUS
<1>1. CASE UNCHANGED <<pc, target, request, series, lost, met>>
  <2>1. \A s : Shown(s)' <=> Shown(s)
    BY <1>1 DEF Shown, Sampled, Reporting, Tracking, Series
  <2>2. \A s : Sole(s)' <=> Sole(s)
    BY <1>1 DEF Sole, Tracking, Series
  <2> QED BY <2>1, <2>2 DEF Lighting
<1>2. CASE UNCHANGED vars
  BY <1>1, <1>2 DEF vars
<1>3. CASE PodStep
  BY <1>1, <1>3, PodFrame
<1>4. ASSUME NEW v \in VU, UserStep(v) PROVE Lighting'
  <2>1. \A s : Sole(s)'
    BY <1>4, SoleKept DEF Lighting
  <2>2. ASSUME NEW s, IsTags(s) PROVE Shown(s)'
    <3>1. s \in lost => s \in lost'
      BY <1>4, SeriesKept DEF Counting
    <3> QED BY <1>4, <2>2, <3>1, ShownKept DEF Lighting
  <2> QED BY <2>1, <2>2 DEF Lighting, IsTags
<1> QED BY <1>2, <1>3, <1>4, Steps

LEMMA LightingInit == Init => Lighting
<1> SUFFICES ASSUME Init PROVE Lighting
  OBVIOUS
<1>1. \A s : Tracking(s) = {}
  BY DEF Init, Tracking, InTrack
<1>2. \A s : Reporting(s, Lit) = {} /\ Sampled(s).active = 0
  BY <1>1 DEF Init, Reporting, Sampled, NoSamples
<1> QED BY <1>1, <1>2 DEF Lighting, Sole, Shown

\* An agent that runs belongs to the call in progress, whose visit of the pod
\* is not over, or to one that threw.
Threw1(v, n) == n \in DOMAIN result[v] /\ result[v][n].outcome = "error"
Running(p) ==
  LET v == agent[p].vu
  IN  /\ agent[p].call = call[v]
      /\ pc[v] = "visit"
      /\ visit[v][p] \in {"running", "failed"}
      /\ agent[p].command.type = request[v].type
Accounted(p) ==
  agent[p] # None =>
    /\ agent[p].vu \in VU
    /\ agent[p].vu \in cancelled \/ Threw1(agent[p].vu, agent[p].call) \/ Running(p)

\* A step of a VU touches the visits of no other, and no agent.
LEMMA VisitFrame ==
  ASSUME Shape, NEW v \in VU, UserStep(v)
  PROVE  /\ agent' = agent /\ cancelled \subseteq cancelled'
         /\ \A w \in VU \ {v} : visit'[w] = visit[w]
<1> USE DEF Shape
<1>1. CASE Invoke(v) \/ CleanUp(v)
  BY <1>1 DEF Invoke, CleanUp
<1>2. CASE Begin(v)
  BY <1>2 DEF Begin
<1>3. CASE Return(v) \/ ReturnOther(v)
  BY <1>3 DEF Return, ReturnOther
<1>4. CASE Pushing(v)
  BY <1>4 DEF Pushing, PushActive, PushInjected, PushIdle, PushFailed, PushEnded
<1>5. CASE Aside(v)
  BY <1>5 DEF Aside, New, Threw, Cancel, End
<1> QED BY <1>1, <1>2, <1>3, <1>4, <1>5, UserSteps

\* What has thrown stays so.
LEMMA ThrewKept ==
  ASSUME Shape, NEW v \in VU, NEW n, Threw1(v, n),
         result'[v] = result[v]
           \/ \E type \in FaultTypes \cup {""}, o \in {"ok", "error", "panic"} : Ends(v, type, o)
  PROVE  Threw1(v, n)'
<1>1. CASE result'[v] = result[v]
  BY <1>1 DEF Threw1
<1>2. CASE \E type \in FaultTypes \cup {""}, o \in {"ok", "error", "panic"} : Ends(v, type, o)
  <2>1. PICK type \in FaultTypes \cup {""}, o \in {"ok", "error", "panic"} : Grown(v, type, o)
    BY <1>2, EndsDoes
  <2> QED BY <2>1 DEF Grown, Threw1
<1> QED BY <1>1, <1>2

LEMMA ResultsGrow ==
  ASSUME Users, NEW v \in VU, UserStep(v)
  PROVE  \/ result'[v] = result[v]
         \/ \E type \in FaultTypes \cup {""}, o \in {"ok", "error", "panic"} : Ends(v, type, o)
<1>1. Shape /\ Progress(v) /\ Asking(v)
  BY DEF Users
<1>2. CASE Invoke(v) \/ CleanUp(v)
  <2>1. Invoked(v) \/ Cleaned(v)
    BY <1>1, <1>2, InvokeDoes, CleanUpDoes
  <2> QED BY <2>1 DEF Invoked, Cleaned
<1>3. CASE Begin(v) \/ Return(v) \/ ReturnOther(v)
  <2>1. Begun(v) \/ Done(v)
    BY <1>1, <1>3, BeginDoes, ReturnDoes
  <2>2. request[v].type \in FaultTypes
    BY <1>1, <2>1, TypeUnderway DEF Begun, Done, Underway
  <2> QED BY <2>1, <2>2 DEF Begun, Done, Returns
<1>4. CASE Pushing(v) \/ Aside(v)
  <2>1. Pushed(v) \/ Stepped(v)
    BY <1>1, <1>4, PushDoes, AsideDoes
  <2> QED BY <2>1 DEF Pushed, Stepped
<1> QED BY <1>2, <1>3, <1>4, UserSteps

\* A call does not end well while an agent that it started is still running.
LEMMA AccountedByUser ==
  ASSUME Users, NEW v \in VU, UserStep(v), NEW p \in Pod, Accounted(p)
  PROVE  Accounted(p)'
<1>1. Shape /\ Progress(v) /\ agent' = agent /\ cancelled \subseteq cancelled'
  BY VisitFrame DEF Users
<1>2. SUFFICES ASSUME agent[p] # None PROVE Accounted(p)'
  BY <1>1 DEF Accounted
<1>3. CASE agent[p].vu # v
  <2>1. agent[p].vu \in VU \ {v}
    BY <1>2, <1>3 DEF Accounted
  <2>2. Same(agent[p].vu) /\ visit'[agent[p].vu] = visit[agent[p].vu]
    BY <1>1, <2>1, Frame, VisitFrame
  <2>3. Threw1(agent[p].vu, agent[p].call) => Threw1(agent[p].vu, agent[p].call)'
    BY <1>1, <2>2 DEF Threw1, Same
  <2>4. Running(p) => Running(p)'
    BY <1>1, <2>2 DEF Running, Same
  <2> QED BY <1>1, <1>2, <2>3, <2>4 DEF Accounted
<1>4. CASE agent[p].vu = v
  <2>1. CASE v \in cancelled
    BY <1>1, <1>4, <2>1 DEF Accounted
  <2>2. CASE Threw1(v, agent[p].call)
    <3>1. Threw1(v, agent[p].call)'
      <4>1. PICK n : n = agent[p].call
        OBVIOUS
      <4>2. Threw1(v, n)'
        BY <1>1, <2>2, <4>1, ResultsGrow, ThrewKept
      <4> QED BY <1>1, <4>1, <4>2 DEF Threw1
    <3> QED BY <1>1, <1>4, <3>1 DEF Accounted
  <2>3. CASE v \notin cancelled /\ Running(p)
    <3>1. pc[v] = "visit" /\ visit[v][p] \in {"running", "failed"} /\ agent[p].call = call[v]
      BY <1>4, <2>3 DEF Running
    <3>2. CASE Return(v) \/ ReturnOther(v)
      <4>1. Done(v)
        BY <1>1, <3>2, ReturnDoes
      <4>2. Returns(v, "error") /\ call' = call
        BY <3>1, <4>1 DEF Done
      <4>3. request[v].type \in FaultTypes
        BY <1>1, <3>1, TypeUnderway DEF Users, Underway
      <4>4. Grown(v, request[v].type, "error")
        BY <1>1, <4>2, <4>3, EndsDoes DEF Returns
      <4>5. agent[p].call = Len(result[v]) + 1
        BY <1>1, <3>1, <4>4 DEF Progress, Underway, Shape, Grown
      <4>6. Threw1(v, agent[p].call)'
        BY <1>1, <4>4, <4>5 DEF Threw1, Grown
      <4> QED BY <1>1, <1>4, <4>6 DEF Accounted
    <3>3. CASE Aside(v)
      <4>1. Stepped(v)
        BY <1>1, <3>3, AsideDoes
      <4>2. Running(p)'
        BY <1>1, <1>4, <2>3, <3>1, <4>1 DEF Running, Stepped
      <4> QED BY <1>1, <1>4, <4>2 DEF Accounted
    <3>4. CASE ~Return(v) /\ ~ReturnOther(v) /\ ~Aside(v)
      BY <3>1, <3>4 DEF UserStep, Aside, Invoke, CleanUp, PushActive, PushInjected, Begin, PushIdle,
        PushFailed, PushEnded
    <3> QED BY <3>2, <3>3, <3>4
  <2> QED BY <1>2, <1>4, <2>1, <2>2, <2>3 DEF Accounted
<1> QED BY <1>3, <1>4

LEMMA AppliedType ==
  ASSUME NEW c, "type" \in DOMAIN c
  PROVE  Applied(c).type = c.type
BY DEF Applied

\* The steps of the visits and the agents.
LEMMA StartDoes ==
  ASSUME Shape, NEW v \in VU, NEW p \in Pod, StartAgent(v, p)
  PROVE  LET c == Commands(request[v], world.pods[p])
         IN  /\ pc[v] = "visit" /\ v \notin cancelled /\ visit[v][p] = "todo"
             /\ \A q \in Pod \ {p} : agent'[q] = agent[q]
             /\ \/ /\ Starts(c, p)
                   /\ agent'[p].vu = v /\ agent'[p].call = call[v] /\ agent'[p].command = Applied(c)
                   /\ visit' = [visit EXCEPT ![v][p] = "running"]
                \/ /\ agent' = agent
                   /\ visit' = [visit EXCEPT ![v][p] = "failed"]
<1> DEFINE c == Commands(request[v], world.pods[p])
<1>1. \/ /\ Starts(c, p)
         /\ agent' = [agent EXCEPT ![p] = [status |-> "running", vu |-> v, call |-> call[v],
                                           command |-> Applied(c)]]
         /\ visit' = [visit EXCEPT ![v][p] = "running"]
      \/ /\ agent' = agent
         /\ visit' = [visit EXCEPT ![v][p] = "failed"]
  BY DEF StartAgent
<1> HIDE DEF c
<1>2. CASE agent' = [agent EXCEPT ![p] = [status |-> "running", vu |-> v, call |-> call[v],
                                          command |-> Applied(c)]]
  <2>1. PICK a : a = [status |-> "running", vu |-> v, call |-> call[v], command |-> Applied(c)]
    OBVIOUS
  <2>2. a.vu = v /\ a.call = call[v] /\ a.command = Applied(c)
    BY <2>1
  <2>3. agent'[p] = a /\ \A q \in Pod \ {p} : agent'[q] = agent[q]
    BY <1>2, <2>1 DEF Shape
  <2> QED BY <1>1, <2>2, <2>3 DEF StartAgent, c
<1>3. CASE agent' = agent /\ visit' = [visit EXCEPT ![v][p] = "failed"]
  BY <1>3 DEF StartAgent, c
<1> QED BY <1>1, <1>2, <1>3

LEMMA EndDoes ==
  ASSUME Shape, NEW p \in Pod, EndAgent(p)
  PROVE  /\ agent'[p] = None
         /\ \A q \in Pod \ {p} : /\ agent'[q] = agent[q]
                                 /\ \A w \in VU : visit'[w][q] = visit[w][q]
<1>1. agent'[p] = None /\ \A q \in Pod \ {p} : agent'[q] = agent[q]
  BY DEF EndAgent, Shape
<1>2. visit' = visit \/ visit' = [visit EXCEPT ![agent[p].vu][p] = "done"]
  BY DEF EndAgent
<1>3. CASE agent[p].vu \in VU
  BY <1>1, <1>2, <1>3, VisitSet DEF Visits
<1>4. CASE agent[p].vu \notin VU
  BY <1>1, <1>2, <1>4 DEF Shape
<1> QED BY <1>3, <1>4

LEMMA AccountedByPod ==
  ASSUME Users, PodStep, NEW q \in Pod, Accounted(q)
  PROVE  Accounted(q)'
<1>1. Shape /\ pc' = pc /\ call' = call /\ request' = request /\ result' = result
      /\ cancelled' = cancelled
  BY PodFrame DEF Users
<1>2. ASSUME agent'[q] = agent[q], \A w \in VU : visit'[w][q] = visit[w][q]
      PROVE  Accounted(q)'
  <2>1. agent[q].vu \in VU => (Running(q)' <=> Running(q))
    BY <1>1, <1>2 DEF Running
  <2>2. Threw1(agent[q].vu, agent[q].call)' <=> Threw1(agent[q].vu, agent[q].call)
    BY <1>1, <1>2 DEF Threw1
  <2> QED BY <1>1, <1>2, <2>1, <2>2 DEF Accounted
<1>3. ASSUME NEW v \in VU, NEW p \in Pod, StartAgent(v, p) PROVE Accounted(q)'
  <2> DEFINE c == Commands(request[v], world.pods[p])
  <2>1. CASE q # p
    <3>1. PICK x \in Visits : visit' = [visit EXCEPT ![v][p] = x]
      BY <1>3 DEF StartAgent, Visits
    <3>2. \A w \in VU : visit'[w][q] = visit[w][q]
      BY <1>1, <2>1, <3>1, VisitSet
    <3>3. agent'[q] = agent[q]
      BY <1>1, <1>3, <2>1, StartDoes
    <3> QED BY <1>2, <3>2, <3>3
  <2>2. CASE /\ q = p /\ agent'[p].vu = v /\ agent'[p].call = call[v]
             /\ agent'[p].command = Applied(c)
             /\ visit' = [visit EXCEPT ![v][p] = "running"]
    <3>1. visit'[v][p] = "running"
      BY <1>1, <2>2, VisitSet DEF Visits
    <3>2. agent'[p].command.type = request[v].type
      <4>1. c.type = request[v].type /\ "type" \in DOMAIN c
        BY DEF Commands
      <4> HIDE DEF c
      <4> QED BY <2>2, <4>1, AppliedType
    <3>3. pc[v] = "visit"
      BY <1>3 DEF StartAgent
    <3>4. Running(p)'
      BY <1>1, <2>2, <3>1, <3>2, <3>3 DEF Running
    <3> QED BY <2>2, <3>4 DEF Accounted
  <2>3. CASE q = p /\ agent' = agent /\ visit' = [visit EXCEPT ![v][p] = "failed"]
    <3>1. /\ visit'[v][p] = "failed" /\ \A w \in VU \ {v} : visit'[w][q] = visit[w][q]
      BY <1>1, <2>3, VisitSet DEF Visits
    <3>2. agent[q].vu \in VU /\ Running(q) => Running(q)'
      BY <1>1, <2>3, <3>1 DEF Running
    <3>3. Threw1(agent[q].vu, agent[q].call)' <=> Threw1(agent[q].vu, agent[q].call)
      BY <1>1, <2>3 DEF Threw1
    <3> QED BY <1>1, <2>3, <3>2, <3>3 DEF Accounted
  <2> QED BY <1>1, <1>3, <2>1, <2>2, <2>3, StartDoes
<1>4. ASSUME NEW v \in VU, NEW p \in Pod, FailAgent(v, p) PROVE Accounted(q)'
  <2>1. agent' = agent
    BY <1>4 DEF FailAgent
  <2>2. PICK x \in Visits : /\ visit' = [visit EXCEPT ![v][p] = x]
                            /\ v \notin cancelled => x = "failed"
    BY <1>4 DEF FailAgent, Visits
  <2>3. /\ visit'[v][p] = x
        /\ \A w \in VU : <<w, q>> # <<v, p>> => visit'[w][q] = visit[w][q]
    <3>1. visit' = [visit EXCEPT ![v][p] = x]
      BY <2>2
    <3>2. x \in Visits
      BY <2>2
    <3>3. \A w \in VU, r \in Pod : <<w, r>> # <<v, p>> => visit'[w][r] = visit[w][r]
      BY <1>1, <3>1, <3>2, VisitSet
    <3>4. visit'[v][p] = x
      BY <1>1, <3>1, <3>2, VisitSet
    <3> QED BY <3>3, <3>4
  <2>4. agent[q].vu \in VU \ cancelled /\ Running(q) => Running(q)'
    BY <1>1, <2>1, <2>2, <2>3 DEF Running
  <2>5. Threw1(agent[q].vu, agent[q].call)' <=> Threw1(agent[q].vu, agent[q].call)
    BY <1>1, <2>1 DEF Threw1
  <2> QED BY <1>1, <2>1, <2>4, <2>5 DEF Accounted
<1>5. ASSUME NEW p \in Pod, EndAgent(p) PROVE Accounted(q)'
  <2>1. CASE q = p
    BY <1>1, <1>5, <2>1, EndDoes DEF Accounted
  <2>2. CASE q # p
    BY <1>1, <1>2, <1>5, <2>2, EndDoes
  <2> QED BY <2>1, <2>2
<1> QED BY <1>3, <1>4, <1>5 DEF PodStep

AllAccounted == \A p \in Pod : Accounted(p)

LEMMA AccountedKept == Users /\ AllAccounted /\ [Next]_vars => AllAccounted'
<1> SUFFICES ASSUME Users, AllAccounted, [Next]_vars PROVE AllAccounted'
  OBVIOUS
<1>1. CASE UNCHANGED vars
  BY <1>1 DEF vars, AllAccounted, Accounted, Threw1, Running
<1>2. CASE PodStep
  BY <1>2, AccountedByPod DEF AllAccounted
<1>3. ASSUME NEW v \in VU, UserStep(v) PROVE AllAccounted'
  BY <1>3, AccountedByUser DEF AllAccounted
<1> QED BY <1>1, <1>2, <1>3, Steps

\* The gauge of a series without dropped samples and without calls at the
\* same time is one while a call is in progress and zero otherwise, and a
\* fault that is still applied in a pod is one whose gauge is one or whose
\* call has thrown: Track and PodController.Visit, which returns at the first
\* error.
THEOREM GaugeCorrect == Spec => []GaugeExplained
<1> DEFINE IInv == Users /\ Counting /\ Lighting /\ AllAccounted
<1>1. IInv => GaugeExplained
  <2> SUFFICES ASSUME IInv PROVE GaugeExplained
    OBVIOUS
  <2>1. ASSUME NEW s \in DOMAIN series \ (lost \cup met)
        PROVE  series[s].active = 1 <=> Reporting(s, {"injected", "begin", "visit", "idle"}) # {}
    <3>1. Shown(s) /\ Sampled(s) = series[s]
      BY <2>1 DEF Counting, Lighting, Sampled
    <3> QED BY <2>1, <3>1 DEF Shown, Lit
  <2>2. ASSUME NEW p \in Pod, agent[p] # None,
               agent[p].vu \notin Setup \cup cancelled
        PROVE  LET v == agent[p].vu
                   s == [target |-> target[v], type |-> agent[p].command.type]
               IN  \/ s \in lost \cup met
                   \/ series[s].active = 1
                   \/ agent[p].call <= Len(result[v]) /\ result[v][agent[p].call].outcome = "error"
    <3> DEFINE v == agent[p].vu
               s == [target |-> target[v], type |-> agent[p].command.type]
    <3>1. v \in VU /\ (Threw1(v, agent[p].call) \/ Running(p))
      BY <2>2 DEF AllAccounted, Accounted
    <3>2. Shape /\ Progress(v) /\ Asking(v)
      BY <3>1 DEF Users
    <3>3. CASE Threw1(v, agent[p].call)
      <4>1. DOMAIN result[v] = 1 .. Len(result[v]) /\ Len(result[v]) \in Nat
        BY <3>1, <3>2, LenProperties DEF Shape
      <4> QED BY <3>3, <4>1 DEF Threw1
    <3>4. CASE Running(p)
      <4>1. pc[v] = "visit" /\ s = Series(v)
        BY <3>4 DEF Running, Series
      <4>2. request[v].type \in FaultTypes
        BY <3>1, <3>2, <4>1, TypeUnderway DEF Underway
      <4>3. IsTags(s)
        BY <4>1, <4>2 DEF IsTags, Series, SeriesTags
      <4>4. v \in Reporting(s, Lit)
        BY <2>2, <3>1, <4>1 DEF Reporting, Tracking, Lit, InTrack
      <4>5. s \notin lost \cup met => Sampled(s).active = 1
        BY <4>3, <4>4 DEF Lighting, Shown
      <4>6. Sampled(s).active = 1 => series[s].active = 1
        BY DEF Sampled, NoSamples
      <4> QED BY <4>5, <4>6
    <3> QED BY <3>1, <3>3, <3>4
  <2> QED BY <2>1, <2>2 DEF GaugeExplained
<1>2. Init => IInv
  <2>1. Init => AllAccounted
    BY DEF Init, AllAccounted, Accounted
  <2> QED BY <2>1, UsersInit, CountingInit, LightingInit
<1>3. IInv /\ [Next]_vars => IInv'
  BY UsersKept, CountingKept, LightingKept, AccountedKept
<1> QED BY <1>1, <1>2, <1>3, PTL DEF Spec

(***************************************************************************)
(* What an agent is given: the conversions of the call, the disruptor and  *)
(* the builder of the command have all accepted it.                        *)
(***************************************************************************)
MethodOfCall(v, n) == Methods(script[v].kind)[script[v].calls[n].method]
Directs(v, n) ==
  Prepared(script[v].kind, Request(MethodOfCall(v, n), script[v].calls[n]), world.ports)
Built(v, n, p) == Commands(Directs(v, n).request, world.pods[p])

Ordered(v, n, p) ==
  /\ v \in VU
  /\ n \in 1 .. Len(script[v].calls)
  /\ script[v].kind \in {"pod", "service"}
  /\ script[v].calls[n].method # "cleanup"
  /\ "ok" \in CallOutcomes(MethodOfCall(v, n), script[v].calls[n])
  /\ MethodOfCall(v, n).type \in Commanded
  /\ Directs(v, n).status = "ok"
  /\ Built(v, n, p).status = "ok"
  /\ ~Refused(Built(v, n, p))
Commissioned(p) ==
  agent[p] # None =>
    /\ Ordered(agent[p].vu, agent[p].call, p)
    /\ agent[p].command = Applied(Built(agent[p].vu, agent[p].call, p))
AllCommissioned == \A p \in Pod : Commissioned(p)

LEMMA CommissionedKept == Users /\ AllCommissioned /\ [Next]_vars => AllCommissioned'
<1> SUFFICES ASSUME Users, AllCommissioned, [Next]_vars, NEW q \in Pod PROVE Commissioned(q)'
  BY DEF AllCommissioned
<1>1. Shape
  BY DEF Users
<1>2. UNCHANGED <<world, script>>
  <2>1. CASE UNCHANGED vars
    BY <2>1 DEF vars
  <2>2. CASE PodStep
    BY <2>2, PodFrame
  <2>3. CASE \E v \in VU : UserStep(v)
    BY <1>1, <2>3, Frame
  <2> QED BY <2>1, <2>2, <2>3, Steps
<1>3. /\ \A v, n, p : Ordered(v, n, p)' <=> Ordered(v, n, p)
      /\ \A v, n, p : Built(v, n, p)' = Built(v, n, p)
  <2>1. \A v, n, p : /\ MethodOfCall(v, n)' = MethodOfCall(v, n)
                     /\ Directs(v, n)' = Directs(v, n)
                     /\ Built(v, n, p)' = Built(v, n, p)
    BY <1>2 DEF MethodOfCall, Directs, Built
  <2> QED BY <1>2, <2>1 DEF Ordered
<1>4. ASSUME agent'[q] = agent[q] PROVE Commissioned(q)'
  BY <1>3, <1>4 DEF AllCommissioned, Commissioned
<1>5. CASE UNCHANGED agent
  BY <1>4, <1>5
<1>6. ASSUME NEW v \in VU, NEW p \in Pod, StartAgent(v, p) PROVE Commissioned(q)'
  <2> DEFINE c == Commands(request[v], world.pods[p])
  <2>1. CASE q # p \/ agent' = agent
    BY <1>1, <1>4, <1>6, <2>1, StartDoes
  <2>2. CASE /\ q = p /\ Starts(c, p)
             /\ agent'[p].vu = v /\ agent'[p].call = call[v] /\ agent'[p].command = Applied(c)
    <3>1. pc[v] = "visit" /\ Progress(v) /\ Asking(v)
      BY <1>6 DEF StartAgent, Users
    <3>2. Wanted(v) = Request(MethodOfCall(v, call[v]), script[v].calls[call[v]])
      BY DEF Wanted, MethodOf, MethodOfCall, Current
    <3>3. Directs(v, call[v]) = Directed(v)
      BY <3>2 DEF Directs, Directed
    <3>4. Built(v, call[v], p) = c
      BY <3>1, <3>3 DEF Built, Asking
    <3>5. call[v] \in 1 .. Len(script[v].calls)
      <4>1. Len(script[v].calls) \in 0 .. MaxCalls
        BY <1>1, CaseFacts
      <4>2. Len(result[v]) = call[v] - 1 /\ Len(result[v]) \in Nat /\ call[v] \in Nat
        BY <1>1, <3>1, LenProperties DEF Progress, Underway, Shape
      <4> QED BY <3>1, <4>1, <4>2, MaxCallsAssumption DEF Progress
    <3>6. /\ script[v].calls[call[v]].method # "cleanup"
          /\ "ok" \in CallOutcomes(MethodOfCall(v, call[v]), script[v].calls[call[v]])
      BY <3>1 DEF Asking, Underway, Converts, MethodOf, MethodOfCall, Current
    <3>7. MethodOfCall(v, call[v]).type \in Commanded
      <4>1. Wanted(v).type = MethodOfCall(v, call[v]).type
        BY <3>2 DEF Request
      <4> QED BY <3>1, <4>1 DEF Asking
    <3>8. Ordered(v, call[v], p)
      BY <2>2, <3>1, <3>3, <3>4, <3>5, <3>6, <3>7 DEF Ordered, Starts, Asking
    <3>9. PICK n : n = call[v]
      OBVIOUS
    <3>10. Ordered(v, n, p)' /\ Built(v, n, p)' = c
      BY <1>3, <3>4, <3>8, <3>9
    <3>11. agent'[p].vu = v /\ agent'[p].call = n /\ agent'[p].command = Applied(c)
      BY <2>2, <3>9
    <3> QED BY <2>2, <3>10, <3>11 DEF Commissioned
  <2> QED BY <1>1, <1>6, <2>1, <2>2, StartDoes
<1>7. ASSUME NEW v \in VU, NEW p \in Pod, FailAgent(v, p) PROVE Commissioned(q)'
  BY <1>5, <1>7 DEF FailAgent
<1>8. ASSUME NEW p \in Pod, EndAgent(p) PROVE Commissioned(q)'
  <2>1. CASE q = p
    BY <1>1, <1>8, <2>1, EndDoes DEF Commissioned
  <2>2. CASE q # p
    BY <1>1, <1>4, <1>8, <2>2, EndDoes
  <2> QED BY <2>1, <2>2
<1>9. CASE UNCHANGED vars
  BY <1>5, <1>9 DEF vars
<1>10. CASE \E v \in VU : UserStep(v)
  BY <1>1, <1>5, <1>10, VisitFrame
<1> QED BY <1>6, <1>7, <1>8, <1>9, <1>10, Steps DEF PodStep

LEMMA CommissionedAlways == Spec => []AllCommissioned
<1>1. Init => AllCommissioned
  BY DEF Init, AllCommissioned, Commissioned
<1>2. Users /\ AllCommissioned /\ [Next]_vars => AllCommissioned'
  BY CommissionedKept
<1> QED BY <1>1, <1>2, UsersCorrect, PTL DEF Spec

(***************************************************************************)
(* Values.  Every one a command carries is what the script meant by it, or *)
(* the zero value.                                                         *)
(***************************************************************************)
Simple == {"duration", "int", "uint", "float", "string", "list", "map"}

LEMMA ValueMeant ==
  ASSUME NEW type \in Simple, NEW x, Exported(x), ~Refuses(type, x), ~Panics(type, x)
  PROVE  LET y == Converted(type, x)
         IN  /\ type # "duration" => y = Meant(type, x)
             /\ type = "duration" => /\ y \in Int
                                     /\ y = x.value /\ x.kind = "time"
                                     /\ Meant(type, x) = (y \div 1000) * 1000
             /\ type \in {"int", "uint", "float"} => y \in Int
<1>1. x.kind \in Accepted(type)
  BY DEF Refuses
<1>2. CASE type = "duration"
  BY <1>1, <1>2 DEF Accepted, Exported, Converted, Meant
<1>3. CASE type \in {"int", "uint"}
  BY <1>1, <1>3 DEF Accepted, Exported, Converted, Meant, IntegerPart
<1>4. CASE type = "float"
  BY <1>1, <1>4 DEF Accepted, Exported, Converted, Meant
<1>5. CASE type = "string"
  BY <1>1, <1>5 DEF Accepted, Converted, Meant
<1>6. CASE type \in {"list", "map"}
  BY <1>1, <1>6 DEF Accepted, Converted, Meant
<1> QED BY <1>2, <1>3, <1>4, <1>5, <1>6 DEF Simple

LEMMA MillisFacts ==
  ASSUME NEW y \in Int
  PROVE  /\ Millis(y) \in Int
         /\ y > 0 => Millis(y) = (y \div 1000) * 1000 /\ Millis(y) >= 0
         /\ y <= 0 => Millis(y) <= 0 /\ (y \div 1000) * 1000 <= 0
BY DEF Millis

\* What the test of a builder lets through, and what becomes of it.
LEMMA ValueCarried ==
  ASSUME NEW type \in Simple, NEW x, Exported(x), ~Refuses(type, x), ~Panics(type, x)
  PROVE  LET y == Converted(type, x)
         IN  /\ Positive(type, x) => Given(type, y) /\ Carried(type, y) = Meant(type, x)
             /\ ~Positive(type, x) /\ Given(type, y) => Carried(type, y) = 0
             /\ ~Positive(type, x) /\ type = "duration" => Carried(type, y) \in Int /\ Carried(type, y) <= 0
             /\ type # "duration" => Carried(type, y) = y /\ (Given(type, y) <=> Positive(type, x))
<1> DEFINE y == Converted(type, x)
<1>1. /\ type # "duration" => y = Meant(type, x)
      /\ type = "duration" => y \in Int /\ Meant(type, x) = (y \div 1000) * 1000
      /\ type \in {"int", "uint", "float"} => y \in Int
  BY ValueMeant
<1> HIDE DEF y
<1>2. CASE type = "duration"
  <2>1. Given(type, y) <=> y > 0
    BY <1>2 DEF Given
  <2>2. Positive(type, x) <=> (y \div 1000) * 1000 > 0
    BY <1>1, <1>2 DEF Positive
  <2>3. Carried(type, y) = Millis(y)
    BY <1>2 DEF Carried
  <2> QED BY <1>1, <1>2, <2>1, <2>2, <2>3, MillisFacts DEF y
<1>3. CASE type # "duration"
  <2>1. Carried(type, y) = y
    BY <1>3 DEF Carried
  <2>2. Given(type, y) <=> Positive(type, x)
    BY <1>1, <1>3 DEF Given, Positive, Simple
  <2> QED BY <1>1, <1>3, <2>1, <2>2 DEF y
<1> QED BY <1>2, <1>3

(***************************************************************************)
(* The flags.                                                              *)
(***************************************************************************)
Fallback(type, f) == IF f \in DOMAIN Documented THEN Documented[f] ELSE Zero(Fields(type)[f])

RowShape(type, f) ==
  /\ f \in DOMAIN Fields(type) /\ Fields(type)[f] \in Simple
  /\ Flags(type)[f].field = f
  /\ Flags(type)[f].needs \subseteq DOMAIN Fields(type)
  /\ type \in Protocol => f # "port" /\ "port" \notin Flags(type)[f].needs

\* A flag that is passed when its field is given.
OwnRow(type, f) ==
  /\ f \notin DOMAIN Companion /\ f # "load"
  /\ Flags(type)[f].needs = {f} /\ Flags(type)[f].default = Fallback(type, f)
  /\ Fields(type)[f] = "duration" => f \notin DOMAIN Documented

\* A flag of a proxy that is passed with the field it goes with.
PairedRow(type, f) ==
  /\ type \in {"http", "grpc"}
  /\ f \in {"delayVariation", "errorCode", "errorBody", "statusCode", "statusMessage"}
  /\ f = "errorCode" => type = "http"
  /\ f = "statusCode" => type = "grpc"
  /\ f \in DOMAIN Companion /\ f \notin DOMAIN Documented
  /\ Flags(type)[f].needs = {Companion[f]}
  /\ Flags(type)[f].default = Zero(Fields(type)[f])
  /\ Companion[f] \in DOMAIN Flags(type)
  /\ Companion[f] = IF f = "delayVariation" THEN "averageDelay" ELSE "errorRate"
  /\ Fields(type)[Companion[f]] = IF f = "delayVariation" THEN "duration" ELSE "float"
  /\ Fields(type)[f] = CASE f = "delayVariation" -> "duration"
                         [] f = "errorCode" -> "uint"
                         [] f = "statusCode" -> "int"
                         [] OTHER -> "string"

\* The others: a jitter, which the agent drops without a delay, and the flags
\* that are always passed.
OddRow(type, f) ==
  \/ /\ type = "network_shaping" /\ f = "jitter"
     /\ Flags(type)[f].needs = {"jitter"} /\ Flags(type)[f].default = 0
     /\ Fields(type)[f] = "duration" /\ Fields(type)["delay"] = "duration"
     /\ "delay" \in DOMAIN Flags(type)
  \/ /\ type = "network_partition" /\ f = "direction"
     /\ Flags(type)[f].needs = {} /\ Fields(type)[f] = "string"
  \/ /\ \/ type = "cpu_stress" /\ f \in {"load", "cPUs"}
        \/ type \in {"memory_stress", "disk_fill"} /\ f = "bytes"
     /\ Flags(type)[f].needs = {} /\ Fields(type)[f] = "int"

Row(type, f) == RowShape(type, f) /\ (OwnRow(type, f) \/ PairedRow(type, f) \/ OddRow(type, f))


LEMMA FromFields ==
  ASSUME NEW a, NEW b, NEW d
  PROVE  /\ From(a, b, d).field = a /\ From(a, b, d).needs = b /\ From(a, b, d).default = d
BY DEF From

LEMMA CompanionFields ==
  /\ DOMAIN Companion = {"delayVariation", "errorCode", "errorBody", "statusCode", "statusMessage",
                         "jitter"}
  /\ DOMAIN Documented = {"toxicity", "interface", "upstreamDNS", "path", "workers", "blockSize",
                          "bytesPerWorker", "direction"}
BY DEF Companion, Documented

LEMMA OwnRows ==
  ASSUME NEW type, NEW f, f \notin DOMAIN Companion, f # "load",
         type \in Protocol => f # "port",
         f \in DOMAIN Fields(type), Fields(type)[f] \in Simple,
         Fields(type)[f] = "duration" => f \notin DOMAIN Documented,
         Flags(type)[f] = Own(f, Fallback(type, f))
  PROVE  Row(type, f)
BY FromFields DEF Own, Row, RowShape, OwnRow

LEMMA PairedRows ==
  ASSUME NEW type, NEW f, PairedRow(type, f), Flags(type)[f].field = f,
         f \in DOMAIN Fields(type), Companion[f] \in DOMAIN Fields(type)
  PROVE  Row(type, f)
<1>1. Fields(type)[f] \in Simple
  BY DEF PairedRow, Simple
<1>2. f # "port" /\ Companion[f] # "port"
  BY DEF PairedRow
<1> QED BY <1>1, <1>2 DEF PairedRow, Row, RowShape

LEMMA HTTPRows ==
  ASSUME NEW f \in DOMAIN HTTPFlags
  PROVE  Row("http", f)
<1>1. Flags("http") = HTTPFlags /\ Fields("http") = HTTPFault
  BY DEF Flags, Fields
<1>2. /\ DOMAIN HTTPFlags = {"averageDelay", "delayVariation", "errorRate", "errorCode",
                             "errorBody", "exclude", "modifyResponseBody", "modifyResponseHeaders"}
      /\ HTTPFlags["averageDelay"] = Own("averageDelay", 0)
      /\ HTTPFlags["delayVariation"] = From("delayVariation", {"averageDelay"}, 0)
      /\ HTTPFlags["errorRate"] = Own("errorRate", 0)
      /\ HTTPFlags["errorCode"] = From("errorCode", {"errorRate"}, 0)
      /\ HTTPFlags["errorBody"] = From("errorBody", {"errorRate"}, "")
      /\ HTTPFlags["exclude"] = Own("exclude", "")
      /\ HTTPFlags["modifyResponseBody"] = Own("modifyResponseBody", "")
      /\ HTTPFlags["modifyResponseHeaders"] = Own("modifyResponseHeaders", <<>>)
  BY DEF HTTPFlags
<1>3. /\ DOMAIN HTTPFault = {"port", "averageDelay", "delayVariation", "errorRate", "errorCode",
                             "errorBody", "exclude", "modifyResponseBody", "modifyResponseHeaders"}
      /\ HTTPFault["averageDelay"] = "duration"
      /\ HTTPFault["delayVariation"] = "duration"
      /\ HTTPFault["errorRate"] = "float"
      /\ HTTPFault["errorCode"] = "uint"
      /\ HTTPFault["errorBody"] = "string"
      /\ HTTPFault["exclude"] = "string"
      /\ HTTPFault["modifyResponseBody"] = "string"
      /\ HTTPFault["modifyResponseHeaders"] = "map"
  BY DEF HTTPFault
<1>4. Row("http", "averageDelay")
  <2>1. Fallback("http", "averageDelay") = 0
    BY <1>1, <1>3, CompanionFields DEF Fallback, Zero
  <2> QED BY <1>1, <1>2, <1>3, <2>1, OwnRows, CompanionFields DEF Simple
<1>5. Row("http", "delayVariation")
  <2>1. Companion["delayVariation"] = "averageDelay"
    BY DEF Companion
  <2>2. /\ Flags("http")["delayVariation"].field = "delayVariation"
        /\ Flags("http")["delayVariation"].needs = {"averageDelay"}
        /\ Flags("http")["delayVariation"].default = Zero("duration")
    <3>1. Flags("http")["delayVariation"] = From("delayVariation", {"averageDelay"}, Zero("duration"))
      BY <1>1, <1>2 DEF Zero
    <3> QED BY <3>1, FromFields
  <2>3. PairedRow("http", "delayVariation")
    BY <1>1, <1>2, <1>3, <2>1, <2>2, CompanionFields DEF PairedRow
  <2> QED BY <1>1, <1>3, <2>1, <2>2, <2>3, PairedRows
<1>6. Row("http", "errorRate")
  <2>1. Fallback("http", "errorRate") = 0
    BY <1>1, <1>3, CompanionFields DEF Fallback, Zero
  <2> QED BY <1>1, <1>2, <1>3, <2>1, OwnRows, CompanionFields DEF Simple
<1>7. Row("http", "errorCode")
  <2>1. Companion["errorCode"] = "errorRate"
    BY DEF Companion
  <2>2. /\ Flags("http")["errorCode"].field = "errorCode"
        /\ Flags("http")["errorCode"].needs = {"errorRate"}
        /\ Flags("http")["errorCode"].default = Zero("uint")
    <3>1. Flags("http")["errorCode"] = From("errorCode", {"errorRate"}, Zero("uint"))
      BY <1>1, <1>2 DEF Zero
    <3> QED BY <3>1, FromFields
  <2>3. PairedRow("http", "errorCode")
    BY <1>1, <1>2, <1>3, <2>1, <2>2, CompanionFields DEF PairedRow
  <2> QED BY <1>1, <1>3, <2>1, <2>2, <2>3, PairedRows
<1>8. Row("http", "errorBody")
  <2>1. Companion["errorBody"] = "errorRate"
    BY DEF Companion
  <2>2. /\ Flags("http")["errorBody"].field = "errorBody"
        /\ Flags("http")["errorBody"].needs = {"errorRate"}
        /\ Flags("http")["errorBody"].default = Zero("string")
    <3>1. Flags("http")["errorBody"] = From("errorBody", {"errorRate"}, Zero("string"))
      BY <1>1, <1>2 DEF Zero
    <3> QED BY <3>1, FromFields
  <2>3. PairedRow("http", "errorBody")
    BY <1>1, <1>2, <1>3, <2>1, <2>2, CompanionFields DEF PairedRow
  <2> QED BY <1>1, <1>3, <2>1, <2>2, <2>3, PairedRows
<1>9. Row("http", "exclude")
  <2>1. Fallback("http", "exclude") = ""
    BY <1>1, <1>3, CompanionFields DEF Fallback, Zero
  <2> QED BY <1>1, <1>2, <1>3, <2>1, OwnRows, CompanionFields DEF Simple
<1>10. Row("http", "modifyResponseBody")
  <2>1. Fallback("http", "modifyResponseBody") = ""
    BY <1>1, <1>3, CompanionFields DEF Fallback, Zero
  <2> QED BY <1>1, <1>2, <1>3, <2>1, OwnRows, CompanionFields DEF Simple
<1>11. Row("http", "modifyResponseHeaders")
  <2>1. Fallback("http", "modifyResponseHeaders") = <<>>
    BY <1>1, <1>3, CompanionFields DEF Fallback, Zero
  <2> QED BY <1>1, <1>2, <1>3, <2>1, OwnRows, CompanionFields DEF Simple
<1> QED BY <1>2, <1>4, <1>5, <1>6, <1>7, <1>8, <1>9, <1>10, <1>11

LEMMA HTTPResetPeerRows ==
  ASSUME NEW f \in DOMAIN HTTPResetPeerFlags
  PROVE  Row("http_reset_peer", f)
<1>1. Flags("http_reset_peer") = HTTPResetPeerFlags /\ Fields("http_reset_peer") = HTTPResetPeerFault
  BY DEF Flags, Fields
<1>2. /\ DOMAIN HTTPResetPeerFlags = {"resetTimeout", "toxicity"}
      /\ HTTPResetPeerFlags["resetTimeout"] = Own("resetTimeout", 0)
      /\ HTTPResetPeerFlags["toxicity"] = Own("toxicity", 100)
  BY DEF HTTPResetPeerFlags
<1>3. /\ DOMAIN HTTPResetPeerFault = {"port", "resetTimeout", "toxicity"}
      /\ HTTPResetPeerFault["resetTimeout"] = "duration"
      /\ HTTPResetPeerFault["toxicity"] = "float"
  BY DEF HTTPResetPeerFault
<1>4. Row("http_reset_peer", "resetTimeout")
  <2>1. Fallback("http_reset_peer", "resetTimeout") = 0
    BY <1>1, <1>3, CompanionFields DEF Fallback, Zero
  <2> QED BY <1>1, <1>2, <1>3, <2>1, OwnRows, CompanionFields DEF Simple
<1>5. Row("http_reset_peer", "toxicity")
  <2>1. Fallback("http_reset_peer", "toxicity") = 100
    BY <1>1, <1>3, CompanionFields DEF Fallback, Documented
  <2> QED BY <1>1, <1>2, <1>3, <2>1, OwnRows, CompanionFields DEF Simple
<1> QED BY <1>2, <1>4, <1>5

LEMMA GrpcRows ==
  ASSUME NEW f \in DOMAIN GrpcFlags
  PROVE  Row("grpc", f)
<1>1. Flags("grpc") = GrpcFlags /\ Fields("grpc") = GrpcFault
  BY DEF Flags, Fields
<1>2. /\ DOMAIN GrpcFlags = {"averageDelay", "delayVariation", "errorRate", "statusCode",
                             "statusMessage", "exclude"}
      /\ GrpcFlags["averageDelay"] = Own("averageDelay", 0)
      /\ GrpcFlags["delayVariation"] = From("delayVariation", {"averageDelay"}, 0)
      /\ GrpcFlags["errorRate"] = Own("errorRate", 0)
      /\ GrpcFlags["statusCode"] = From("statusCode", {"errorRate"}, 0)
      /\ GrpcFlags["statusMessage"] = From("statusMessage", {"errorRate"}, "")
      /\ GrpcFlags["exclude"] = Own("exclude", "")
  BY DEF GrpcFlags
<1>3. /\ DOMAIN GrpcFault = {"port", "averageDelay", "delayVariation", "errorRate", "statusCode",
                             "statusMessage", "exclude"}
      /\ GrpcFault["averageDelay"] = "duration"
      /\ GrpcFault["delayVariation"] = "duration"
      /\ GrpcFault["errorRate"] = "float"
      /\ GrpcFault["statusCode"] = "int"
      /\ GrpcFault["statusMessage"] = "string"
      /\ GrpcFault["exclude"] = "string"
  BY DEF GrpcFault
<1>4. Row("grpc", "averageDelay")
  <2>1. Fallback("grpc", "averageDelay") = 0
    BY <1>1, <1>3, CompanionFields DEF Fallback, Zero
  <2> QED BY <1>1, <1>2, <1>3, <2>1, OwnRows, CompanionFields DEF Simple
<1>5. Row("grpc", "delayVariation")
  <2>1. Companion["delayVariation"] = "averageDelay"
    BY DEF Companion
  <2>2. /\ Flags("grpc")["delayVariation"].field = "delayVariation"
        /\ Flags("grpc")["delayVariation"].needs = {"averageDelay"}
        /\ Flags("grpc")["delayVariation"].default = Zero("duration")
    <3>1. Flags("grpc")["delayVariation"] = From("delayVariation", {"averageDelay"}, Zero("duration"))
      BY <1>1, <1>2 DEF Zero
    <3> QED BY <3>1, FromFields
  <2>3. PairedRow("grpc", "delayVariation")
    BY <1>1, <1>2, <1>3, <2>1, <2>2, CompanionFields DEF PairedRow
  <2> QED BY <1>1, <1>3, <2>1, <2>2, <2>3, PairedRows
<1>6. Row("grpc", "errorRate")
  <2>1. Fallback("grpc", "errorRate") = 0
    BY <1>1, <1>3, CompanionFields DEF Fallback, Zero
  <2> QED BY <1>1, <1>2, <1>3, <2>1, OwnRows, CompanionFields DEF Simple
<1>7. Row("grpc", "statusCode")
  <2>1. Companion["statusCode"] = "errorRate"
    BY DEF Companion
  <2>2. /\ Flags("grpc")["statusCode"].field = "statusCode"
        /\ Flags("grpc")["statusCode"].needs = {"errorRate"}
        /\ Flags("grpc")["statusCode"].default = Zero("int")
    <3>1. Flags("grpc")["statusCode"] = From("statusCode", {"errorRate"}, Zero("int"))
      BY <1>1, <1>2 DEF Zero
    <3> QED BY <3>1, FromFields
  <2>3. PairedRow("grpc", "statusCode")
    BY <1>1, <1>2, <1>3, <2>1, <2>2, CompanionFields DEF PairedRow
  <2> QED BY <1>1, <1>3, <2>1, <2>2, <2>3, PairedRows
<1>8. Row("grpc", "statusMessage")
  <2>1. Companion["statusMessage"] = "errorRate"
    BY DEF Companion
  <2>2. /\ Flags("grpc")["statusMessage"].field = "statusMessage"
        /\ Flags("grpc")["statusMessage"].needs = {"errorRate"}
        /\ Flags("grpc")["statusMessage"].default = Zero("string")
    <3>1. Flags("grpc")["statusMessage"] = From("statusMessage", {"errorRate"}, Zero("string"))
      BY <1>1, <1>2 DEF Zero
    <3> QED BY <3>1, FromFields
  <2>3. PairedRow("grpc", "statusMessage")
    BY <1>1, <1>2, <1>3, <2>1, <2>2, CompanionFields DEF PairedRow
  <2> QED BY <1>1, <1>3, <2>1, <2>2, <2>3, PairedRows
<1>9. Row("grpc", "exclude")
  <2>1. Fallback("grpc", "exclude") = ""
    BY <1>1, <1>3, CompanionFields DEF Fallback, Zero
  <2> QED BY <1>1, <1>2, <1>3, <2>1, OwnRows, CompanionFields DEF Simple
<1> QED BY <1>2, <1>4, <1>5, <1>6, <1>7, <1>8, <1>9

LEMMA DNSRows ==
  ASSUME NEW f \in DOMAIN DNSFlags
  PROVE  Row("dns", f)
<1>1. Flags("dns") = DNSFlags /\ Fields("dns") = DNSFault
  BY DEF Flags, Fields
<1>2. /\ DOMAIN DNSFlags = {"errorRate", "upstreamDNS", "spoof"}
      /\ DNSFlags["errorRate"] = Own("errorRate", 0)
      /\ DNSFlags["upstreamDNS"] = Own("upstreamDNS", "8.8.8.8:53")
      /\ DNSFlags["spoof"] = Own("spoof", <<>>)
  BY DEF DNSFlags
<1>3. /\ DOMAIN DNSFault = {"errorRate", "spoof", "upstreamDNS"}
      /\ DNSFault["errorRate"] = "float"
      /\ DNSFault["upstreamDNS"] = "string"
      /\ DNSFault["spoof"] = "map"
  BY DEF DNSFault
<1>4. Row("dns", "errorRate")
  <2>1. Fallback("dns", "errorRate") = 0
    BY <1>1, <1>3, CompanionFields DEF Fallback, Zero
  <2> QED BY <1>1, <1>2, <1>3, <2>1, OwnRows, CompanionFields DEF Simple
<1>5. Row("dns", "upstreamDNS")
  <2>1. Fallback("dns", "upstreamDNS") = "8.8.8.8:53"
    BY <1>1, <1>3, CompanionFields DEF Fallback, Documented
  <2> QED BY <1>1, <1>2, <1>3, <2>1, OwnRows, CompanionFields DEF Simple
<1>6. Row("dns", "spoof")
  <2>1. Fallback("dns", "spoof") = <<>>
    BY <1>1, <1>3, CompanionFields DEF Fallback, Zero
  <2> QED BY <1>1, <1>2, <1>3, <2>1, OwnRows, CompanionFields DEF Simple
<1> QED BY <1>2, <1>4, <1>5, <1>6

LEMMA NetworkShapingRows ==
  ASSUME NEW f \in DOMAIN NetworkShapingFlags
  PROVE  Row("network_shaping", f)
<1>1. Flags("network_shaping") = NetworkShapingFlags /\ Fields("network_shaping") = NetworkShapingFault
  BY DEF Flags, Fields
<1>2. /\ DOMAIN NetworkShapingFlags = {"interface", "delay", "jitter", "loss", "corrupt",
                                       "duplicate", "rate"}
      /\ NetworkShapingFlags["interface"] = Own("interface", "eth0")
      /\ NetworkShapingFlags["delay"] = Own("delay", 0)
      /\ NetworkShapingFlags["jitter"] = Own("jitter", 0)
      /\ NetworkShapingFlags["loss"] = Own("loss", 0)
      /\ NetworkShapingFlags["corrupt"] = Own("corrupt", 0)
      /\ NetworkShapingFlags["duplicate"] = Own("duplicate", 0)
      /\ NetworkShapingFlags["rate"] = Own("rate", "")
  BY DEF NetworkShapingFlags
<1>3. /\ DOMAIN NetworkShapingFault = {"interface", "delay", "jitter", "loss", "corrupt",
                                       "duplicate", "rate"}
      /\ NetworkShapingFault["interface"] = "string"
      /\ NetworkShapingFault["delay"] = "duration"
      /\ NetworkShapingFault["jitter"] = "duration"
      /\ NetworkShapingFault["loss"] = "float"
      /\ NetworkShapingFault["corrupt"] = "float"
      /\ NetworkShapingFault["duplicate"] = "float"
      /\ NetworkShapingFault["rate"] = "string"
  BY DEF NetworkShapingFault
<1>4. Row("network_shaping", "interface")
  <2>1. Fallback("network_shaping", "interface") = "eth0"
    BY <1>1, <1>3, CompanionFields DEF Fallback, Documented
  <2>2. /\ Flags("network_shaping")["interface"] = Own("interface", Fallback("network_shaping", "interface"))
        /\ "interface" \in DOMAIN Fields("network_shaping") /\ Fields("network_shaping")["interface"] \in Simple
        /\ Fields("network_shaping")["interface"] = "string"
    BY <1>1, <1>2, <1>3, <2>1 DEF Simple
  <2> QED BY <2>2, OwnRows, CompanionFields
<1>5. Row("network_shaping", "delay")
  <2>1. Fallback("network_shaping", "delay") = 0
    BY <1>1, <1>3, CompanionFields DEF Fallback, Zero
  <2>2. /\ Flags("network_shaping")["delay"] = Own("delay", Fallback("network_shaping", "delay"))
        /\ "delay" \in DOMAIN Fields("network_shaping") /\ Fields("network_shaping")["delay"] \in Simple
        /\ Fields("network_shaping")["delay"] = "duration"
    BY <1>1, <1>2, <1>3, <2>1 DEF Simple
  <2> QED BY <2>2, OwnRows, CompanionFields
<1>6. Row("network_shaping", "jitter")
  <2>1. /\ Flags("network_shaping")["jitter"].field = "jitter"
        /\ Flags("network_shaping")["jitter"].needs = {"jitter"}
        /\ Flags("network_shaping")["jitter"].default = 0
    <3>1. Flags("network_shaping")["jitter"] = From("jitter", {"jitter"}, 0)
      BY <1>1, <1>2 DEF Own
    <3> QED BY <3>1, FromFields
  <2>2. /\ "jitter" \in DOMAIN Fields("network_shaping") /\ "delay" \in DOMAIN Flags("network_shaping")
        /\ Fields("network_shaping")["jitter"] = "duration" /\ Fields("network_shaping")["delay"] = "duration"
    BY <1>1, <1>2, <1>3
  <2> QED BY <2>1, <2>2 DEF Row, RowShape, OddRow, Simple, Protocol
<1>7. Row("network_shaping", "loss")
  <2>1. Fallback("network_shaping", "loss") = 0
    BY <1>1, <1>3, CompanionFields DEF Fallback, Zero
  <2>2. /\ Flags("network_shaping")["loss"] = Own("loss", Fallback("network_shaping", "loss"))
        /\ "loss" \in DOMAIN Fields("network_shaping") /\ Fields("network_shaping")["loss"] \in Simple
        /\ Fields("network_shaping")["loss"] = "float"
    BY <1>1, <1>2, <1>3, <2>1 DEF Simple
  <2> QED BY <2>2, OwnRows, CompanionFields
<1>8. Row("network_shaping", "corrupt")
  <2>1. Fallback("network_shaping", "corrupt") = 0
    BY <1>1, <1>3, CompanionFields DEF Fallback, Zero
  <2>2. /\ Flags("network_shaping")["corrupt"] = Own("corrupt", Fallback("network_shaping", "corrupt"))
        /\ "corrupt" \in DOMAIN Fields("network_shaping") /\ Fields("network_shaping")["corrupt"] \in Simple
        /\ Fields("network_shaping")["corrupt"] = "float"
    BY <1>1, <1>2, <1>3, <2>1 DEF Simple
  <2> QED BY <2>2, OwnRows, CompanionFields
<1>9. Row("network_shaping", "duplicate")
  <2>1. Fallback("network_shaping", "duplicate") = 0
    BY <1>1, <1>3, CompanionFields DEF Fallback, Zero
  <2>2. /\ Flags("network_shaping")["duplicate"] = Own("duplicate", Fallback("network_shaping", "duplicate"))
        /\ "duplicate" \in DOMAIN Fields("network_shaping") /\ Fields("network_shaping")["duplicate"] \in Simple
        /\ Fields("network_shaping")["duplicate"] = "float"
    BY <1>1, <1>2, <1>3, <2>1 DEF Simple
  <2> QED BY <2>2, OwnRows, CompanionFields
<1>10. Row("network_shaping", "rate")
  <2>1. Fallback("network_shaping", "rate") = ""
    BY <1>1, <1>3, CompanionFields DEF Fallback, Zero
  <2>2. /\ Flags("network_shaping")["rate"] = Own("rate", Fallback("network_shaping", "rate"))
        /\ "rate" \in DOMAIN Fields("network_shaping") /\ Fields("network_shaping")["rate"] \in Simple
        /\ Fields("network_shaping")["rate"] = "string"
    BY <1>1, <1>2, <1>3, <2>1 DEF Simple
  <2> QED BY <2>2, OwnRows, CompanionFields
<1> QED BY <1>2, <1>4, <1>5, <1>6, <1>7, <1>8, <1>9, <1>10

LEMMA NetworkPartitionRows ==
  ASSUME NEW f \in DOMAIN NetworkPartitionFlags
  PROVE  Row("network_partition", f)
<1>1. Flags("network_partition") = NetworkPartitionFlags /\ Fields("network_partition") = NetworkPartitionFault
  BY DEF Flags, Fields
<1>2. /\ DOMAIN NetworkPartitionFlags = {"direction", "hosts"}
      /\ NetworkPartitionFlags["direction"] = From("direction", {}, "both")
      /\ NetworkPartitionFlags["hosts"] = Own("hosts", <<>>)
  BY DEF NetworkPartitionFlags
<1>3. /\ DOMAIN NetworkPartitionFault = {"direction", "hosts"}
      /\ NetworkPartitionFault["direction"] = "string"
      /\ NetworkPartitionFault["hosts"] = "list"
  BY DEF NetworkPartitionFault
<1>4. Row("network_partition", "direction")
  BY <1>1, <1>2, <1>3, FromFields DEF Row, RowShape, OddRow, Own, Always, Simple, Protocol
<1>5. Row("network_partition", "hosts")
  <2>1. Fallback("network_partition", "hosts") = <<>>
    BY <1>1, <1>3, CompanionFields DEF Fallback, Zero
  <2> QED BY <1>1, <1>2, <1>3, <2>1, OwnRows, CompanionFields DEF Simple
<1> QED BY <1>2, <1>4, <1>5

LEMMA CPUStressRows ==
  ASSUME NEW f \in DOMAIN CPUStressFlags
  PROVE  Row("cpu_stress", f)
<1>1. Flags("cpu_stress") = CPUStressFlags /\ Fields("cpu_stress") = CPUStressFault
  BY DEF Flags, Fields
<1>2. /\ DOMAIN CPUStressFlags = {"load", "cPUs"}
      /\ CPUStressFlags["load"] = Always("load")
      /\ CPUStressFlags["cPUs"] = Always("cPUs")
  BY DEF CPUStressFlags
<1>3. /\ DOMAIN CPUStressFault = {"load", "cPUs"}
      /\ CPUStressFault["load"] = "int"
      /\ CPUStressFault["cPUs"] = "int"
  BY DEF CPUStressFault
<1>4. Row("cpu_stress", "load")
  BY <1>1, <1>2, <1>3, FromFields DEF Row, RowShape, OddRow, Own, Always, Simple, Protocol
<1>5. Row("cpu_stress", "cPUs")
  BY <1>1, <1>2, <1>3, FromFields DEF Row, RowShape, OddRow, Own, Always, Simple, Protocol
<1> QED BY <1>2, <1>4, <1>5

LEMMA MemoryStressRows ==
  ASSUME NEW f \in DOMAIN MemoryStressFlags
  PROVE  Row("memory_stress", f)
<1>1. Flags("memory_stress") = MemoryStressFlags /\ Fields("memory_stress") = MemoryStressFault
  BY DEF Flags, Fields
<1>2. /\ DOMAIN MemoryStressFlags = {"bytes"}
      /\ MemoryStressFlags["bytes"] = Always("bytes")
  BY DEF MemoryStressFlags
<1>3. /\ DOMAIN MemoryStressFault = {"bytes"}
      /\ MemoryStressFault["bytes"] = "int"
  BY DEF MemoryStressFault
<1>4. Row("memory_stress", "bytes")
  BY <1>1, <1>2, <1>3, FromFields DEF Row, RowShape, OddRow, Own, Always, Simple, Protocol
<1> QED BY <1>2, <1>4

LEMMA DiskFillRows ==
  ASSUME NEW f \in DOMAIN DiskFillFlags
  PROVE  Row("disk_fill", f)
<1>1. Flags("disk_fill") = DiskFillFlags /\ Fields("disk_fill") = DiskFillFault
  BY DEF Flags, Fields
<1>2. /\ DOMAIN DiskFillFlags = {"bytes", "path", "blockSize"}
      /\ DiskFillFlags["bytes"] = Always("bytes")
      /\ DiskFillFlags["path"] = Own("path", "/tmp")
      /\ DiskFillFlags["blockSize"] = Own("blockSize", DefaultBlockSize)
  BY DEF DiskFillFlags
<1>3. /\ DOMAIN DiskFillFault = {"bytes", "path", "blockSize"}
      /\ DiskFillFault["bytes"] = "int"
      /\ DiskFillFault["path"] = "string"
      /\ DiskFillFault["blockSize"] = "int"
  BY DEF DiskFillFault
<1>4. Row("disk_fill", "bytes")
  BY <1>1, <1>2, <1>3, FromFields DEF Row, RowShape, OddRow, Own, Always, Simple, Protocol
<1>5. Row("disk_fill", "path")
  <2>1. Fallback("disk_fill", "path") = "/tmp"
    BY <1>1, <1>3, CompanionFields DEF Fallback, Documented
  <2> QED BY <1>1, <1>2, <1>3, <2>1, OwnRows, CompanionFields DEF Simple
<1>6. Row("disk_fill", "blockSize")
  <2>1. Fallback("disk_fill", "blockSize") = DefaultBlockSize
    BY <1>1, <1>3, CompanionFields DEF Fallback, Documented, DefaultBlockSize
  <2> QED BY <1>1, <1>2, <1>3, <2>1, OwnRows, CompanionFields DEF Simple
<1> QED BY <1>2, <1>4, <1>5, <1>6

LEMMA IOStressRows ==
  ASSUME NEW f \in DOMAIN IOStressFlags
  PROVE  Row("io_stress", f)
<1>1. Flags("io_stress") = IOStressFlags /\ Fields("io_stress") = IOStressFault
  BY DEF Flags, Fields
<1>2. /\ DOMAIN IOStressFlags = {"path", "workers", "bytesPerWorker"}
      /\ IOStressFlags["path"] = Own("path", "/tmp")
      /\ IOStressFlags["workers"] = Own("workers", 4)
      /\ IOStressFlags["bytesPerWorker"] = Own("bytesPerWorker", DefaultWorkerBytes)
  BY DEF IOStressFlags
<1>3. /\ DOMAIN IOStressFault = {"path", "workers", "bytesPerWorker"}
      /\ IOStressFault["path"] = "string"
      /\ IOStressFault["workers"] = "int"
      /\ IOStressFault["bytesPerWorker"] = "int"
  BY DEF IOStressFault
<1>4. Row("io_stress", "path")
  <2>1. Fallback("io_stress", "path") = "/tmp"
    BY <1>1, <1>3, CompanionFields DEF Fallback, Documented
  <2> QED BY <1>1, <1>2, <1>3, <2>1, OwnRows, CompanionFields DEF Simple
<1>5. Row("io_stress", "workers")
  <2>1. Fallback("io_stress", "workers") = 4
    BY <1>1, <1>3, CompanionFields DEF Fallback, Documented
  <2> QED BY <1>1, <1>2, <1>3, <2>1, OwnRows, CompanionFields DEF Simple
<1>6. Row("io_stress", "bytesPerWorker")
  <2>1. Fallback("io_stress", "bytesPerWorker") = DefaultWorkerBytes
    BY <1>1, <1>3, CompanionFields DEF Fallback, Documented, DefaultWorkerBytes
  <2> QED BY <1>1, <1>2, <1>3, <2>1, OwnRows, CompanionFields DEF Simple
<1> QED BY <1>2, <1>4, <1>5, <1>6

LEMMA NetworkRows ==
  ASSUME NEW f \in DOMAIN NetworkFlags
  PROVE  Row("network", f)
<1>1. Flags("network") = NetworkFlags /\ Fields("network") = NetworkFault
  BY DEF Flags, Fields
<1>2. /\ DOMAIN NetworkFlags = {"port", "protocol"}
      /\ NetworkFlags["port"] = Own("port", 0)
      /\ NetworkFlags["protocol"] = Own("protocol", "")
  BY DEF NetworkFlags
<1>3. /\ DOMAIN NetworkFault = {"port", "protocol"}
      /\ NetworkFault["port"] = "uint"
      /\ NetworkFault["protocol"] = "string"
  BY DEF NetworkFault
<1>4. Row("network", "port")
  <2>1. Fallback("network", "port") = 0
    BY <1>1, <1>3, CompanionFields DEF Fallback, Zero
  <2> QED BY <1>1, <1>2, <1>3, <2>1, OwnRows, CompanionFields DEF Simple, Protocol
<1>5. Row("network", "protocol")
  <2>1. Fallback("network", "protocol") = ""
    BY <1>1, <1>3, CompanionFields DEF Fallback, Zero
  <2> QED BY <1>1, <1>2, <1>3, <2>1, OwnRows, CompanionFields DEF Simple
<1> QED BY <1>2, <1>4, <1>5

LEMMA Rows == ASSUME NEW type \in Commanded, NEW f \in DOMAIN Flags(type) PROVE Row(type, f)
<1>1. Flags("http") = HTTPFlags
  BY DEF Flags
<1>2. Flags("http_reset_peer") = HTTPResetPeerFlags
  BY DEF Flags
<1>3. Flags("grpc") = GrpcFlags
  BY DEF Flags
<1>4. Flags("dns") = DNSFlags
  BY DEF Flags
<1>5. Flags("network_shaping") = NetworkShapingFlags
  BY DEF Flags
<1>6. Flags("network_partition") = NetworkPartitionFlags
  BY DEF Flags
<1>7. Flags("cpu_stress") = CPUStressFlags
  BY DEF Flags
<1>8. Flags("memory_stress") = MemoryStressFlags
  BY DEF Flags
<1>9. Flags("disk_fill") = DiskFillFlags
  BY DEF Flags
<1>10. Flags("io_stress") = IOStressFlags
  BY DEF Flags
<1>11. Flags("network") = NetworkFlags
  BY DEF Flags
<1> QED BY <1>1, <1>2, <1>3, <1>4, <1>5, <1>6, <1>7, <1>8, <1>9, <1>10, <1>11,
          HTTPRows, HTTPResetPeerRows, GrpcRows, DNSRows, NetworkShapingRows,
          NetworkPartitionRows, CPUStressRows, MemoryStressRows, DiskFillRows, IOStressRows,
          NetworkRows
       DEF Commanded, Protocol

(***************************************************************************)
(* What an accepted call amounts to.                                       *)
(***************************************************************************)
Taken(fields, object) ==
  \A f \in DOMAIN object :
    /\ f \in DOMAIN fields
    /\ ~Refuses(fields[f], object[f]) /\ ~Panics(fields[f], object[f])

LEMMA StructTaken ==
  ASSUME NEW fields, NEW object, "ok" \in StructOutcomes(fields, object)
  PROVE  Taken(fields, object) /\ StructOutcomes(fields, object) = {"ok"}
BY DEF StructOutcomes, Taken

LEMMA CallTaken ==
  ASSUME NEW m, NEW c, Plain(m), m.type \in Commanded, c.args \in Nat, "ok" \in CallOutcomes(m, c)
  PROVE  /\ c.args >= 2
         /\ Taken(Fields(m.type), c.fault)
         /\ c.args > 2 => Taken(m.options, c.options)
         /\ c.duration.kind = "time"
<1>1. m.fields = Fields(m.type) /\ m.args = 2 /\ m.duration = "required"
  BY DEF Plain
<1> DEFINE object == StructOutcomes(m.fields, c.fault)
           time   == DurationOutcomes(c.duration)
           third  == IF c.args > 2 THEN StructOutcomes(m.options, c.options) ELSE {"ok"}
<1>2. CallOutcomes(m, c) =
        IF c.args < m.args THEN {"error"}
        ELSE IF object # {"ok"} THEN object
        ELSE IF ~Requires(m.type, Struct(m.fields, c.fault)) THEN {"error"}
        ELSE IF time # {"ok"} THEN time
        ELSE third
  BY <1>1 DEF CallOutcomes
<1>3. /\ "ok" \in object => Taken(m.fields, c.fault) /\ object = {"ok"}
      /\ c.args > 2 /\ "ok" \in third => Taken(m.options, c.options)
      /\ "ok" \in time => time = {"ok"} /\ c.duration.kind = "time"
  <2>1. "ok" \in object => Taken(m.fields, c.fault) /\ object = {"ok"}
    BY StructTaken
  <2>2. c.args > 2 /\ "ok" \in third => Taken(m.options, c.options)
    BY StructTaken
  <2>3. "ok" \in time => time = {"ok"} /\ c.duration.kind = "time"
    BY DEF DurationOutcomes, Refuses, Accepted
  <2> QED BY <2>1, <2>2, <2>3
<1> HIDE DEF object, time, third
<1> QED BY <1>1, <1>2, <1>3

\* What a field holds once the fault is converted, and what a flag is given.
Value(type, f, fault) ==
  IF f \in DOMAIN fault THEN Converted(Fields(type)[f], fault[f]) ELSE Zero(Fields(type)[f])
Setting(type, f, fault) ==
  LET flag == Flags(type)[f]
  IN  IF \A n \in flag.needs : Given(Fields(type)[n], Value(type, n, fault))
      THEN Carried(Fields(type)[flag.field], Value(type, flag.field, fault))
      ELSE flag.default

LEMMA SettingsMade ==
  ASSUME NEW r, NEW fault, r.type \in Commanded,
         \A f \in DOMAIN Fields(r.type) :
           (r.type \in Protocol /\ f = "port") \/ r.fault[f] = Value(r.type, f, fault)
  PROVE  /\ DOMAIN Settings(r) = DOMAIN Flags(r.type)
         /\ \A f \in DOMAIN Flags(r.type) : Settings(r)[f] = Setting(r.type, f, fault)
<1>1. DOMAIN Settings(r) = DOMAIN Flags(r.type)
  BY DEF Settings
<1>2. ASSUME NEW f \in DOMAIN Flags(r.type) PROVE Settings(r)[f] = Setting(r.type, f, fault)
  <2>1. RowShape(r.type, f)
    BY Rows DEF Row
  <2>2. \A n \in Flags(r.type)[f].needs \cup {Flags(r.type)[f].field} :
          r.fault[n] = Value(r.type, n, fault)
    BY <2>1 DEF RowShape
  <2>3. Settings(r)[f] =
          IF \A n \in Flags(r.type)[f].needs : Given(Fields(r.type)[n], r.fault[n])
          THEN Carried(Fields(r.type)[Flags(r.type)[f].field], r.fault[Flags(r.type)[f].field])
          ELSE Flags(r.type)[f].default
    BY DEF Settings
  <2> QED BY <2>2, <2>3 DEF Setting
<1> QED BY <1>1, <1>2
(***************************************************************************)
(* The command of a commissioned agent, in terms of the call.              *)
(***************************************************************************)
Options(c) == IF c.args > 2 THEN c.options ELSE NoFields

\* A call that an agent can come from, and the command built for it.
Sound(m, c) ==
  /\ Plain(m) /\ m.type \in Commanded
  /\ c.args \in Nat /\ c.args >= 2
  /\ Passable(Fields(m.type), c.fault) /\ Taken(Fields(m.type), c.fault)
  /\ Passable(m.options, Options(c)) /\ Taken(m.options, Options(c))
  /\ c.args < 3 => c.options = NoFields
  /\ c.duration.kind = "time" /\ c.duration.value \in Int
BuiltFor(m, c, b) ==
  /\ b.status = "ok" /\ b.type = m.type /\ ~Refused(b)
  /\ {"settings", "type", "duration", "options"} \subseteq DOMAIN b
  /\ DOMAIN b.settings = DOMAIN Flags(m.type)
  /\ \A f \in DOMAIN Flags(m.type) : b.settings[f] = Setting(m.type, f, c.fault)
  /\ b.duration = Seconds(c.duration.value)
  /\ b.options = Struct(m.options, Options(c))

LEMMA OrderSound ==
  ASSUME Shape, NEW v, NEW n, NEW p, Ordered(v, n, p)
  PROVE  Sound(MethodOfCall(v, n), script[v].calls[n])
<1> DEFINE m == MethodOfCall(v, n)
           c == script[v].calls[n]
<1>1. v \in VU /\ n \in 1 .. Len(script[v].calls) /\ script[v].kind \in {"pod", "service"}
  BY DEF Ordered
<1>2. /\ Callable(script[v].kind, c) /\ c.method # "cleanup"
      /\ "ok" \in CallOutcomes(m, c) /\ m.type \in Commanded
  BY <1>1, CaseFacts DEF Ordered
<1>3. Plain(m)
  BY <1>1, <1>2, PlainMethods DEF AllPlain, Callable, MethodOfCall
<1>4. m = Methods(script[v].kind)[c.method]
  BY DEF MethodOfCall
<1>5. /\ c.args \in Nat /\ Exported(c.duration)
      /\ Passable(m.fields, c.fault) /\ Passable(m.options, c.options)
      /\ c.args < 3 => c.options = NoFields
  BY <1>2, <1>4 DEF Callable
<1> HIDE DEF m, c
<1>6. m.fields = Fields(m.type)
  BY <1>2, <1>3 DEF Plain
<1>7. /\ c.args >= 2 /\ Taken(Fields(m.type), c.fault)
      /\ c.args > 2 => Taken(m.options, c.options)
      /\ c.duration.kind = "time"
  BY <1>2, <1>3, <1>5, CallTaken
<1>8. c.duration.value \in Int
  BY <1>5, <1>7 DEF Exported
<1>9. Taken(m.options, NoFields) /\ Passable(m.options, NoFields)
  BY DEF Taken, Passable, NoFields
<1>10. Passable(m.options, Options(c)) /\ Taken(m.options, Options(c))
  BY <1>5, <1>7, <1>9 DEF Options
<1>11. Sound(m, c)
  BY <1>2, <1>3, <1>5, <1>6, <1>7, <1>8, <1>10 DEF Sound
<1> QED BY <1>11 DEF m, c

LEMMA OrderBuilt ==
  ASSUME Shape, NEW v, NEW n, NEW p, Ordered(v, n, p)
  PROVE  BuiltFor(MethodOfCall(v, n), script[v].calls[n], Built(v, n, p))
<1> DEFINE m == MethodOfCall(v, n)
           c == script[v].calls[n]
           r == Request(m, c)
           d == Directs(v, n).request
           b == Built(v, n, p)
<1>1. Sound(m, c)
  BY OrderSound
<1>2. b = Commands(d, world.pods[p]) /\ d = Prepared(script[v].kind, r, world.ports).request
  BY DEF Built, Directs
<1>3. b.status = "ok" /\ ~Refused(b)
  BY DEF Ordered
<1> HIDE DEF m, c, d, b
<1>4. /\ r.type = m.type /\ {"type", "fault"} \subseteq DOMAIN r
      /\ r.fault = Struct(Fields(m.type), c.fault)
      /\ r.duration = c.duration.value
      /\ r.options = Struct(m.options, Options(c))
  BY <1>1 DEF Request, Sound, Plain, Options
<1> HIDE DEF r
<1>5. d.type = m.type /\ d.duration = c.duration.value /\ d.options = Struct(m.options, Options(c))
  BY <1>2, <1>4 DEF Prepared
<1>6. \A f \in DOMAIN Fields(d.type) :
        (d.type \in Protocol /\ f = "port") \/ d.fault[f] = Value(d.type, f, c.fault)
  <2>1. /\ DOMAIN r.fault = DOMAIN Fields(m.type)
        /\ \A f \in DOMAIN Fields(m.type) : r.fault[f] = Value(m.type, f, c.fault)
    BY <1>4 DEF Struct, Value
  <2>2. \A f \in DOMAIN r.fault : (m.type \in Protocol /\ f = "port") \/ d.fault[f] = r.fault[f]
    <3>1. CASE m.type \notin Protocol
      BY <1>2, <1>4, <3>1 DEF Prepared
    <3>2. CASE m.type \in Protocol
      <4>1. PICK x : d = [r EXCEPT !.fault.port = x]
        BY <1>2, <1>4, <3>2 DEF Prepared
      <4>2. d.fault = [r.fault EXCEPT !.port = x]
        BY <1>4, <4>1
      <4> QED BY <3>2, <4>2
    <3> QED BY <3>1, <3>2
  <2> QED BY <1>5, <2>1, <2>2
<1>7. /\ b.type = d.type /\ b.settings = Settings(d) /\ b.duration = Seconds(d.duration)
      /\ b.options = d.options /\ {"settings", "type", "duration", "options"} \subseteq DOMAIN b
  BY <1>2 DEF Commands
<1>8. /\ DOMAIN b.settings = DOMAIN Flags(m.type)
      /\ \A f \in DOMAIN Flags(m.type) : b.settings[f] = Setting(m.type, f, c.fault)
  BY <1>1, <1>5, <1>6, <1>7, SettingsMade DEF Sound
<1>9. BuiltFor(m, c, b)
  BY <1>3, <1>5, <1>7, <1>8 DEF BuiltFor
<1> QED BY <1>9 DEF m, c, b

(***************************************************************************)
(* The settings.                                                           *)
(***************************************************************************)
Wish(type, f, fault) == Expected(f, Fields(type), fault)

LEMMA WishFacts ==
  ASSUME NEW type, NEW f, NEW fault
  PROVE  Wish(type, f, fault) = IF Effective(f, Fields(type), fault)
                                THEN Meant(Fields(type)[f], fault[f]) ELSE Fallback(type, f)
BY DEF Wish, Expected, Fallback
Positively(type, f, fault) == f \in DOMAIN fault /\ Positive(Fields(type)[f], fault[f])

Obtainable(type, fault) == Passable(Fields(type), fault) /\ Taken(Fields(type), fault)

LEMMA ZeroNotGiven == ASSUME NEW type \in Simple PROVE ~Given(type, Zero(type))
<1>1. CASE type \in {"duration", "int", "uint", "float"}
  <2>1. PICK x : x = Zero(type)
    OBVIOUS
  <2>2. x = 0
    BY <1>1, <2>1 DEF Zero
  <2>3. Given(type, x) <=> x > 0
    BY <1>1 DEF Given
  <2> QED BY <2>1, <2>2, <2>3
<1>2. CASE type = "string"
  BY <1>2 DEF Given, Zero
<1>3. CASE type \in {"list", "map"}
  BY <1>3 DEF Given, Zero
<1> QED BY <1>1, <1>2, <1>3 DEF Simple

LEMMA ValueTaken ==
  ASSUME NEW type, NEW fault, Obtainable(type, fault),
         NEW f \in DOMAIN Fields(type), Fields(type)[f] \in Simple
  PROVE  LET t == Fields(type)[f]
             y == Value(type, f, fault)
         IN  /\ Positively(type, f, fault) => Given(t, y) /\ Carried(t, y) = Meant(t, fault[f])
             /\ ~Positively(type, f, fault) /\ Given(t, y) => Carried(t, y) = 0 /\ t = "duration"
             /\ ~Positively(type, f, fault) /\ t = "duration" => Carried(t, y) \in Int /\ Carried(t, y) <= 0
             /\ t # "duration" => Carried(t, y) = y
<1> DEFINE t == Fields(type)[f]
           y == Value(type, f, fault)
<1>1. CASE f \in DOMAIN fault
  <2>1. Exported(fault[f]) /\ ~Refuses(t, fault[f]) /\ ~Panics(t, fault[f])
    BY <1>1 DEF Obtainable, Passable, Taken
  <2>2. y = Converted(t, fault[f]) /\ (Positively(type, f, fault) <=> Positive(t, fault[f]))
    BY <1>1 DEF Value, Positively
  <2> HIDE DEF t, y
  <2>3. t \in Simple
    BY DEF t
  <2>4. /\ Positive(t, fault[f]) => Given(t, y) /\ Carried(t, y) = Meant(t, fault[f])
        /\ ~Positive(t, fault[f]) /\ Given(t, y) => Carried(t, y) = 0
        /\ ~Positive(t, fault[f]) /\ t = "duration" => Carried(t, y) \in Int /\ Carried(t, y) <= 0
        /\ t # "duration" => Carried(t, y) = y /\ (Given(t, y) <=> Positive(t, fault[f]))
    BY <2>1, <2>2, <2>3, ValueCarried
  <2>5. /\ Positively(type, f, fault) => Given(t, y) /\ Carried(t, y) = Meant(t, fault[f])
        /\ ~Positively(type, f, fault) /\ Given(t, y) => Carried(t, y) = 0 /\ t = "duration"
        /\ ~Positively(type, f, fault) /\ t = "duration" => Carried(t, y) \in Int /\ Carried(t, y) <= 0
        /\ t # "duration" => Carried(t, y) = y
    BY <2>2, <2>4
  <2> QED BY <2>5 DEF t, y
<1>2. CASE f \notin DOMAIN fault
  <2>1. y = Zero(t) /\ ~Positively(type, f, fault)
    BY <1>2 DEF Value, Positively
  <2>2. ~Given(t, y)
    BY <2>1, ZeroNotGiven
  <2>3. /\ t = "duration" => Carried(t, y) \in Int /\ Carried(t, y) <= 0
        /\ t # "duration" => Carried(t, y) = y
    <3>1. t = "duration" => y = 0
      BY <2>1 DEF Zero
    <3> HIDE DEF t, y
    <3> QED BY <3>1 DEF Carried, Millis
  <2> QED BY <2>1, <2>2, <2>3
<1> QED BY <1>1, <1>2

LEMMA OwnSetting ==
  ASSUME NEW type, NEW fault, Obtainable(type, fault), NEW f, RowShape(type, f), OwnRow(type, f)
  PROVE  Setting(type, f, fault) = Wish(type, f, fault)
<1> DEFINE t == Fields(type)[f]
           y == Value(type, f, fault)
<1>1. /\ Positively(type, f, fault) => Given(t, y) /\ Carried(t, y) = Meant(t, fault[f])
      /\ ~Positively(type, f, fault) /\ Given(t, y) => Carried(t, y) = 0 /\ t = "duration"
  BY ValueTaken DEF RowShape
<1>2. Setting(type, f, fault) = IF Given(t, y) THEN Carried(t, y) ELSE Fallback(type, f)
  BY DEF Setting, OwnRow, RowShape
<1>3. Effective(f, Fields(type), fault) <=> Positively(type, f, fault)
  BY DEF Effective, Positively, OwnRow
<1>4. t = "duration" => Fallback(type, f) = 0
  BY DEF OwnRow, Fallback, Zero
<1> QED BY <1>1, <1>2, <1>3, <1>4, WishFacts

\* What the shaper and the proxies make of a setting.
Dropped(b, f) ==
  \/ b.type = "network_shaping" /\ b.settings["delay"] = 0 /\ f = "jitter"
  \/ b.type \in {"http", "grpc"} /\ b.settings["delayVariation"] < 0 /\ f = "delayVariation"

LEMMA AppliedSetting ==
  ASSUME NEW b, {"settings", "type", "duration", "options"} \subseteq DOMAIN b
  PROVE  /\ DOMAIN Applied(b).settings = DOMAIN b.settings
         /\ \A f \in DOMAIN b.settings :
              Applied(b).settings[f] = IF Dropped(b, f) THEN 0 ELSE b.settings[f]
         /\ Applied(b).type = b.type /\ Applied(b).duration = b.duration
         /\ Applied(b).options = b.options
<1>1. CASE b.type = "network_shaping" /\ b.settings["delay"] = 0
  <2>1. Applied(b) = [b EXCEPT !.settings.jitter = 0]
    BY <1>1 DEF Applied
  <2>2. Applied(b).settings = [b.settings EXCEPT !["jitter"] = 0]
    BY <2>1
  <2> QED BY <1>1, <2>1, <2>2 DEF Dropped
<1>2. CASE b.type \in {"http", "grpc"} /\ b.settings["delayVariation"] < 0
  <2>1. Applied(b) = [b EXCEPT !.settings.delayVariation = 0]
    BY <1>2 DEF Applied
  <2>2. Applied(b).settings = [b.settings EXCEPT !["delayVariation"] = 0]
    BY <2>1
  <2> QED BY <1>2, <2>1, <2>2 DEF Dropped
<1>3. CASE /\ ~(b.type = "network_shaping" /\ b.settings["delay"] = 0)
           /\ ~(b.type \in {"http", "grpc"} /\ b.settings["delayVariation"] < 0)
  BY <1>3 DEF Applied, Dropped
<1> QED BY <1>1, <1>2, <1>3

\* The value of a whole field is not negative when it must not be.
LEMMA Unsigned ==
  ASSUME NEW x, Exported(x), ~Refuses("uint", x), ~Panics("uint", x),
         x.kind \in {"int", "float"} => x.value >= 0
  PROVE  Converted("uint", x) \in Nat
<1>1. x.kind \in {"int", "float"} /\ x.value \in Int
  BY DEF Refuses, Accepted, Panics, Exported
<1> QED BY <1>1 DEF Converted, IntegerPart

\* The value of a field that is a number is an integer.
LEMMA Numeric ==
  ASSUME NEW type, NEW fault, Obtainable(type, fault), NEW f \in DOMAIN Fields(type),
         Fields(type)[f] \in {"duration", "int", "uint", "float"}
  PROVE  /\ Carried(Fields(type)[f], Value(type, f, fault)) \in Int
         /\ Positively(type, f, fault) => Meant(Fields(type)[f], fault[f]) > 0
<1>1. PICK t \in {"duration", "int", "uint", "float"} : t = Fields(type)[f]
  OBVIOUS
<1>2. PICK y : y = Value(type, f, fault)
  OBVIOUS
<1>3. y \in Int
  <2>1. CASE f \in DOMAIN fault
    <3>1. Exported(fault[f]) /\ ~Refuses(t, fault[f]) /\ ~Panics(t, fault[f])
      BY <1>1, <2>1 DEF Obtainable, Passable, Taken
    <3>2. y = Converted(t, fault[f])
      BY <1>1, <1>2, <2>1 DEF Value
    <3> QED BY <3>1, <3>2, ValueMeant DEF Simple
  <2>2. CASE f \notin DOMAIN fault
    <3>1. y = Zero(t)
      BY <1>1, <1>2, <2>2 DEF Value
    <3>2. Zero(t) = 0
      BY DEF Zero
    <3> QED BY <3>1, <3>2
  <2> QED BY <2>1, <2>2
<1>4. Carried(t, y) \in Int
  BY <1>3, MillisFacts DEF Carried
<1>5. Positively(type, f, fault) => Meant(t, fault[f]) > 0
  BY <1>1 DEF Positively, Positive
<1> QED BY <1>1, <1>2, <1>4, <1>5

LEMMA PairedSetting ==
  ASSUME NEW m, NEW c, NEW b, Sound(m, c), BuiltFor(m, c, b),
         NEW f \in DOMAIN Flags(m.type), RowShape(m.type, f), PairedRow(m.type, f)
  PROVE  (IF Dropped(b, f) THEN 0 ELSE b.settings[f]) = Wish(m.type, f, c.fault)
<1> DEFINE g == Companion[f]
           t == Fields(m.type)[f]
           y == Value(m.type, f, c.fault)
           z == Value(m.type, g, c.fault)
           u == Fields(m.type)[g]
<1>1. Obtainable(m.type, c.fault) /\ m.type \in {"http", "grpc"} /\ m.type = b.type
  BY DEF Sound, Obtainable, PairedRow, BuiltFor
<1>2. /\ Positively(m.type, f, c.fault) => Given(t, y) /\ Carried(t, y) = Meant(t, c.fault[f])
      /\ ~Positively(m.type, f, c.fault) /\ Given(t, y) => Carried(t, y) = 0 /\ t = "duration"
      /\ ~Positively(m.type, f, c.fault) /\ t = "duration" => Carried(t, y) \in Int /\ Carried(t, y) <= 0
      /\ t # "duration" => Carried(t, y) = y
  BY <1>1, ValueTaken DEF RowShape
<1>3. RowShape(m.type, g) /\ OwnRow(m.type, g) /\ g \in DOMAIN Flags(m.type)
  <2>1. g \in DOMAIN Flags(m.type) /\ g \in {"averageDelay", "errorRate"}
    BY DEF PairedRow
  <2> QED BY <2>1, Rows, <1>1 DEF Row, PairedRow, OddRow, Sound
<1>4. /\ Positively(m.type, g, c.fault) => Given(u, z) /\ Carried(u, z) = Meant(u, c.fault[g])
      /\ ~Positively(m.type, g, c.fault) /\ Given(u, z) => Carried(u, z) = 0 /\ u = "duration"
  BY <1>1, <1>3, ValueTaken DEF RowShape
<1>5. b.settings[f] = IF Given(u, z) THEN Carried(t, y) ELSE Zero(t)
  BY DEF BuiltFor, Setting, PairedRow, RowShape
<1>6. b.settings[g] = Wish(m.type, g, c.fault)
  BY <1>1, <1>3, OwnSetting DEF BuiltFor
<1>7. /\ Effective(g, Fields(m.type), c.fault) <=> Positively(m.type, g, c.fault)
      /\ Effective(f, Fields(m.type), c.fault)
           <=> Positively(m.type, f, c.fault) /\ Positively(m.type, g, c.fault)
      /\ Fallback(m.type, f) = Zero(t)
  BY <1>3 DEF Effective, Positively, OwnRow, PairedRow, Fallback
<1>8. Fallback(m.type, g) = 0 /\ t \in Simple /\ f \in DOMAIN Fields(m.type)
  BY <1>3, CompanionFields DEF OwnRow, Fallback, Zero, PairedRow, RowShape
<1>9. ~Refused(b)
  BY DEF BuiltFor
<1>10. g \in DOMAIN Fields(m.type)
  BY <1>3 DEF RowShape
<1>11. CASE f = "delayVariation"
  <2>1. g = "averageDelay" /\ t = "duration" /\ u = "duration"
    BY <1>11 DEF PairedRow
  <2>2. ~(b.settings["delayVariation"] > b.settings["averageDelay"])
    BY <1>1, <1>9 DEF Refused, HTTPProxyRefuses, GrpcProxyRefuses
  <2>3. /\ Carried(t, y) \in Int /\ Carried(u, z) \in Int
        /\ Positively(m.type, f, c.fault) => Meant(t, c.fault[f]) > 0
        /\ Positively(m.type, g, c.fault) => Meant(u, c.fault[g]) > 0
    BY <1>1, <1>8, <1>10, <2>1, Numeric
  <2>4. Zero(t) = 0 /\ (Dropped(b, f) <=> b.settings[f] < 0)
    BY <1>1, <1>11, <2>1 DEF Zero, Dropped
  <2> HIDE DEF g, t, y, z, u
  <2>5. CASE Positively(m.type, g, c.fault)
    BY <1>2, <1>4, <1>5, <1>7, <2>1, <2>3, <2>4, <2>5, WishFacts DEF t
  <2>6. CASE ~Positively(m.type, g, c.fault)
    <3>1. Wish(m.type, f, c.fault) = 0 /\ Wish(m.type, g, c.fault) = 0
      BY <1>7, <1>8, <2>4, <2>6, WishFacts
    <3> QED BY <1>2, <1>4, <1>5, <1>6, <1>11, <2>1, <2>2, <2>3, <2>4, <2>6, <3>1
  <2> QED BY <2>5, <2>6
<1>12. CASE f \in {"errorCode", "statusCode"}
  <2>1. g = "errorRate" /\ t \in {"uint", "int"} /\ u = "float" /\ (f = "errorCode" <=> t = "uint")
    BY <1>12 DEF PairedRow
  <2>2. ~Dropped(b, f)
    BY <1>1, <1>12 DEF Dropped
  <2>3. /\ Carried(t, y) \in Int /\ Carried(u, z) \in Int
        /\ Positively(m.type, g, c.fault) => Meant(u, c.fault[g]) > 0
    BY <1>1, <1>8, <1>10, <2>1, Numeric
  <2>4. Zero(t) = 0 /\ (Given(t, y) <=> y > 0) /\ Carried(t, y) = y
    BY <2>1 DEF Zero, Given, Carried
  <2>5. t = "uint" => y >= 0
    <3>1. CASE f \in DOMAIN c.fault
      BY <1>1, <1>8, <3>1, Unsigned DEF Obtainable, Passable, Taken, Value
    <3>2. CASE f \notin DOMAIN c.fault
      BY <2>4, <3>2 DEF Value
    <3> QED BY <3>1, <3>2
  <2>6. b.settings["errorRate"] > 0 => b.settings[f] # 0 /\ (t = "int" => b.settings[f] > 0)
    <3>1. CASE f = "errorCode"
      <4>1. m.type = "http"
        BY <3>1 DEF PairedRow
      <4> QED BY <1>1, <1>9, <2>1, <3>1, <4>1 DEF Refused, HTTPProxyRefuses
    <3>2. CASE f = "statusCode"
      <4>1. m.type = "grpc"
        BY <3>2 DEF PairedRow
      <4>2. ~(b.settings["errorRate"] > 0 /\ b.settings["statusCode"] <= 0)
        BY <1>1, <1>9, <4>1 DEF Refused, GrpcProxyRefuses
      <4>3. b.settings["statusCode"] \in Int
        BY <1>5, <2>3, <2>4, <3>2
      <4> QED BY <2>1, <3>2, <4>2, <4>3
    <3> QED BY <1>12, <3>1, <3>2
  <2> HIDE DEF g, t, y, z, u
  <2>7. CASE Positively(m.type, g, c.fault)
    <3>1. b.settings["errorRate"] > 0
      BY <1>6, <1>7, <2>1, <2>3, <2>7, WishFacts DEF u
    <3>2. b.settings[f] = y /\ y > 0
      BY <1>4, <1>5, <2>1, <2>3, <2>4, <2>5, <2>6, <2>7, <3>1
    <3>3. Positively(m.type, f, c.fault)
      BY <1>2, <2>1, <2>4, <3>2
    <3> QED BY <1>2, <1>7, <2>2, <2>4, <2>7, <3>2, <3>3, WishFacts DEF t
  <2>8. CASE ~Positively(m.type, g, c.fault)
    BY <1>4, <1>5, <1>7, <2>1, <2>2, <2>8, WishFacts
  <2> QED BY <2>7, <2>8
<1>13. CASE f \in {"errorBody", "statusMessage"}
  <2>1. g = "errorRate" /\ t = "string" /\ u = "float"
    BY <1>13 DEF PairedRow
  <2>2. ~Dropped(b, f)
    BY <1>1, <1>13 DEF Dropped
  <2>3. (Given(t, y) <=> y # "") /\ Zero(t) = "" /\ Carried(t, y) = y
    BY <2>1 DEF Given, Zero, Carried
  <2> HIDE DEF g, t, y, z, u
  <2> QED BY <1>2, <1>4, <1>5, <1>7, <2>1, <2>2, <2>3, WishFacts DEF t
<1> QED BY <1>11, <1>12, <1>13 DEF PairedRow

LEMMA JitterSetting ==
  ASSUME NEW m, NEW c, NEW b, Sound(m, c), BuiltFor(m, c, b), m.type = "network_shaping",
         "jitter" \in DOMAIN Flags(m.type), RowShape(m.type, "jitter"), OddRow(m.type, "jitter")
  PROVE  (IF Dropped(b, "jitter") THEN 0 ELSE b.settings["jitter"])
           = Wish(m.type, "jitter", c.fault)
<1> DEFINE y == Value(m.type, "jitter", c.fault)
           z == Value(m.type, "delay", c.fault)
           jitter == Positively(m.type, "jitter", c.fault)
           delay == Positively(m.type, "delay", c.fault)
<1>1. Obtainable(m.type, c.fault) /\ m.type = b.type
  BY DEF Sound, Obtainable, BuiltFor
<1>2. /\ Flags(m.type)["jitter"].needs = {"jitter"} /\ Flags(m.type)["jitter"].default = 0
      /\ Flags(m.type)["jitter"].field = "jitter"
      /\ Fields(m.type)["jitter"] = "duration" /\ Fields(m.type)["delay"] = "duration"
      /\ "delay" \in DOMAIN Flags(m.type)
  BY DEF OddRow, RowShape
<1>3. RowShape(m.type, "delay") /\ OwnRow(m.type, "delay")
  BY <1>2, Rows DEF Row, PairedRow, OddRow, Sound
<1>4. /\ jitter => Given("duration", y) /\ Carried("duration", y) = Meant("duration", c.fault["jitter"])
      /\ ~jitter /\ Given("duration", y) => Carried("duration", y) = 0
  BY <1>1, <1>2, ValueTaken DEF RowShape
<1>5. delay => Meant("duration", c.fault["delay"]) > 0
  BY <1>1, <1>2, <1>3, Numeric DEF RowShape
<1>6. b.settings["jitter"] = IF Given("duration", y) THEN Carried("duration", y) ELSE 0
  BY <1>2 DEF BuiltFor, Setting
<1>7. b.settings["delay"] = Wish(m.type, "delay", c.fault)
  BY <1>1, <1>2, <1>3, OwnSetting DEF BuiltFor
<1>8. Companion["jitter"] = "delay" /\ "jitter" \in DOMAIN Companion
  BY DEF Companion
<1>9. /\ Effective("delay", Fields(m.type), c.fault) <=> delay
      /\ Effective("jitter", Fields(m.type), c.fault) <=> jitter /\ delay
  BY <1>3, <1>8 DEF Effective, Positively, OwnRow
<1>10. Fallback(m.type, "jitter") = 0 /\ Fallback(m.type, "delay") = 0
  BY <1>2, CompanionFields DEF Fallback, Zero
<1>11. Dropped(b, "jitter") <=> b.settings["delay"] = 0
  BY <1>1 DEF Dropped
<1> HIDE DEF y, z, jitter, delay
<1>12. CASE delay
  BY <1>2, <1>4, <1>5, <1>6, <1>7, <1>9, <1>10, <1>11, <1>12, WishFacts
<1>13. CASE ~delay
  BY <1>7, <1>9, <1>10, <1>11, <1>13, WishFacts
<1> QED BY <1>12, <1>13

LEMMA AlwaysSetting ==
  ASSUME NEW m, NEW c, NEW b, Sound(m, c), BuiltFor(m, c, b),
         NEW f \in DOMAIN Flags(m.type), RowShape(m.type, f), OddRow(m.type, f), f # "jitter"
  PROVE  b.settings[f] = Wish(m.type, f, c.fault)
<1> DEFINE t == Fields(m.type)[f]
           y == Value(m.type, f, c.fault)
<1>1. Obtainable(m.type, c.fault) /\ m.type = b.type /\ ~Refused(b)
  BY DEF Sound, Obtainable, BuiltFor
<1>2. /\ Flags(m.type)[f].needs = {} /\ Flags(m.type)[f].field = f
      /\ t \in {"string", "int"} /\ f \in DOMAIN Fields(m.type)
      /\ f \notin DOMAIN Companion
  BY CompanionFields DEF OddRow, RowShape
<1>3. b.settings[f] = y
  BY <1>2 DEF BuiltFor, Setting, Carried
<1>4. CASE f = "load"
  <2>1. t = "int" /\ f \notin DOMAIN Documented
    BY <1>4, CompanionFields DEF OddRow
  <2>2. CASE f \in DOMAIN c.fault
    <3>1. Exported(c.fault[f]) /\ ~Refuses(t, c.fault[f]) /\ ~Panics(t, c.fault[f])
      BY <1>1, <1>2, <2>2 DEF Obtainable, Passable, Taken
    <3>2. Effective(f, Fields(m.type), c.fault)
      BY <1>2, <1>4, <2>2 DEF Effective
    <3>3. y = Converted(t, c.fault[f])
      BY <2>2 DEF Value
    <3>4. y = Meant(t, c.fault[f])
      BY <2>1, <3>1, <3>3, ValueMeant DEF Simple
    <3> QED BY <1>3, <3>2, <3>4, WishFacts
  <2>3. CASE f \notin DOMAIN c.fault
    BY <1>3, <2>1, <2>3, WishFacts DEF Value, Effective, Fallback
  <2> QED BY <2>2, <2>3
<1>5. CASE f # "load"
  <2>1. Given(t, y)
    <3>1. CASE m.type = "network_partition"
      <4>1. f = "direction" /\ t = "string"
        BY <3>1 DEF OddRow
      <4>2. y \in {"ingress", "egress", "both"}
        BY <1>1, <1>3, <3>1, <4>1 DEF Refused, PartitionRefuses
      <4> HIDE DEF y, t
      <4> QED BY <4>1, <4>2 DEF Given
    <3>2. CASE m.type # "network_partition"
      <4>1. t = "int"
        BY <1>5, <3>2 DEF OddRow
      <4>2. ~(y <= 0)
        BY <1>1, <1>3, <1>5, <3>2 DEF Refused, OddRow
      <4>3. Carried(t, y) \in Int
        BY <1>1, <1>2, <4>1, Numeric
      <4>4. Carried(t, y) = y
        BY <4>1 DEF Carried
      <4> HIDE DEF y, t
      <4> QED BY <4>1, <4>2, <4>3, <4>4 DEF Given
    <3> QED BY <3>1, <3>2
  <2>2. Positively(m.type, f, c.fault) /\ Carried(t, y) = Meant(t, c.fault[f])
    BY <1>1, <1>2, <2>1, ValueTaken DEF RowShape
  <2>3. Effective(f, Fields(m.type), c.fault)
    BY <1>2, <2>2 DEF Effective, Positively
  <2>4. Carried(t, y) = y
    BY <1>2 DEF Carried
  <2> QED BY <1>3, <2>2, <2>3, <2>4, WishFacts
<1> QED BY <1>4, <1>5

LEMMA SettingWished ==
  ASSUME NEW m, NEW c, NEW b, Sound(m, c), BuiltFor(m, c, b), NEW f \in DOMAIN Applied(b).settings
  PROVE  Applied(b).settings[f] = Wish(m.type, f, c.fault)
<1>1. /\ f \in DOMAIN Flags(m.type) /\ m.type = b.type
      /\ Applied(b).settings[f] = IF Dropped(b, f) THEN 0 ELSE b.settings[f]
  BY AppliedSetting DEF BuiltFor
<1>2. Row(m.type, f)
  BY <1>1, Rows DEF Sound
<1>3. CASE OwnRow(m.type, f)
  <2>1. b.settings[f] = Wish(m.type, f, c.fault)
    BY <1>1, <1>2, <1>3, OwnSetting DEF Row, BuiltFor, Sound, Obtainable
  <2>2. f \notin {"jitter", "delayVariation"}
    BY <1>3, CompanionFields DEF OwnRow
  <2> QED BY <1>1, <2>1, <2>2 DEF Dropped
<1>4. CASE PairedRow(m.type, f)
  BY <1>1, <1>2, <1>4, PairedSetting DEF Row
<1>5. CASE OddRow(m.type, f)
  <2>1. CASE f = "jitter"
    BY <1>1, <1>2, <1>5, <2>1, JitterSetting DEF Row, OddRow
  <2>2. CASE f # "jitter"
    <3>1. ~Dropped(b, f)
      BY <1>1, <1>5, <2>2 DEF Dropped, OddRow
    <3> QED BY <1>1, <1>2, <1>5, <2>2, <3>1, AlwaysSetting DEF Row
  <2> QED BY <2>1, <2>2
<1> QED BY <1>2, <1>3, <1>4, <1>5 DEF Row

\* The port of the proxy is the one the options ask for.
LEMMA ProxyPortAsked ==
  ASSUME NEW m, NEW c, Sound(m, c), "proxyPort" \in DOMAIN Struct(m.options, Options(c))
  PROVE  ProxyPort(Struct(m.options, Options(c))) = PortAsked(c.options)
<1> DEFINE o == Struct(m.options, Options(c))
<1>1. m.options["proxyPort"] = "uint" /\ "proxyPort" \in DOMAIN m.options
  <2>1. DOMAIN o = DOMAIN m.options
    BY DEF Struct
  <2>2. m.options # NoFields
    BY <2>1 DEF NoFields
  <2> QED BY <2>1, <2>2 DEF Sound, Plain
<1>2. Options(c) = c.options
  BY DEF Sound, Options
<1>3. o["proxyPort"] = IF "proxyPort" \in DOMAIN c.options
                       THEN Converted("uint", c.options["proxyPort"]) ELSE Zero("uint")
  BY <1>1, <1>2 DEF Struct
<1>4. Zero("uint") = 0
  BY DEF Zero
<1>5. "proxyPort" \in DOMAIN c.options =>
        Converted("uint", c.options["proxyPort"]) = Meant("uint", c.options["proxyPort"])
  <2> SUFFICES ASSUME "proxyPort" \in DOMAIN c.options
               PROVE  Converted("uint", c.options["proxyPort"]) = Meant("uint", c.options["proxyPort"])
    OBVIOUS
  <2>1. LET x == c.options["proxyPort"]
        IN  Exported(x) /\ ~Refuses("uint", x) /\ ~Panics("uint", x)
    BY <1>1, <1>2 DEF Sound, Passable, Taken
  <2> QED BY <2>1, ValueMeant DEF Simple
<1> HIDE DEF o
<1>6. ProxyPort(o) = IF o["proxyPort"] # 0 THEN o["proxyPort"] ELSE 8000
  BY DEF ProxyPort
<1> QED BY <1>3, <1>4, <1>5, <1>6 DEF o, PortAsked

LEMMA AgentAsAsked ==
  ASSUME Shape, NEW p \in Pod, Commissioned(p), agent[p] # None
  PROVE  Heeds(agent[p].command, Asked(p))
<1>1. PICK v, n : v = agent[p].vu /\ n = agent[p].call
  OBVIOUS
<1>2. Ordered(v, n, p) /\ agent[p].command = Applied(Built(v, n, p))
  BY <1>1 DEF Commissioned
<1>3. PICK m, c, b : m = MethodOfCall(v, n) /\ c = script[v].calls[n] /\ b = Built(v, n, p)
  OBVIOUS
<1>4. Sound(m, c) /\ BuiltFor(m, c, b) /\ Asked(p) = c /\ agent[p].command = Applied(b)
  BY <1>1, <1>2, <1>3, OrderSound, OrderBuilt DEF Asked
<1>5. PICK got : got = Applied(b)
  OBVIOUS
<1>6. got.type = m.type /\ got.duration = b.duration /\ got.options = b.options
  BY <1>4, <1>5, AppliedSetting DEF BuiltFor
<1>7. \A f \in DOMAIN got.settings : got.settings[f] = Expected(f, Fields(got.type), c.fault)
  BY <1>4, <1>5, <1>6, SettingWished DEF Wish
<1>8. Near(got.duration, c.duration.value)
  <2>1. PICK d \in Int : d = c.duration.value
    BY <1>4 DEF Sound
  <2>2. PICK e : e = got.duration
    OBVIOUS
  <2>3. e = Seconds(d)
    BY <1>4, <1>6, <2>1, <2>2 DEF BuiltFor
  <2>4. Near(Seconds(d), d)
    BY DEF Near, Seconds
  <2> QED BY <2>1, <2>2, <2>3, <2>4
<1>9. "proxyPort" \in DOMAIN got.options => ProxyPort(got.options) = PortAsked(c.options)
  <2>1. got.options = Struct(m.options, Options(c))
    BY <1>4, <1>6 DEF BuiltFor
  <2> QED BY <1>4, <2>1, ProxyPortAsked
<1>10. Heeds(got, c)
  BY <1>7, <1>8, <1>9 DEF Heeds
<1> QED BY <1>4, <1>5, <1>10

\* Whatever the scripts ask for: an agent applies the settings that the call
\* which started it asked for, with its duration and its proxy port
\* (api/convert.go Convert, disruptors/commads.go and the agent's flags).
THEOREM SettingsCorrect == Spec => []AsAsked
<1>1. Users /\ AllCommissioned => AsAsked
  BY AgentAsAsked DEF Users, AllCommissioned, AsAsked
<1> QED BY <1>1, UsersCorrect, CommissionedAlways, PTL

(***************************************************************************)
(* The port.                                                               *)
(***************************************************************************)
LEMMA Least == ASSUME NEW S, S \subseteq Nat, S # {} PROVE \E i \in S : \A j \in S : i <= j
<1>1. IsWellFoundedOn(OpToRel(<, Nat), Nat)
  BY NatLessThanWellFounded
<1>2. PICK i \in S : \A j \in S : ~(<<j, i>> \in OpToRel(<, Nat))
  BY <1>1, WFMin
<1>3. ASSUME NEW j \in S PROVE i <= j
  <2>1. i \in Nat /\ j \in Nat
    OBVIOUS
  <2>2. ~(<<j, i>> \in OpToRel(<, Nat))
    BY <1>2
  <2>3. ~(j < i)
    BY <2>1, <2>2 DEF OpToRel
  <2> QED BY <2>1, <2>3
<1> QED BY <1>3


LEMMA Finds ==
  ASSUME NEW port, NEW pod, pod.ports \in PodPorts, FindPort(port, pod).status = "ok"
  PROVE  \E i \in DOMAIN pod.ports :
           /\ FindPort(port, pod).port = Number(pod.ports[i].number)
           /\ IF port.isInt THEN pod.ports[i].number = port.int ELSE pod.ports[i].name = port.name
<1> DEFINE hits == {i \in DOMAIN pod.ports :
                      IF port.isInt THEN pod.ports[i].number = port.int
                                    ELSE pod.ports[i].name = port.name}
           i    == CHOOSE k \in hits : \A j \in hits : k <= j
           found == IF hits = {} THEN 0 ELSE i
<1>1. FindPort(port, pod) =
        IF found = 0 THEN NotFound ELSE Found(Number(pod.ports[found].number))
  BY DEF FindPort, FirstOf
<1>2. hits \subseteq Nat \ {0}
  BY DEF PodPorts
<1>3. hits # {}
  BY <1>1 DEF NotFound
<1>4. i \in hits
  BY <1>2, <1>3, Least
<1> HIDE DEF i
<1>5. FindPort(port, pod) = Found(Number(pod.ports[i].number))
  BY <1>1, <1>2, <1>3, <1>4
<1> QED BY <1>4, <1>5 DEF Found

LEMMA TargetFound ==
  ASSUME NEW ports \in ServicePorts, NEW port, GetTargetPort(ports, port).status = "ok"
  PROVE  \E i \in DOMAIN ports :
           /\ GetTargetPort(ports, port).port = ports[i].targetPort
           /\ IF IsNull(port) \/ IsZero(port) THEN Len(ports) = 1
              ELSE \/ ~port.isInt /\ port.name = ports[i].name
                   \/ port.isInt /\ port.int = ports[i].port
<1>1. CASE IsNull(port) \/ IsZero(port)
  <2>1. ~(Len(ports) > 1) /\ Len(ports) # 0
    BY <1>1 DEF GetTargetPort, NotFound, Panicked
  <2>2. Len(ports) = 1 /\ 1 \in DOMAIN ports
    <3>1. Len(ports) \in Nat /\ DOMAIN ports = 1 .. Len(ports)
      BY DEF ServicePorts
    <3> QED BY <2>1, <3>1
  <2>3. GetTargetPort(ports, port).port = ports[1].targetPort
    BY <1>1, <2>2 DEF GetTargetPort, Found
  <2> QED BY <1>1, <2>2, <2>3
<1>2. CASE ~(IsNull(port) \/ IsZero(port))
  <2> DEFINE hits == {i \in DOMAIN ports : \/ ~port.isInt /\ port.name = ports[i].name
                                           \/ port.isInt /\ port.int = ports[i].port}
             i    == CHOOSE k \in hits : \A j \in hits : k <= j
             found == IF hits = {} THEN 0 ELSE i
  <2>1. GetTargetPort(ports, port) =
          IF found = 0 THEN NotFound ELSE Found(ports[found].targetPort)
    BY <1>2 DEF GetTargetPort, FirstOf
  <2>2. hits \subseteq Nat \ {0}
    BY DEF ServicePorts
  <2>3. hits # {}
    BY <2>1 DEF NotFound
  <2>4. i \in hits
    BY <2>2, <2>3, Least
  <2> HIDE DEF i
  <2>5. GetTargetPort(ports, port) = Found(ports[i].targetPort)
    BY <2>1, <2>2, <2>3, <2>4
  <2> QED BY <1>2, <2>4, <2>5 DEF Found
<1> QED BY <1>1, <1>2

\* A port by its number or its name.
Matches(port, name, number) == IF port.isInt THEN port.int = number ELSE port.name = name
Shaped(port) == port = IF port.isInt THEN Number(port.int) ELSE Named(port.name)

LEMMA NumberFacts ==
  ASSUME NEW n
  PROVE  /\ Number(n).isInt /\ Number(n).int = n /\ Shaped(Number(n))
         /\ ~IsNull(Number(n)) /\ (IsZero(Number(n)) <=> n = 0)
         /\ \A name, number : Matches(Number(n), name, number) <=> n = number
<1>1. Number(n).isInt /\ Number(n).int = n
  BY DEF Number
<1>2. ~NullValue.isInt
  BY DEF NullValue, Named
<1> QED BY <1>1, <1>2 DEF Shaped, IsNull, IsZero, Matches

LEMMA NamedFacts ==
  ASSUME NEW s
  PROVE  /\ ~Named(s).isInt /\ Named(s).name = s /\ Shaped(Named(s))
         /\ (IsNull(Named(s)) <=> s = "") /\ ~IsZero(Named(s))
         /\ \A name, number : Matches(Named(s), name, number) <=> s = name
<1>1. ~Named(s).isInt /\ Named(s).name = s
  BY DEF Named
<1>2. NullValue.name = ""
  BY DEF NullValue, Named
<1>3. IsNull(Named(s)) <=> s = ""
  BY <1>1, <1>2 DEF IsNull, NullValue
<1> QED BY <1>1, <1>3 DEF Shaped, IsZero, Matches

\* What is left of the port a script gives.
LEMMA PortMeant ==
  ASSUME NEW type \in Protocol, NEW fault, Obtainable(type, fault)
  PROVE  LET port == Value(type, "port", fault)
         IN  /\ Shaped(port)
             /\ Unset(fault) => IsNull(port) \/ IsZero(port)
             /\ ~Unset(fault) => ~IsNull(port) /\ ~IsZero(port)
             /\ ~Unset(fault) => \A name, number : Matches(port, name, number) => Means(fault.port, name, number)
<1> DEFINE port == Value(type, "port", fault)
<1>1. Fields(type)["port"] = "port"
  BY DEF Protocol, Fields, HTTPFault, HTTPResetPeerFault, GrpcFault
<1>2. CASE "port" \notin DOMAIN fault
  <2>1. port = NullValue
    BY <1>1, <1>2 DEF Value, Zero
  <2>2. Unset(fault)
    BY <1>2 DEF Unset
  <2>3. Shaped(port)
    BY <2>1, NamedFacts DEF NullValue
  <2> QED BY <2>1, <2>2, <2>3 DEF IsNull
<1>3. CASE "port" \in DOMAIN fault
  <2>0. PICK x : x = fault["port"]
    OBVIOUS
  <2>1. Exported(x) /\ ~Refuses("port", x) /\ port = Converted("port", x)
    BY <1>1, <1>3, <2>0 DEF Obtainable, Passable, Taken, Value
  <2>2. x.kind \in {"text", "time", "int"}
    BY <2>1 DEF Refuses, Accepted, Panics
  <2>3. Unset(fault) <=> \/ x.kind = "int" /\ x.value = 0
                         \/ x.kind = "text" /\ (x.value = "" \/ IsZero(FromString(x.value)))
    BY <1>3, <2>0 DEF Unset
  <2> HIDE DEF port
  <2>4. CASE x.kind = "int"
    <3>1. port = Number(x.value)
      BY <2>1, <2>4 DEF Converted
    <3>2. /\ Shaped(port) /\ ~IsNull(port)
          /\ IsZero(port) <=> x.value = 0
          /\ \A name, number : Matches(port, name, number) => x.value = number
      BY <3>1, NumberFacts
    <3> QED BY <2>0, <2>3, <2>4, <3>2 DEF Means, port
  <2>5. CASE x.kind = "time"
    <3>1. port = Named("time")
      BY <2>1, <2>5 DEF Converted
    <3>2. /\ Shaped(port) /\ ~IsNull(port) /\ ~IsZero(port)
          /\ \A name, number : Matches(port, name, number) => name = "time"
      <4>1. PICK s : s = "time"
        OBVIOUS
      <4>2. port = Named(s) /\ s # ""
        BY <3>1, <4>1
      <4>3. /\ Shaped(port) /\ ~IsNull(port) /\ ~IsZero(port)
            /\ \A name, number : Matches(port, name, number) => s = name
        BY <4>2, NamedFacts
      <4> QED BY <4>1, <4>3
    <3> QED BY <2>0, <2>3, <2>5, <3>2 DEF Means, port
  <2>6. CASE x.kind = "text"
    <3>1. port = FromString(x.value)
      BY <2>1, <2>6 DEF Converted
    <3>0. Unset(fault) <=> x.value = "" \/ IsZero(port)
      BY <2>3, <2>6, <3>1
    <3>2. CASE x.value \in DOMAIN Numerals
      <4>1. x.value # ""
        BY <3>2, NumeralsAssumption
      <4>2. PICK n : FromString(x.value) = Number(n)
        BY <3>2 DEF FromString
      <4>3. /\ Shaped(port) /\ ~IsNull(port)
            /\ \A name, number : Matches(port, name, number) => FromString(x.value) = Number(number)
        BY <3>1, <4>2, NumberFacts
      <4> QED BY <2>0, <2>6, <3>0, <4>1, <4>3 DEF Means, port
    <3>3. CASE x.value \notin DOMAIN Numerals
      <4>1. port = Named(x.value)
        BY <3>1, <3>3 DEF FromString
      <4>2. /\ Shaped(port) /\ ~IsZero(port)
            /\ IsNull(port) <=> x.value = ""
            /\ \A name, number : Matches(port, name, number) => x.value = name
        BY <4>1, NamedFacts
      <4> QED BY <2>0, <2>6, <3>0, <4>2 DEF Means, port
    <3> QED BY <3>2, <3>3
  <2> QED BY <2>2, <2>4, <2>5, <2>6
<1> QED BY <1>2, <1>3

\* The port of the fault a controller is started with, and the target of the
\* command that is built from it.
LEMMA OrderPort ==
  ASSUME Shape, NEW v, NEW n, NEW p, Ordered(v, n, p), MethodOfCall(v, n).type \in Protocol
  PROVE  LET type == MethodOfCall(v, n).type
             given == Value(type, "port", script[v].calls[n].fault)
             port == Directs(v, n).request.fault.port
             b == Built(v, n, p)
         IN  /\ script[v].kind = "pod" =>
                  port = IF type # "grpc" /\ (IsNull(given) \/ IsZero(given))
                         THEN DefaultTargetPort ELSE given
             /\ script[v].kind = "service" /\ type # "grpc" =>
                  /\ GetTargetPort(world.ports, given).status = "ok"
                  /\ port = GetTargetPort(world.ports, given).port
             /\ FindPort(port, world.pods[p]).status = "ok"
             /\ b.target = IF type = "grpc" THEN port ELSE FindPort(port, world.pods[p]).port
             /\ b.target.isInt /\ ~(b.target.int <= 0)
             /\ Applied(b).target = b.target /\ Applied(b).type = type
<1>1. PICK m, c, b : m = MethodOfCall(v, n) /\ c = script[v].calls[n] /\ b = Built(v, n, p)
  OBVIOUS
<1>2. PICK r : r = Request(m, c)
  OBVIOUS
<1>3. PICK kind : kind = script[v].kind
  OBVIOUS
<1>4. PICK d : d = Directs(v, n)
  OBVIOUS
<1>5. PICK given : given = Value(m.type, "port", c.fault)
  OBVIOUS
<1>6. Sound(m, c) /\ BuiltFor(m, c, b) /\ m.type \in Protocol
  BY <1>1, OrderSound, OrderBuilt
<1>7. r.type = m.type /\ r.fault = Struct(Fields(m.type), c.fault) /\ "fault" \in DOMAIN r
  BY <1>2, <1>6 DEF Request, Sound, Plain
<1>8. "port" \in DOMAIN Fields(m.type)
  BY <1>6 DEF Protocol, Fields, HTTPFault, HTTPResetPeerFault, GrpcFault
<1>9. r.fault.port = given /\ "port" \in DOMAIN r.fault
  BY <1>5, <1>7, <1>8 DEF Struct, Value
<1>10. d.status = "ok" /\ d = Prepared(kind, r, world.ports)
  BY <1>1, <1>2, <1>3, <1>4 DEF Directs, Ordered
<1>11. PICK x : x = IF kind = "service" THEN ServicePort(r, world.ports) ELSE PodPort(r)
  OBVIOUS
<1>12. /\ d.status = x.status
       /\ d.request = [r EXCEPT !.fault.port = x.port]
  BY <1>6, <1>7, <1>10, <1>11 DEF Prepared
<1>13. d.request.fault.port = x.port /\ d.request.type = m.type
  BY <1>7, <1>9, <1>12
<1>14. kind = "pod" =>
         x.port = IF m.type # "grpc" /\ (IsNull(given) \/ IsZero(given))
                  THEN DefaultTargetPort ELSE given
  BY <1>7, <1>9, <1>11 DEF PodPort, Found
<1>15. kind = "service" /\ m.type # "grpc" =>
         /\ GetTargetPort(world.ports, given).status = "ok"
         /\ x.port = GetTargetPort(world.ports, given).port
  BY <1>7, <1>9, <1>10, <1>11, <1>12 DEF ServicePort
<1>16. PICK found : found = FindPort(x.port, world.pods[p])
  OBVIOUS
<1>17. b = Commands(d.request, world.pods[p])
  BY <1>1, <1>4 DEF Built
<1>18. found.status # "error" /\ b.target = IF m.type = "grpc" THEN x.port ELSE found.port
  BY <1>6, <1>13, <1>16, <1>17 DEF Commands, BuiltFor
<1>19. found.status = "ok"
  <2>1. found.status \in {"ok", "error"}
    BY <1>16 DEF FindPort, Found, NotFound
  <2> QED BY <1>18, <2>1
<1>20. b.target.isInt /\ ~(b.target.int <= 0)
  <2>1. ~ProxyCommandRefuses(b)
    BY <1>6 DEF BuiltFor, Refused, Protocol
  <2> QED BY <2>1 DEF ProxyCommandRefuses
<1>21. Applied(b).target = b.target /\ Applied(b).type = m.type
  BY <1>6 DEF Applied, BuiltFor
<1> QED BY <1>1, <1>3, <1>4, <1>5, <1>13, <1>14, <1>15, <1>16, <1>18, <1>19, <1>20, <1>21

LEMMA AgentPointed ==
  ASSUME Shape, NEW p \in Pod, Commissioned(p), Proxied(p)
  PROVE  \E i \in DOMAIN world.pods[p].ports :
           LET q == world.pods[p].ports[i]
           IN  /\ agent[p].command.target = Number(q.number)
               /\ Meets(Asked(p).fault, script[agent[p].vu].kind, q)
<1>1. PICK v, n : v = agent[p].vu /\ n = agent[p].call
  OBVIOUS
<1>2. Ordered(v, n, p) /\ agent[p].command = Applied(Built(v, n, p))
  BY <1>1 DEF Commissioned, Proxied
<1>3. PICK type, fault, kind : /\ type = MethodOfCall(v, n).type
                               /\ fault = script[v].calls[n].fault /\ kind = script[v].kind
  OBVIOUS
<1>4. /\ Obtainable(type, fault) /\ kind \in {"pod", "service"} /\ Asked(p).fault = fault
      /\ Applied(Built(v, n, p)).type = type
  BY <1>1, <1>2, <1>3, OrderSound, OrderBuilt, AppliedSetting
     DEF Sound, Obtainable, Ordered, Asked, BuiltFor
<1>5. type \in Protocol /\ (kind = "service" => type # "grpc")
  BY <1>1, <1>2, <1>3, <1>4 DEF Proxied
<1>6. PICK given : given = Value(type, "port", fault)
  OBVIOUS
<1>7. PICK port : port = Directs(v, n).request.fault.port
  OBVIOUS
<1>8. PICK to : to = Built(v, n, p).target
  OBVIOUS
<1>9. /\ kind = "pod" => port = IF type # "grpc" /\ (IsNull(given) \/ IsZero(given))
                                THEN DefaultTargetPort ELSE given
      /\ kind = "service" => /\ GetTargetPort(world.ports, given).status = "ok"
                             /\ port = GetTargetPort(world.ports, given).port
      /\ FindPort(port, world.pods[p]).status = "ok"
      /\ to = IF type = "grpc" THEN port ELSE FindPort(port, world.pods[p]).port
      /\ to.isInt /\ ~(to.int <= 0)
      /\ agent[p].command.target = to
  BY <1>2, <1>3, <1>5, <1>6, <1>7, <1>8, OrderPort
<1>10. /\ Shaped(given)
       /\ Unset(fault) <=> IsNull(given) \/ IsZero(given)
       /\ ~Unset(fault) =>
            \A name, number : Matches(given, name, number) => Means(fault.port, name, number)
  BY <1>4, <1>5, <1>6, PortMeant
<1>11. PICK i \in DOMAIN world.pods[p].ports :
         /\ FindPort(port, world.pods[p]).port = Number(world.pods[p].ports[i].number)
         /\ IF port.isInt THEN world.pods[p].ports[i].number = port.int
            ELSE world.pods[p].ports[i].name = port.name
  BY <1>9, CaseFacts, Finds
<1>12. PICK q : q = world.pods[p].ports[i]
  OBVIOUS
<1>13. /\ FindPort(port, world.pods[p]).port = Number(q.number)
       /\ Matches(port, q.name, q.number)
  BY <1>11, <1>12 DEF Matches
<1>14. CASE kind = "pod"
  <2>1. CASE Unset(fault)
    <3>1. type # "grpc"
      <4>1. type = "grpc" => to = given
        BY <1>9, <1>14
      <4>2. IsNull(given) => ~given.isInt
        BY NamedFacts DEF IsNull, NullValue
      <4>3. IsZero(given) => given.int <= 0
        BY DEF IsZero
      <4> QED BY <1>9, <1>10, <2>1, <4>1, <4>2, <4>3
    <3>2. port = Number(80)
      BY <1>9, <1>10, <1>14, <2>1, <3>1 DEF DefaultTargetPort
    <3>3. q.number = 80
      BY <1>13, <3>2, NumberFacts
    <3>4. to = Number(q.number)
      BY <1>9, <1>13, <3>1
    <3>5. Meets(fault, kind, q)
      BY <1>14, <2>1, <3>3 DEF Meets
    <3> QED BY <1>1, <1>3, <1>4, <1>9, <1>12, <3>4, <3>5
  <2>2. CASE ~Unset(fault)
    <3>1. port = given
      BY <1>9, <1>10, <1>14, <2>2
    <3>2. to = Number(q.number)
      BY <1>9, <1>10, <1>13, <3>1 DEF Matches, Shaped
    <3>3. Means(fault.port, q.name, q.number)
      BY <1>10, <1>13, <2>2, <3>1
    <3>4. Meets(fault, kind, q)
      BY <1>14, <2>2, <3>3 DEF Meets
    <3> QED BY <1>1, <1>3, <1>4, <1>9, <1>12, <3>2, <3>4
  <2> QED BY <2>1, <2>2
<1>15. CASE kind = "service"
  <2>1. world.ports \in ServicePorts
    BY CaseFacts
  <2>2. PICK j \in DOMAIN world.ports :
          /\ GetTargetPort(world.ports, given).port = world.ports[j].targetPort
          /\ IF IsNull(given) \/ IsZero(given) THEN Len(world.ports) = 1
             ELSE \/ ~given.isInt /\ given.name = world.ports[j].name
                  \/ given.isInt /\ given.int = world.ports[j].port
    BY <1>9, <1>15, <2>1, TargetFound
  <2>3. PICK s : s = world.ports[j]
    OBVIOUS
  <2>4. s.targetPort \in IntOrString
    <3>1. PICK R : R = [name : STRING, port : Int, targetPort : IntOrString]
      OBVIOUS
    <3>2. world.ports \in Seq(R) /\ j \in 1 .. Len(world.ports)
      BY <2>1, <2>2, <3>1 DEF ServicePorts
    <3>3. s \in R
      BY <2>3, <3>2, ElementOfSeq
    <3> QED BY <3>1, <3>3
  <2>5. port = s.targetPort /\ Shaped(port)
    BY <1>9, <1>15, <2>2, <2>3, <2>4 DEF IntOrString, Shaped
  <2>6. s.targetPort \in {Number(q.number), Named(q.name)}
    BY <1>13, <2>5 DEF Matches, Shaped
  <2>7. IF Unset(fault) THEN Len(world.ports) = 1 ELSE Means(fault.port, s.name, s.port)
    <3>1. CASE Unset(fault)
      BY <1>10, <2>2, <3>1
    <3>2. CASE ~Unset(fault)
      <4>1. Matches(given, s.name, s.port)
        BY <1>10, <2>2, <2>3, <3>2 DEF Matches
      <4> QED BY <1>10, <3>2, <4>1
    <3> QED BY <3>1, <3>2
  <2>8. Meets(fault, kind, q)
    BY <1>15, <2>3, <2>6, <2>7 DEF Meets
  <2>9. to = Number(q.number)
    BY <1>5, <1>9, <1>13, <1>15
  <2> QED BY <1>1, <1>3, <1>4, <1>9, <1>12, <2>8, <2>9
<1> QED BY <1>4, <1>14, <1>15

\* Whatever ports a script, a service and a pod give: the proxy is in front of
\* the one the script meant (utils.GetTargetPort, utils.FindPort, service.go
\* InjectHTTPFaults, InjectHTTPResetPeerFaults and the pod disruptor's methods).
THEOREM PortCorrect == Spec => []RightPort
<1>1. Users /\ AllCommissioned => RightPort
  BY AgentPointed DEF Users, AllCommissioned, RightPort
<1> QED BY <1>1, UsersCorrect, CommissionedAlways, PTL
=============================================================================
