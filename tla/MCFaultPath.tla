---------------------------- MODULE MCFaultPath ----------------------------
(* Scripts for FaultPath.  Most have one VU make one call, and vary one      *)
(* field, argument, port or constructor at a time; the last ones have two    *)
(* VUs, two pods or two calls.                                               *)
EXTENDS FaultPath, TLC

CONSTANTS v1, v2, vs, p1, p2

AnyPod   == [labels  |-> {"app"}, hostNetwork |-> FALSE, ip |-> "10.0.0.1",
             ports   |-> <<[name |-> "web", number |-> 80], [name |-> "http", number |-> 8080]>>]
OtherPod == [AnyPod EXCEPT !.labels = {"db"}]
ToHttp   == [name |-> "web", port |-> 80, targetPort |-> Named("http")]
ToNumber == [name |-> "admin", port |-> 8080, targetPort |-> Number(80)]
World    == [pods |-> (p1 :> AnyPod @@ p2 :> OtherPod), ports |-> <<ToHttp>>, selector |-> {"app"}]
TwoPods  == [World EXCEPT !.pods = (p1 :> AnyPod @@ p2 :> AnyPod)]
OnePod(pod) == [World EXCEPT !.pods = (p1 :> pod @@ p2 :> OtherPod)]
Serving(ports) == [World EXCEPT !.ports = ports]

\* An object that cannot be constructed: a VU that does nothing.
Idle == [kind |-> "pod", arg |-> Arg, calls |-> <<>>]
PodArg     == [Arg EXCEPT !.namespace = "ns", !.labels = {"app"}, !.exclude = {"db"}]
ServiceArg == [Arg EXCEPT !.namespace = "ns", !.name = "svc"]
Script(kind, arg, calls) == [kind |-> kind, arg |-> arg, calls |-> calls]
Alone(w, s)   == [world |-> w, script |-> (v1 :> s @@ v2 :> Idle @@ vs :> Idle)]
Both(w, s, t) == [world |-> w, script |-> (v1 :> s @@ v2 :> t @@ vs :> Idle)]
AtSetup(s)        == [world |-> World, script |-> (v1 :> Idle @@ v2 :> Idle @@ vs :> s)]

HalfMinute == Time(30 * Second)
For(method, fault) == Call(method, fault, HalfMinute)
With(c, options) == [c EXCEPT !.args = 3, !.options = options]
Each(method, faults) == [i \in DOMAIN faults |-> For(method, faults[i])]

Rate    == [errorRate |-> Fraction(10)]
Delay   == [averageDelay |-> Time(100000)]
Headers == Map("Server" :> "proxy")
HTTPFaults ==
  << NoFields, Delay, Rate,
     [port |-> Whole(0)], [port |-> Whole(80)], [port |-> Whole(8080)], [port |-> Whole(81)],
     [port |-> Text("http")], [port |-> Text("80")], [port |-> Text("0")], [port |-> Text("ftp")], [port |-> Text("")],
     [port |-> Fraction(50)], [averageDelay |-> Time(1500700)], [averageDelay |-> Time(500)],
     [averageDelay |-> Time(500), delayVariation |-> Time(10000)],
     [averageDelay |-> Whole(100)], [averageDelay |-> Text("soon")], [averageDelay |-> Null],
     [averageDelay |-> Time(-100000)], [delayVariation |-> Time(10000)],
     Delay @@ [delayVariation |-> Time(10000)], Delay @@ [delayVariation |-> Time(200000)],
     Rate @@ [errorCode |-> Whole(500), errorBody |-> Text("down")],
     Rate @@ [errorCode |-> Fraction(50050)], [errorCode |-> Whole(500)],
     [errorRate |-> Whole(1), errorCode |-> Whole(500)],
     [errorRate |-> Fraction(150), errorCode |-> Whole(500)],
     [exclude |-> Text("/health")], [exclude |-> Whole(65)], [modifyResponseBody |-> Text("body")],
     [modifyResponseHeaders |-> Headers], [latency |-> Whole(1)],
     Delay @@ [delayVariation |-> Time(-10000)], [port |-> Time(10 * Second)],
     Rate @@ [errorCode |-> Whole(500), errorBody |-> Time(Second)],
     [latency |-> Whole(1), errorBody |-> Null] >>
ResetPeerFaults ==
  << NoFields, [port |-> Text("http")], [resetTimeout |-> Time(2000000)],
     [toxicity |-> Fraction(50)], [toxicity |-> Whole(0)], [toxicity |-> Fraction(150)] >>
GrpcFaults ==
  << NoFields, [port |-> Whole(8080)], [port |-> Text("http")],
     [port |-> Whole(80), averageDelay |-> Time(100000), delayVariation |-> Time(1000)],
     [port |-> Whole(80), errorRate |-> Fraction(10), statusCode |-> Whole(14),
      statusMessage |-> Text("no")],
     [port |-> Whole(80), errorRate |-> Fraction(10)], [port |-> Whole(80), exclude |-> Text("S")] >>
NetworkFaults ==
  << NoFields, [port |-> Whole(80)], [port |-> Whole(80), protocol |-> Text("tcp")],
     [protocol |-> Text("icmp")], [protocol |-> Whole(6)] >>
ShapingFaults ==
  << NoFields, [delay |-> Time(50000)], [delay |-> Time(50000), jitter |-> Time(10000)],
     [jitter |-> Time(10000), loss |-> Fraction(10)],
     [jitter |-> Time(10000), delay |-> Time(500), loss |-> Fraction(10)], [corrupt |-> Fraction(1)],
     [duplicate |-> Fraction(2), interface |-> Text("eth1")], [rate |-> Text("1mbit")],
     [loss |-> Fraction(150)], [loss |-> Fraction(-10)] >>
Hosts == List(<<"10.0.0.9">>)
PartitionFaults ==
  << NoFields, [hosts |-> Hosts], [hosts |-> Hosts, direction |-> Text("ingress")],
     [hosts |-> Hosts, direction |-> Text("up")], [hosts |-> List(<<>>), direction |-> Text("both")] >>
DNSFaults ==
  << NoFields, Rate, [spoof |-> Map("a.svc" :> "10.0.0.9")], [upstreamDNS |-> Text("10.0.0.10:53")],
     [errorRate |-> Fraction(150)] >>
CPUFaults    == << NoFields, [load |-> Whole(50)], [load |-> Whole(50), cPUs |-> Whole(2)],
                   [load |-> Whole(50), cpus |-> Whole(2)], [load |-> Whole(-5), cPUs |-> Whole(1)] >>
MemoryFaults == << NoFields, [bytes |-> Whole(1000)], [bytes |-> Fraction(1050)] >>
CrashFaults  == << NoFields, [container |-> Text("main")] >>
DiskFaults   == << NoFields, [bytes |-> Whole(1000)], [bytes |-> Whole(-1)],
                   [bytes |-> Whole(1000), path |-> Text("/data"), blockSize |-> Whole(10)] >>
IOFaults     == << NoFields, [path |-> Text("/data"), workers |-> Whole(2)],
                   [bytesPerWorker |-> Whole(10), workers |-> Whole(-1)], [workers |-> Fraction(50)] >>

PodCalls ==
  Each("injectHTTPFaults", HTTPFaults) \o Each("injectHTTPResetPeerFaults", ResetPeerFaults)
    \o Each("injectGrpcFaults", GrpcFaults) \o Each("injectNetworkFaults", NetworkFaults)
    \o Each("injectNetworkShapingFaults", ShapingFaults)
    \o Each("injectNetworkPartition", PartitionFaults) \o Each("injectDNSFaults", DNSFaults)
    \o Each("injectCPUStress", CPUFaults) \o Each("injectMemoryStress", MemoryFaults)
    \o Each("injectCrashLoopFault", CrashFaults) \o Each("injectDiskFill", DiskFaults)
    \o Each("injectIOStress", IOFaults)
    \o << Call("injectHTTPFaults", NoFields, Whole(30)), Call("injectHTTPFaults", NoFields, Null),
          Call("injectHTTPFaults", NoFields, Time(504000)),
          Call("injectHTTPFaults", NoFields, Time(1996000)),
          [For("injectHTTPFaults", NoFields) EXCEPT !.args = 1],
          [For("terminatePods", [count |-> Text("10%")]) EXCEPT !.args = 1],
          [For("terminatePods", NoFields) EXCEPT !.args = 0],
          With(For("injectHTTPFaults", NoFields), [proxyPort |-> Whole(9000)]),
          With(For("injectHTTPFaults", NoFields), [proxyPort |-> Whole(80)]),
          With(For("injectHTTPFaults", NoFields), [proxyPort |-> Fraction(900000)]),
          With(For("injectHTTPFaults", NoFields),
               [proxyPort |-> Whole(80), nonTransparent |-> Bool(TRUE)]),
          With(For("injectHTTPResetPeerFaults", NoFields), [proxyPort |-> Whole(9000)]),
          With(For("injectGrpcFaults", [port |-> Whole(80)]), [nonTransparent |-> Bool(TRUE)]) >>

ServiceCalls ==
  Each("injectHTTPFaults", << NoFields, [port |-> Whole(80)], [port |-> Text("web")], [port |-> Text("0")],
                              [port |-> Whole(8080)], [port |-> Text("admin")] >>)
    \o Each("injectHTTPResetPeerFaults", << NoFields, [port |-> Whole(80)] >>)
    \o Each("injectGrpcFaults", << [port |-> Whole(80)], [port |-> Whole(8080)] >>)
    \o << [For("terminatePods", [count |-> Whole(1)]) EXCEPT !.args = 1] >>

\* One constructor and one method of each of the other objects, and
\* arguments their constructors refuse.
Named1 == [Arg EXCEPT !.name = "a"]
Others ==
  << <<"workload", [Named1 EXCEPT !.kind = "Deployment"], "scaleReplicas">>,
     <<"workload", [Named1 EXCEPT !.kind = "Deployment", !.labels = {"app"}], "scaleReplicas">>,
     <<"node", Named1, "taintNode">>, <<"node", Named1, "injectKubeletServiceKill">>,
     <<"node", [Named1 EXCEPT !.zone = "z"], "drain">>,
     <<"webhook", [Named1 EXCEPT !.kind = "Mutating"], "injectWebhookConfigFault">>,
     <<"webhook", [Named1 EXCEPT !.kind = "Other"], "injectWebhookConfigFault">>,
     <<"nodepool", Arg, "injectFillerWorkload">>,
     <<"virtualservice", Named1, "injectMisroute">>,
     <<"destinationrule", Named1, "injectTLSFault">>,
     <<"peerauthentication", Named1, "injectMTLSFault">>,
     <<"authorizationpolicy", Named1, "injectDenyFault">>, <<"authorizationpolicy", Arg, "injectDenyFault">> >>

One(w, kind, arg, c) == Alone(w, Script(kind, arg, <<c>>))
Http  == For("injectHTTPFaults", NoFields)
Reset == For("injectHTTPResetPeerFaults", NoFields)
Bad   == For("injectHTTPFaults", Rate)
PodScript(calls) == Script("pod", PodArg, calls)

Scripts ==
  [i \in DOMAIN PodCalls |-> One(World, "pod", PodArg, PodCalls[i])]
    \o [i \in DOMAIN ServiceCalls |-> One(World, "service", ServiceArg, ServiceCalls[i])]
    \o [i \in DOMAIN ServiceCalls |->
          One(Serving(<<ToHttp, ToNumber>>), "service", ServiceArg, ServiceCalls[i])]
    \o << One(Serving(<<>>), "service", ServiceArg, Http) >>
    \o [i \in DOMAIN Others |-> One(World, Others[i][1], Others[i][2], For(Others[i][3], NoFields))]
    \o << One(World, "workload", [Named1 EXCEPT !.kind = "StatefulSet"],
              Call("scaleReplicas", [replicas |-> Whole(0), delta |-> Fraction(150)], Null)),
          One(World, "workload", [Named1 EXCEPT !.kind = "StatefulSet"],
              Call("scaleReplicas", [replicas |-> Whole(0)], Null)),
          One(OnePod([AnyPod EXCEPT !.hostNetwork = TRUE]), "pod", PodArg, Http),
          One(OnePod([AnyPod EXCEPT !.hostNetwork = TRUE]), "pod", PodArg, Reset),
          One(OnePod([AnyPod EXCEPT !.ip = ""]), "pod", PodArg, Reset),
          One(OnePod([AnyPod EXCEPT !.ports = <<>>]), "pod", PodArg, Http),
          One(OnePod(OtherPod), "pod", PodArg, Http),
          AtSetup(PodScript(<<Http, Bad>>)),
          Alone(TwoPods, PodScript(<<Http, Http>>)),
          Both(World, PodScript(<<Http>>), PodScript(<<Bad>>)),
          Both(World, PodScript(<<Http>>), PodScript(<<Reset>>)),
          Both(World, PodScript(<<Http>>), PodScript(<<[Http EXCEPT !.method = "cleanup"]>>)) >>

Ports == "0" :> 0 @@ "80" :> 80 @@ "8080" :> 8080
VirtualUsers == {v1, v2, vs}
SetupUsers == {vs}
Pods == {p1, p2}
=============================================================================
