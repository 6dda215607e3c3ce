--------------------------- MODULE FaultCommand ---------------------------
(***************************************************************************)
(* The way of a fault from the disruptor to the agent in one pod: the port *)
(* found through the service and the pod (utils/kubernetes.go), the        *)
(* command line built for the pod (disruptors/commads.go), and what the    *)
(* agent's flags, defaults and constructors make of it.                    *)
(*                                                                         *)
(* A configuration is keyed by the names of the fault's fields: writing a  *)
(* flag and parsing it again is modelled by what survives of the value.    *)
(***************************************************************************)
EXTENDS FaultRequest

DefaultTargetPort == Number(80)

\* Mutant: the delays in whole seconds.
MillisWhole(us) == (us \div 1000000) * 1000000

\* What is left of a duration after DurationMillSeconds and DurationSeconds:
\* whole milliseconds, and seconds with two decimals.
Millis(us) == IF us >= 0 THEN (us \div 1000) * 1000 ELSE -(((-us) \div 1000) * 1000)
Seconds(us) == ((us + 5000) \div 10000) * 10000

\* The result of a lookup: a port, an error, or the panic of an index out of
\* range.
Found(p)  == [status |-> "ok", port |-> p]
NotFound  == [status |-> "error", port |-> NullValue]
Panicked  == [status |-> "panic", port |-> NullValue]

FirstOf(s, Test(_)) ==
  LET hits == {i \in DOMAIN s : Test(s[i])}
  IN  IF hits = {} THEN 0 ELSE CHOOSE i \in hits : \A j \in hits : i <= j

\* A service is the sequence of its ports.
GetTargetPort(service, port) ==
  IF IsNull(port) \/ IsZero(port)
  THEN IF Len(service) > 1 THEN NotFound
       ELSE IF Len(service) = 0 THEN Panicked ELSE Found(service[1].targetPort)
  ELSE LET i == FirstOf(service, LAMBDA p : \/ ~port.isInt /\ port.name = p.name
                                            \/ port.isInt /\ port.int = p.port)
       IN  IF i = 0 THEN NotFound ELSE Found(service[i].targetPort)

\* The first port of the pod with this name or number.  A port that is not
\* given matches the first one without a name.
FindPort(port, pod) ==
  LET i == FirstOf(pod.ports, LAMBDA p : IF port.isInt THEN p.number = port.int
                                                       ELSE p.name = port.name)
  IN  IF i = 0 THEN NotFound ELSE Found(Number(pod.ports[i].number))

HasHostNetwork(pod) == pod.hostNetwork
PodIP(pod) == pod.ip

(***************************************************************************)
(* The disruptors.  Both replace the port of the fault before they build   *)
(* the command, the pod disruptor by the default port, the service         *)
(* disruptor by the target port; for gRPC the first does not and the       *)
(* second looks the port up and passes the fault on as it was.             *)
(***************************************************************************)
PodPort(request) ==
  LET port == request.fault.port
  IN  Found(IF request.type # "grpc" /\ (IsNull(port) \/ IsZero(port))
            THEN DefaultTargetPort ELSE port)

\* Mutant: the HTTP fault too is passed on without the port it was mapped to.
ServicePortDropped(request, service) ==
  LET found == GetTargetPort(service, request.fault.port)
  IN  IF found.status = "ok" THEN Found(request.fault.port) ELSE found

ServicePort(request, service) ==
  LET found == GetTargetPort(service, request.fault.port)
  IN  IF found.status = "ok" /\ request.type = "grpc" THEN Found(request.fault.port) ELSE found

Protocol == {"http", "http_reset_peer", "grpc"}

Commanded == Protocol \cup {"dns", "network_shaping", "network_partition", "cpu_stress",
                            "memory_stress", "disk_fill", "io_stress", "network"}

\* The request a pod controller is started with.
Prepared(kind, request, service) ==
  IF request.type \notin Protocol THEN [status |-> "ok", request |-> request]
  ELSE LET found == IF kind = "service" THEN ServicePort(request, service) ELSE PodPort(request)
       IN  [status  |-> found.status,
            request |-> [request EXCEPT !.fault.port = found.port]]

(***************************************************************************)
(* The command lines.  A row says from which field of the fault a flag is  *)
(* filled, the fields that must be given for it to be passed, and what the *)
(* agent uses otherwise.  Given is the builders' test of a field:          *)
(* > 0 for numbers, not empty for the rest.                                *)
(***************************************************************************)
From(field, needs, default) == [field |-> field, needs |-> needs, default |-> default]
Own(field, default) == From(field, {field}, default)
Always(field) == From(field, {}, 0)

HTTPFlags ==
  [averageDelay          |-> Own("averageDelay", 0),
   delayVariation        |-> From("delayVariation", {"averageDelay"}, 0),
   errorRate             |-> Own("errorRate", 0),
   errorCode             |-> From("errorCode", {"errorRate"}, 0),
   errorBody             |-> From("errorBody", {"errorRate"}, ""),
   exclude               |-> Own("exclude", ""),
   modifyResponseBody    |-> Own("modifyResponseBody", ""),
   modifyResponseHeaders |-> Own("modifyResponseHeaders", <<>>)]

GrpcFlags ==
  [averageDelay   |-> Own("averageDelay", 0),
   delayVariation |-> From("delayVariation", {"averageDelay"}, 0),
   errorRate      |-> Own("errorRate", 0),
   statusCode     |-> From("statusCode", {"errorRate"}, 0),
   statusMessage  |-> From("statusMessage", {"errorRate"}, ""),
   exclude        |-> Own("exclude", "")]

HTTPResetPeerFlags ==
  [resetTimeout |-> Own("resetTimeout", 0), toxicity |-> Own("toxicity", 100)]

NetworkFlags == [port |-> Own("port", 0), protocol |-> Own("protocol", "")]

DNSFlags ==
  [errorRate   |-> Own("errorRate", 0),
   upstreamDNS |-> Own("upstreamDNS", "8.8.8.8:53"),
   spoof       |-> Own("spoof", <<>>)]

NetworkShapingFlags ==
  [interface |-> Own("interface", "eth0"),
   delay     |-> Own("delay", 0),
   jitter    |-> Own("jitter", 0),
   loss      |-> Own("loss", 0),
   corrupt   |-> Own("corrupt", 0),
   duplicate |-> Own("duplicate", 0),
   rate      |-> Own("rate", "")]

NetworkPartitionFlags ==
  [direction |-> From("direction", {}, "both"), hosts |-> Own("hosts", <<>>)]

CPUStressFlags    == [load |-> Always("load"), cPUs |-> Always("cPUs")]
MemoryStressFlags == [bytes |-> Always("bytes")]

\* The agent's own block size and size per worker stand for their constants.
DefaultBlockSize == 262144
DefaultWorkerBytes == 1048576
DiskFillFlags ==
  [bytes |-> Always("bytes"), path |-> Own("path", "/tmp"),
   blockSize |-> Own("blockSize", DefaultBlockSize)]
IOStressFlags ==
  [path |-> Own("path", "/tmp"), workers |-> Own("workers", 4),
   bytesPerWorker |-> Own("bytesPerWorker", DefaultWorkerBytes)]

Flags(type) ==
  CASE type = "http"              -> HTTPFlags
    [] type = "http_reset_peer"   -> HTTPResetPeerFlags
    [] type = "grpc"              -> GrpcFlags
    [] type = "dns"               -> DNSFlags
    [] type = "network_shaping"   -> NetworkShapingFlags
    [] type = "network_partition" -> NetworkPartitionFlags
    [] type = "cpu_stress"        -> CPUStressFlags
    [] type = "memory_stress"     -> MemoryStressFlags
    [] type = "disk_fill"         -> DiskFillFlags
    [] type = "io_stress"         -> IOStressFlags
    [] type = "network"           -> NetworkFlags

Fields(type) ==
  CASE type = "http"              -> HTTPFault
    [] type = "http_reset_peer"   -> HTTPResetPeerFault
    [] type = "grpc"              -> GrpcFault
    [] type = "dns"               -> DNSFault
    [] type = "network_shaping"   -> NetworkShapingFault
    [] type = "network_partition" -> NetworkPartitionFault
    [] type = "cpu_stress"        -> CPUStressFault
    [] type = "memory_stress"     -> MemoryStressFault
    [] type = "disk_fill"         -> DiskFillFault
    [] type = "io_stress"         -> IOStressFault
    [] type = "network"           -> NetworkFault

Carried(type, x) == IF type = "duration" THEN Millis(x) ELSE x
Given(type, x) ==
  CASE type \in {"duration", "int", "uint", "float"} -> x > 0
    [] type = "string"                               -> x # ""
    [] OTHER                                         -> x # <<>>

Settings(request) ==
  LET fields == Fields(request.type)
      flags  == Flags(request.type)
  IN  [f \in DOMAIN flags |->
         IF \A n \in flags[f].needs : Given(fields[n], request.fault[n])
         THEN Carried(fields[flags[f].field], request.fault[flags[f].field])
         ELSE flags[f].default]

\* What Commands hands over for one pod: an error, or the command line.  The
\* reset peer command asks for the host network as little as the faults that
\* use no proxy, and the gRPC command forgets the port it found.
Commands(request, pod) ==
  LET protocol == request.type \in Protocol
      found    == FindPort(request.fault.port, pod)
      fails    == IF protocol
                  THEN \/ request.type # "http_reset_peer" /\ HasHostNetwork(pod)
                       \/ found.status = "error"
                       \/ PodIP(pod) = ""
                  ELSE \/ /\ request.type = "network_partition"
                          /\ request.fault.direction = "" \/ request.fault.hosts = <<>>
                       \/ request.type = "disk_fill" /\ request.fault.bytes <= 0
  IN  [status   |-> IF fails THEN "error" ELSE "ok",
       type     |-> request.type,
       settings |-> Settings(request),
       duration |-> Seconds(request.duration),
       target   |-> IF ~protocol THEN NullValue
                    ELSE IF request.type = "grpc" THEN request.fault.port ELSE found.port,
       options  |-> request.options]

(***************************************************************************)
(* The agent.  It stops with an error, before it disrupts anything, when a *)
(* flag does not parse, a check of its command or of the constructors      *)
(* fails, or the duration is below what the disruption takes.              *)
(***************************************************************************)
InRange(rate) == rate \in 0 .. 100

\* The port an agent's proxy listens on, and whether it redirects to it.
ProxyPort(options) ==
  IF options.proxyPort # 0 THEN options.proxyPort ELSE 8000
Transparent(options) ==
  "nonTransparent" \in DOMAIN options => ~options.nonTransparent

HTTPProxyRefuses(s) ==
  \/ s.delayVariation > s.averageDelay
  \/ ~InRange(s.errorRate)
  \/ s.errorRate > 0 /\ s.errorCode = 0
GrpcProxyRefuses(s) ==
  \/ s.delayVariation > s.averageDelay
  \/ ~InRange(s.errorRate)
  \/ s.errorRate > 0 /\ s.statusCode <= 0
ResetPeerProxyRefuses(s) == ~InRange(s.toxicity)

\* --target is an unsigned number other than zero, and a redirector refuses
\* to redirect a port to itself.
ProxyCommandRefuses(c) ==
  \/ ~c.target.isInt \/ c.target.int <= 0
  \/ Transparent(c.options) /\ c.target.int = ProxyPort(c.options)
  \/ c.duration < Second

\* The shaper passes the jitter to netem only behind a delay, and the proxies
\* vary a delay only by a positive variation.
Applied(c) ==
  IF c.type = "network_shaping" /\ c.settings.delay = 0
  THEN [c EXCEPT !.settings.jitter = 0]
  ELSE IF c.type \in {"http", "grpc"} /\ c.settings.delayVariation < 0
  THEN [c EXCEPT !.settings.delayVariation = 0]
  ELSE c

ShaperRefuses(s) ==
  \/ ~InRange(s.loss) \/ ~InRange(s.corrupt) \/ ~InRange(s.duplicate)
  \/ s.delay = 0 /\ s.loss = 0 /\ s.corrupt = 0 /\ s.duplicate = 0 /\ s.rate = ""
DNSProxyRefuses(s) == ~InRange(s.errorRate)
PartitionRefuses(c) ==
  c.settings.direction \notin {"ingress", "egress", "both"} \/ c.duration < Second
\* iptables knows its protocols by name, and no --dport without one that has
\* ports.
DropRefuses(c) ==
  \/ c.duration < Second
  \/ c.settings.protocol \notin {"", "tcp", "udp", "icmp"}
  \/ c.settings.port # 0 /\ c.settings.protocol \notin {"tcp", "udp"}

Refused(c) ==
  CASE c.type = "http"              -> ProxyCommandRefuses(c) \/ HTTPProxyRefuses(c.settings)
    [] c.type = "grpc"              -> ProxyCommandRefuses(c) \/ GrpcProxyRefuses(c.settings)
    [] c.type = "http_reset_peer"   -> ProxyCommandRefuses(c) \/ ResetPeerProxyRefuses(c.settings)
    [] c.type = "dns"               -> DNSProxyRefuses(c.settings)
    [] c.type = "network_shaping"   -> ShaperRefuses(c.settings)
    [] c.type = "network_partition" -> PartitionRefuses(c)
    [] c.type = "network"           -> DropRefuses(c)
    [] c.type = "cpu_stress"        -> c.settings.cPUs <= 0
    [] c.type \in {"memory_stress", "disk_fill"} -> c.settings.bytes <= 0
    [] c.type = "io_stress"         -> FALSE
=============================================================================
