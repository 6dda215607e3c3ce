--------------------------- MODULE FaultRequest ---------------------------
(***************************************************************************)
(* What a script hands to the extension and what the extension makes of   *)
(* it: the values goja exports, their conversion to the Go structs         *)
(* (api/convert.go), the constructors and the methods of the JavaScript    *)
(* objects (api/api.go).                                                   *)
(*                                                                         *)
(* Durations are in microseconds, fractions in hundredths.  A Go field     *)
(* that a script leaves out keeps its zero value, so zero means "not       *)
(* given" from the conversion on.                                          *)
(***************************************************************************)
EXTENDS Integers, Sequences

CONSTANT Numerals    \* the strings strconv.Atoi reads, with their values

Int32 == -2147483647 - 1 .. 2147483647

ASSUME NumeralsAssumption ==
  /\ DOMAIN Numerals \subseteq STRING \ {""}
  /\ \A s \in DOMAIN Numerals : Numerals[s] \in Int32

\* The values Export returns.  A string is kept apart from a string that
\* time.ParseDuration accepts, whose value is the duration it stands for.
Whole(n)    == [kind |-> "int", value |-> n]
Fraction(n) == [kind |-> "float", value |-> n]
Text(s)     == [kind |-> "text", value |-> s]
Time(us)    == [kind |-> "time", value |-> us]
Bool(b)     == [kind |-> "bool", value |-> b]
List(s)     == [kind |-> "list", value |-> s]
Map(f)      == [kind |-> "map", value |-> f]
Null        == [kind |-> "null", value |-> 0]

Exported(x) ==
  /\ x.kind \in {"int", "float", "text", "time", "bool", "list", "map", "null"}
  /\ x.kind \in {"int", "float", "time"} => x.value \in Int
  /\ x.kind = "text" => x.value \in STRING

Second == 1000000
NoFields == <<>>

\* A value that is a number or a name: strconv.Atoi decides which.
Number(n) == [isInt |-> TRUE, int |-> n, name |-> ""]
Named(s)  == [isInt |-> FALSE, int |-> 0, name |-> s]
NullValue == Named("")
IsNull(p) == p = NullValue
IsZero(p) == p.isInt /\ p.int = 0
IntOrString ==
  {p \in [isInt : BOOLEAN, int : Int, name : STRING] :
     p = IF p.isInt THEN Number(p.int) ELSE Named(p.name)}
FromString(s) == IF s \in DOMAIN Numerals THEN Number(Numerals[s]) ELSE Named(s)

(***************************************************************************)
(* Conversion of one value.  Each Go type accepts the kinds below; null    *)
(* has no reflect.Type, and the default conversion and the one to a        *)
(* pointer call a method on it and panic.  A number is convertible to a Go *)
(* string, as the character with that code; a duration goes through that   *)
(* string, and no such character parses.                                   *)
(***************************************************************************)
Accepted(type) ==
  CASE type = "duration"                   -> {"time"}
    [] type \in {"int", "uint", "float", "pointer"} -> {"int", "float"}
    [] type = "string"                     -> {"text", "time", "int"}
    [] type = "port"                       -> {"text", "time", "int"}
    [] type \in {"bool", "list", "map"}    -> {type}

Panics(type, x) ==
  /\ x.kind = "null"
  /\ type \in {"duration", "int", "uint", "float", "pointer", "string", "bool"}

\* A pointer to an int32 refuses a number with a fractional part, where an
\* int takes its integer part; it and a port refuse what overflows.
Refuses(type, x) ==
  \/ x.kind \notin Accepted(type) /\ ~Panics(type, x)
  \/ type = "pointer" /\ x.kind = "float" /\ (x.value % 100 # 0 \/ x.value \div 100 \notin Int32)
  \/ type \in {"pointer", "port"} /\ x.kind = "int" /\ x.value \notin Int32

IntegerPart(n) == IF n >= 0 THEN n \div 100 ELSE -((-n) \div 100)

Converted(type, x) ==
  CASE type = "port" /\ x.kind = "int"   -> Number(x.value)
    [] type = "port" /\ x.kind = "text"  -> FromString(x.value)
    [] type = "port" /\ x.kind = "time"  -> Named("time")
    [] type = "string" /\ x.kind = "int" -> "rune"
    [] type = "string" /\ x.kind = "time" -> "time"
    [] type = "float" /\ x.kind = "int"  -> 100 * x.value
    [] type \in {"int", "uint", "pointer"} /\ x.kind = "float" -> IntegerPart(x.value)
    [] OTHER                             -> x.value

Zero(type) ==
  CASE type = "port"               -> NullValue
    [] type = "string"             -> ""
    [] type = "bool"               -> FALSE
    [] type \in {"list", "map"}    -> <<>>
    [] OTHER                       -> 0

\* The outcomes of converting an object to a struct with these fields.  The
\* fields are visited in the random order of a Go map, so an object with a
\* field that is refused and one that panics can end either way.  A field is
\* looked up under its name with the first letter in upper case.
StructOutcomes(fields, object) ==
  LET bad   == \E f \in DOMAIN object :
                 f \notin DOMAIN fields \/ Refuses(fields[f], object[f])
      panic == \E f \in DOMAIN object \cap DOMAIN fields : Panics(fields[f], object[f])
  IN (IF bad THEN {"error"} ELSE {}) \cup (IF panic THEN {"panic"} ELSE {})
       \cup (IF bad \/ panic THEN {} ELSE {"ok"})

Struct(fields, object) ==
  [f \in DOMAIN fields |-> IF f \in DOMAIN object THEN Converted(fields[f], object[f])
                                                  ELSE Zero(fields[f])]

DurationOutcomes(x) ==
  IF Panics("duration", x) THEN {"panic"}
  ELSE IF Refuses("duration", x) THEN {"error"} ELSE {"ok"}

(***************************************************************************)
(* The fault structs, by the name toGoCase maps to their fields: it raises *)
(* the first letter and no other, so a script cannot reach CPUs as cpus.   *)
(***************************************************************************)
HTTPOptions == [proxyPort |-> "uint", nonTransparent |-> "bool"]
GrpcOptions == [proxyPort |-> "uint"]

HTTPFault ==
  [port |-> "port", averageDelay |-> "duration", delayVariation |-> "duration",
   errorRate |-> "float", errorCode |-> "uint", errorBody |-> "string", exclude |-> "string",
   modifyResponseBody |-> "string", modifyResponseHeaders |-> "map"]
HTTPResetPeerFault ==
  [port |-> "port", resetTimeout |-> "duration", toxicity |-> "float"]
GrpcFault ==
  [port |-> "port", averageDelay |-> "duration", delayVariation |-> "duration",
   errorRate |-> "float", statusCode |-> "int", statusMessage |-> "string", exclude |-> "string"]

NetworkFault == [port |-> "uint", protocol |-> "string"]
NetworkShapingFault ==
  [interface |-> "string", delay |-> "duration", jitter |-> "duration", loss |-> "float",
   corrupt |-> "float", duplicate |-> "float", rate |-> "string"]
NetworkPartitionFault == [direction |-> "string", hosts |-> "list"]

CPUStressFault    == [load |-> "int", cPUs |-> "int"]
MemoryStressFault == [bytes |-> "int"]
DNSFault          == [errorRate |-> "float", spoof |-> "map", upstreamDNS |-> "string"]
DiskFillFault     == [bytes |-> "int", path |-> "string", blockSize |-> "int"]
IOStressFault     == [path |-> "string", workers |-> "int", bytesPerWorker |-> "int"]

CrashLoopFault      == [container |-> "string", count |-> "int", restartTimeout |-> "duration"]
PodTerminationFault == [count |-> "port", timeout |-> "duration"]
ReplicaChangeFault  ==
  [replicas |-> "pointer", delta |-> "pointer", percentage |-> "pointer", autoRevert |-> "bool"]
NodeDrainFault ==
  [skipDaemonSets |-> "bool", deleteLocalData |-> "bool", timeout |-> "duration"]
NodeTaintFault == [key |-> "string", value |-> "string", effect |-> "string"]
FillerWorkloadFault ==
  [replicas |-> "int", cPUPerReplica |-> "string", memoryPerReplica |-> "string",
   nodeSelector |-> "map", priorityClassName |-> "string"]
WebhookConfigFault ==
  [failurePolicy |-> "string", timeoutSeconds |-> "int", invalidateCABundle |-> "bool"]
FaultInjectionFault ==
  [hTTPRouteIndex |-> "int", delayMillis |-> "int", delayPercent |-> "float",
   abortHTTPStatus |-> "int", abortPercent |-> "float"]
MisrouteFault ==
  [hTTPRouteIndex |-> "int", routeIndex |-> "int", host |-> "string", subset |-> "string"]
TLSFault  == [mode |-> "string"]
MTLSFault == [mode |-> "string"]
DenyFault == [denyAll |-> "bool"]

(***************************************************************************)
(* The methods of the JavaScript objects.  type is the fault_type tag,     *)
(* fields the struct of the first argument, options that of the third,     *)
(* args the number of arguments below which the method throws, and         *)
(* duration says whether one is required.                                  *)
(***************************************************************************)
Method(type, fields) ==
  [type |-> type, fields |-> fields, options |-> NoFields, args |-> 2, duration |-> "required"]
WithOptions(m, options) == [m EXCEPT !.options = options]

ProtocolMethods ==
  [injectHTTPFaults |-> WithOptions(Method("http", HTTPFault), HTTPOptions),
   injectHTTPResetPeerFaults |->
     WithOptions(Method("http_reset_peer", HTTPResetPeerFault), HTTPOptions),
   injectGrpcFaults |-> WithOptions(Method("grpc", GrpcFault), GrpcOptions)]

TerminateMethods ==
  [terminatePods |-> [Method("terminate", PodTerminationFault)
                        EXCEPT !.args = 1, !.duration = "none"]]

TrafficMethods ==
  [injectDNSFaults            |-> Method("dns", DNSFault),
   injectNetworkShapingFaults |-> Method("network_shaping", NetworkShapingFault),
   injectNetworkPartition     |-> Method("network_partition", NetworkPartitionFault)]

StressMethods ==
  [injectCPUStress      |-> Method("cpu_stress", CPUStressFault),
   injectMemoryStress   |-> Method("memory_stress", MemoryStressFault),
   injectCrashLoopFault |-> Method("crash_loop", CrashLoopFault)]

DiskMethods ==
  [injectDiskFill |-> Method("disk_fill", DiskFillFault),
   injectIOStress |-> Method("io_stress", IOStressFault)]

NetworkMethods == [injectNetworkFaults |-> Method("network", NetworkFault)]

\* Every method of one object reports under the object's tracker.
f ++ g == [m \in DOMAIN f \cup DOMAIN g |-> IF m \in DOMAIN f THEN f[m] ELSE g[m]]

PodMethods ==
  ProtocolMethods ++ TerminateMethods ++ TrafficMethods ++ StressMethods
    ++ DiskMethods ++ NetworkMethods
ServiceMethods == ProtocolMethods ++ TerminateMethods

WorkloadMethods ==
  [scaleReplicas |-> [Method("replica_change", ReplicaChangeFault)
                        EXCEPT !.args = 1, !.duration = "optional"]]

NodeMethods ==
  [drain              |-> Method("drain", NodeDrainFault),
   taintNode          |-> Method("taint", NodeTaintFault),
   injectCPUStress    |-> Method("cpu_stress", CPUStressFault),
   injectMemoryStress |-> Method("memory_stress", MemoryStressFault),
   injectIOStress     |-> Method("io_stress", IOStressFault)]
KubeletMethods ==
  [injectKubeletServiceKill |-> [Method("kubelet_kill", NoFields) EXCEPT !.args = 1]]

WebhookMethods  == [injectWebhookConfigFault |-> Method("webhook_config", WebhookConfigFault)]
NodePoolMethods == [injectFillerWorkload |-> Method("filler_workload", FillerWorkloadFault)]
VirtualServiceMethods ==
  [injectFaultInjection |-> Method("istio_vs_fault_injection", FaultInjectionFault),
   injectMisroute       |-> Method("istio_vs_misroute", MisrouteFault)]
DestinationRuleMethods     == [injectTLSFault |-> Method("istio_dr_tls", TLSFault)]
PeerAuthenticationMethods  == [injectMTLSFault |-> Method("istio_pa_mtls", MTLSFault)]
AuthorizationPolicyMethods == [injectDenyFault |-> Method("istio_authz_deny", DenyFault)]

Kinds == {"pod", "service", "workload", "node", "webhook", "nodepool", "virtualservice",
          "destinationrule", "peerauthentication", "authorizationpolicy"}

Methods(kind) ==
  CASE kind = "pod"                 -> PodMethods
    [] kind = "service"             -> ServiceMethods
    [] kind = "workload"            -> WorkloadMethods
    [] kind = "node"                -> NodeMethods ++ KubeletMethods
    [] kind = "webhook"             -> WebhookMethods
    [] kind = "nodepool"            -> NodePoolMethods
    [] kind = "virtualservice"      -> VirtualServiceMethods
    [] kind = "destinationrule"     -> DestinationRuleMethods
    [] kind = "peerauthentication"  -> PeerAuthenticationMethods
    [] kind = "authorizationpolicy" -> AuthorizationPolicyMethods

\* A call: the method, how many arguments the script passed, and their values.
Call(method, fault, duration) ==
  [method |-> method, args |-> 2, fault |-> fault, duration |-> duration, options |-> NoFields]

\* The two checks a method makes between the conversions.
Requires(type, fault) ==
  CASE type = "crash_loop" -> fault.container # ""
    [] type = "disk_fill"  -> fault.bytes > 0
    [] OTHER               -> TRUE

\* How the part of a method before track ends: the first conversion that
\* does not succeed decides.
CallOutcomes(method, call) ==
  LET object == StructOutcomes(method.fields, call.fault)
      given  == \/ method.duration = "required"
                \/ method.duration = "optional" /\ call.args > 1 /\ call.duration # Null
      time   == IF given THEN DurationOutcomes(call.duration) ELSE {"ok"}
      third  == IF call.args > 2 THEN StructOutcomes(method.options, call.options) ELSE {"ok"}
  IN  IF call.args < method.args THEN {"error"}
      ELSE IF object # {"ok"} THEN object
      ELSE IF ~Requires(method.type, Struct(method.fields, call.fault)) THEN {"error"}
      ELSE IF time # {"ok"} THEN time
      ELSE third

\* What track is then given.
Request(method, call) ==
  [method   |-> call.method,
   type     |-> method.type,
   fault    |-> Struct(method.fields, call.fault),
   duration |-> IF call.args > 1 \/ method.args = 1
                THEN IF call.duration.kind = "time" THEN call.duration.value ELSE 0
                ELSE 0,
   options  |-> Struct(method.options, IF call.args > 2 THEN call.options ELSE NoFields)]
=============================================================================
