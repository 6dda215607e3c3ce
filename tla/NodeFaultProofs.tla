--------------------------- MODULE NodeFaultProofs ---------------------------
(***************************************************************************)
(* The invariants of NodeFault and the rule for deleting a helper pod, for *)
(* any calls, nodes and number of failing requests.                        *)
(***************************************************************************)
EXTENDS NodeFault, TLAPS

AllWork == {"start", "evict", "put", "watch", "wait", "undo", "unput",
            "delete", "deleteErr", "nil", "err"}

DrainWork == {"start", "evict", "wait", "undo", "nil", "err"}
TaintWork == {"start", "put", "wait", "undo", "unput", "nil", "err"}
PodWork   == {"start", "watch", "delete", "deleteErr", "nil", "err"}

\* TypeOK with its unions and records written out.
WorkTypes ==
  /\ op \in [Call -> {"drain", "taint", "pod"}]
  /\ work \in [Call -> [Node -> AllWork]]
  /\ \A c \in Call, n \in Node :
       /\ op[c] = "drain" => work[c][n] \in DrainWork
       /\ op[c] = "taint" => work[c][n] \in TaintWork
       /\ op[c] = "pod" => work[c][n] \in PodWork

ObjectTypes ==
  /\ ctx \in [Call -> {"live", "done"}]
  /\ copy \in [Call -> [Node -> {"fresh", "stale"}]]
  /\ cordoned \subseteq Node
  /\ tainted \subseteq Node
  /\ pod \in [Node -> Call \cup {NoCall}]
  /\ phase \in [Node -> {"running", "succeeded", "failed"}]
  /\ before \in [cordoned : SUBSET Node, tainted : SUBSET Node]
  /\ lost \in [Call -> SUBSET Node]
  /\ faults \in 0..MaxFaults

\* A drain of the node has begun: it may evict a helper pod.
Disturbed(n) == \E d \in Call : op[d] = "drain" /\ work[d][n] # "start"

\* A helper pod belongs to a call that has asked for it.  Until that call has
\* deleted it, only a drain can take it away, or make room for another's.
PodOwned ==
  /\ \A n \in Node : pod[n] # NoCall => op[pod[n]] = "pod" /\ work[pod[n]][n] # "start"
  /\ \A c \in Call, n \in Node :
       op[c] = "pod" /\ work[c][n] \in {"watch", "delete", "deleteErr"} =>
         pod[n] = c \/ Disturbed(n)

IInv == WorkTypes /\ ObjectTypes /\ PodOwned /\ LeftoversExplained /\ HeldWhileDrained

USE NodeAssumption

LEMMA Types == TypeOK <=> WorkTypes /\ ObjectTypes
<1>1. /\ Work["drain"] = DrainWork
      /\ Work["taint"] = TaintWork
      /\ Work["pod"] = PodWork
  BY DEF Work, DrainWork, TaintWork, PodWork
<1>2. UNION {Work[m] : m \in Method} = DrainWork \cup TaintWork \cup PodWork
  BY <1>1 DEF Method
<1>3. DrainWork \cup TaintWork \cup PodWork = AllWork
  BY DEF DrainWork, TaintWork, PodWork, AllWork
<1>4. ASSUME op \in [Call -> {"drain", "taint", "pod"}]
      PROVE  (\A c \in Call, n \in Node : work[c][n] \in Work[op[c]]) <=>
             (\A c \in Call, n \in Node :
               /\ op[c] = "drain" => work[c][n] \in DrainWork
               /\ op[c] = "taint" => work[c][n] \in TaintWork
               /\ op[c] = "pod" => work[c][n] \in PodWork)
  <2>1. \A c \in Call : op[c] = "drain" \/ op[c] = "taint" \/ op[c] = "pod"
    BY <1>4
  <2> QED BY <1>1, <2>1
<1> QED BY <1>2, <1>3, <1>4 DEF TypeOK, WorkTypes, ObjectTypes, Method

LEMMA Initial == Init => IInv
<1> SUFFICES ASSUME Init PROVE IInv
  OBVIOUS
<1>1. \A c \in Call, n \in Node : work[c][n] = "start"
  BY DEF Init
<1>2. WorkTypes
  BY DEF Init, WorkTypes, Method, AllWork, DrainWork, TaintWork, PodWork
<1>3. ObjectTypes
  BY DEF Init, ObjectTypes
<1>4. PodOwned /\ LeftoversExplained /\ HeldWhileDrained
  BY <1>1 DEF Init, PodOwned, LeftoversExplained, HeldWhileDrained
<1> QED BY <1>2, <1>3, <1>4 DEF IInv

-----------------------------------------------------------------------------
\* A goroutine moves on: what its step changes of the calls.
Moved(c, n, label) ==
  /\ work' = [work EXCEPT ![c][n] = label]
  /\ UNCHANGED <<op, before>>
  /\ lost' \in [Call -> SUBSET Node]
  /\ \A d \in Call : lost[d] \subseteq lost'[d]

\* What a step of a goroutine does to the node, its helper pod and the
\* call's record of lost writes, for each of the three methods.
DrainEffect(c, n, label) ==
  /\ op[c] = "drain"
  /\ UNCHANGED tainted
  /\ \/ /\ work[c][n] = "start" /\ label = "evict"
        /\ cordoned' = cordoned \cup {n} /\ UNCHANGED pod
     \/ /\ work[c][n] = "start" /\ label = "err"
        /\ cordoned' \in {cordoned, cordoned \cup {n}} /\ UNCHANGED pod
     \/ /\ work[c][n] = "evict" /\ label \in {"wait", "err"}
        /\ UNCHANGED cordoned /\ pod' \in {pod, [pod EXCEPT ![n] = NoCall]}
     \/ /\ work[c][n] = "wait" /\ label = "undo"
        /\ UNCHANGED <<cordoned, pod>>
     \/ /\ work[c][n] = "undo" /\ label = "nil"
        /\ cordoned' = cordoned \ {n} /\ UNCHANGED pod
     \/ /\ work[c][n] = "undo" /\ label = "err" /\ n \in lost'[c]
        /\ cordoned' \in {cordoned, cordoned \ {n}} /\ UNCHANGED pod

TaintEffect(c, n, label) ==
  /\ op[c] = "taint"
  /\ UNCHANGED <<cordoned, pod>>
  /\ \/ work[c][n] = "start" /\ label \in {"put", "wait", "err"} /\ UNCHANGED tainted
     \/ work[c][n] = "put" /\ label = "wait" /\ tainted' = tainted \cup {n}
     \/ work[c][n] = "put" /\ label = "err" /\ tainted' \in {tainted, tainted \cup {n}}
     \/ work[c][n] = "wait" /\ label = "undo" /\ UNCHANGED tainted
     \/ work[c][n] = "undo" /\ label \in {"unput", "err"} /\ UNCHANGED tainted
     \/ work[c][n] = "unput" /\ label = "nil" /\ tainted' = tainted \ {n}
     \/ work[c][n] = "unput" /\ label = "err" /\ tainted' \in {tainted, tainted \ {n}}

PodEffect(c, n, label) ==
  /\ op[c] = "pod"
  /\ UNCHANGED <<cordoned, tainted>>
  /\ \/ /\ work[c][n] = "start" /\ label = "watch"
        /\ pod[n] = NoCall /\ pod' = [pod EXCEPT ![n] = c]
     \/ work[c][n] = "start" /\ label = "err" /\ UNCHANGED pod
     \/ /\ work[c][n] = "start" /\ label = "err" /\ n \in lost'[c]
        /\ pod[n] = NoCall /\ pod' = [pod EXCEPT ![n] = c]
     \/ work[c][n] = "watch" /\ label \in {"delete", "deleteErr"} /\ UNCHANGED pod
     \/ /\ work[c][n] \in {"delete", "deleteErr"} /\ label \in {"nil", "err"}
        /\ pod' = [pod EXCEPT ![n] = NoCall]
     \/ /\ work[c][n] \in {"delete", "deleteErr"} /\ label \in {"nil", "err"}
        /\ n \in lost'[c] /\ UNCHANGED pod

Effect(c, n, label) == DrainEffect(c, n, label) \/ TaintEffect(c, n, label) \/ PodEffect(c, n, label)

\* The record of lost writes only grows.
LEMMA Losing ==
  ASSUME ObjectTypes, NEW c \in Call, NEW n \in Node, Lose(c, n) \/ UNCHANGED lost
  PROVE  /\ lost' \in [Call -> SUBSET Node]
         /\ \A d \in Call : lost[d] \subseteq lost'[d]
         /\ Lose(c, n) => n \in lost'[c]
<1>1. CASE UNCHANGED lost
  <2>1. Lose(c, n) => n \in lost'[c]
    BY DEF ObjectTypes, Lose
  <2> QED BY <1>1, <2>1 DEF ObjectTypes
<1>2. CASE Lose(c, n)
  <2>1. \A d \in Call : lost'[d] = IF d = c THEN lost[c] \cup {n} ELSE lost[d]
    BY <1>2 DEF ObjectTypes, Lose
  <2>2. \A d \in Call : lost'[d] \in SUBSET Node
    BY <2>1 DEF ObjectTypes
  <2>3. lost' = [d \in Call |-> lost'[d]]
    BY <1>2 DEF ObjectTypes, Lose
  <2> QED BY <2>1, <2>2, <2>3
<1> QED BY <1>1, <1>2

\* The method of a goroutine tells what it can be doing.
LEMMA Methods ==
  ASSUME WorkTypes, NEW c \in Call, NEW n \in Node
  PROVE  /\ op[c] \in {"drain", "taint", "pod"}
         /\ work[c][n] = "evict" => op[c] = "drain"
         /\ work[c][n] \in {"put", "unput"} => op[c] = "taint"
         /\ work[c][n] \in {"wait", "undo"} => op[c] \in {"drain", "taint"}
         /\ work[c][n] \in {"watch", "delete", "deleteErr"} => op[c] = "pod"
BY DEF WorkTypes, DrainWork, TaintWork, PodWork

LEMMA DrainSteps ==
  ASSUME WorkTypes, ObjectTypes, NEW c \in Call, NEW n \in Node,
         Cordon(c, n) \/ EvictPods(c, n) \/ Uncordon(c, n)
  PROVE  \E label \in AllWork : Moved(c, n, label) /\ DrainEffect(c, n, label)
<1>1. CASE Cordon(c, n)
  <2>1. /\ op[c] = "drain" /\ work[c][n] = "start"
        /\ UNCHANGED <<before, op, tainted, pod>>
        /\ \/ Moves(c, n, "evict") /\ cordoned' = cordoned \cup {n} /\ UNCHANGED lost
           \/ /\ Moves(c, n, "err") /\ Lose(c, n)
              /\ cordoned' = cordoned \/ cordoned' = cordoned \cup {n}
    BY <1>1, Zenon DEF Cordon, Writes
  <2> QED BY <2>1, Losing DEF Moves, Moved, DrainEffect, AllWork
<1>2. CASE EvictPods(c, n)
  <2>1. /\ work[c][n] = "evict"
        /\ UNCHANGED <<before, op, tainted, lost, cordoned>>
        /\ Moves(c, n, "wait") \/ Moves(c, n, "err")
        /\ pod' = pod \/ pod' = [pod EXCEPT ![n] = NoCall]
    BY <1>2, Zenon DEF EvictPods, PodGone
  <2> QED BY <2>1, Methods, Losing DEF Moves, Moved, DrainEffect, AllWork
<1>3. CASE Uncordon(c, n)
  <2>1. /\ op[c] = "drain" /\ work[c][n] = "undo"
        /\ UNCHANGED <<before, op, tainted, pod>>
        /\ \/ Moves(c, n, "nil") /\ cordoned' = cordoned \ {n} /\ UNCHANGED lost
           \/ /\ Moves(c, n, "err") /\ Lose(c, n)
              /\ cordoned' = cordoned \/ cordoned' = cordoned \ {n}
    BY <1>3, Zenon DEF Uncordon, Writes
  <2> QED BY <2>1, Losing DEF Moves, Moved, DrainEffect, AllWork
<1> QED BY <1>1, <1>2, <1>3

LEMMA TaintSteps ==
  ASSUME WorkTypes, ObjectTypes, NEW c \in Call, NEW n \in Node,
         GetTaint(c, n) \/ AddTaint(c, n) \/ GetUntaint(c, n) \/ RemoveTaint(c, n)
  PROVE  \E label \in AllWork : Moved(c, n, label) /\ TaintEffect(c, n, label)
<1>1. CASE GetTaint(c, n)
  <2>1. /\ op[c] = "taint" /\ work[c][n] = "start"
        /\ UNCHANGED <<before, op, tainted, cordoned, pod, lost>>
        /\ \/ Moves(c, n, IF n \in tainted THEN "wait" ELSE "put")
           \/ Moves(c, n, "err")
    BY <1>1, Zenon DEF GetTaint, Reads
  <2> QED BY <2>1, Losing DEF Moves, Moved, TaintEffect, AllWork
<1>2. CASE AddTaint(c, n)
  <2>1. /\ work[c][n] = "put"
        /\ UNCHANGED <<before, op, cordoned, pod>>
        /\ \/ Moves(c, n, "wait") /\ tainted' = tainted \cup {n} /\ UNCHANGED lost
           \/ /\ Moves(c, n, "err") /\ Lose(c, n)
              /\ tainted' = tainted \/ tainted' = tainted \cup {n}
    BY <1>2, Zenon DEF AddTaint, Writes
  <2> QED BY <2>1, Methods, Losing DEF Moves, Moved, TaintEffect, AllWork
<1>3. CASE GetUntaint(c, n)
  <2>1. /\ op[c] = "taint" /\ work[c][n] = "undo"
        /\ UNCHANGED <<before, op, tainted, cordoned, pod, lost>>
        /\ Moves(c, n, "unput") \/ Moves(c, n, "err")
    BY <1>3, Zenon DEF GetUntaint, Reads
  <2> QED BY <2>1, Losing DEF Moves, Moved, TaintEffect, AllWork
<1>4. CASE RemoveTaint(c, n)
  <2>1. /\ work[c][n] = "unput"
        /\ UNCHANGED <<before, op, cordoned, pod>>
        /\ \/ Moves(c, n, "nil") /\ tainted' = tainted \ {n} /\ UNCHANGED lost
           \/ /\ Moves(c, n, "err") /\ Lose(c, n)
              /\ tainted' = tainted \/ tainted' = tainted \ {n}
    BY <1>4, Zenon DEF RemoveTaint, Writes
  <2> QED BY <2>1, Methods, Losing DEF Moves, Moved, TaintEffect, AllWork
<1> QED BY <1>1, <1>2, <1>3, <1>4

LEMMA WaitSteps ==
  ASSUME WorkTypes, ObjectTypes, NEW c \in Call, NEW n \in Node,
         WaitContext(c, n) \/ WaitTimer(c, n)
  PROVE  \E label \in AllWork : Moved(c, n, label) /\ Effect(c, n, label)
<1>1. /\ work[c][n] = "wait" /\ Moves(c, n, "undo")
      /\ UNCHANGED <<before, op, cordoned, tainted, pod, lost>>
  BY DEF WaitContext, WaitTimer
<1> QED BY <1>1, Methods, Losing DEF Moves, Moved, Effect, DrainEffect, TaintEffect, AllWork

LEMMA PodSteps ==
  ASSUME WorkTypes, ObjectTypes, NEW c \in Call, NEW n \in Node,
         CreatePod(c, n) \/ WatchPod(c, n) \/ DeletePod(c, n)
  PROVE  \E label \in AllWork : Moved(c, n, label) /\ PodEffect(c, n, label)
<1>1. CASE CreatePod(c, n)
  <2>1. /\ op[c] = "pod" /\ work[c][n] = "start"
        /\ UNCHANGED <<before, op, cordoned, tainted>>
        /\ \/ /\ Moves(c, n, "watch") /\ UNCHANGED lost
              /\ pod[n] = NoCall /\ pod' = [pod EXCEPT ![n] = c]
           \/ Moves(c, n, "err") /\ UNCHANGED <<pod, lost>>
           \/ /\ Moves(c, n, "err") /\ Lose(c, n)
              /\ \/ UNCHANGED pod
                 \/ pod[n] = NoCall /\ pod' = [pod EXCEPT ![n] = c]
    BY <1>1, Zenon DEF CreatePod
  <2> QED BY <2>1, Losing DEF Moves, Moved, PodEffect, AllWork
<1>2. CASE WatchPod(c, n)
  <2>1. /\ work[c][n] = "watch"
        /\ UNCHANGED <<before, op, cordoned, tainted, pod, lost>>
        /\ Moves(c, n, "delete") \/ Moves(c, n, "deleteErr")
    BY <1>2, Zenon DEF WatchPod
  <2> QED BY <2>1, Methods, Losing DEF Moves, Moved, PodEffect, AllWork
<1>3. CASE DeletePod(c, n)
  <2>1. /\ work[c][n] \in {"delete", "deleteErr"}
        /\ UNCHANGED <<before, op, cordoned, tainted>>
        /\ Moves(c, n, IF work[c][n] = "delete" THEN "nil" ELSE "err")
        /\ \/ pod' = [pod EXCEPT ![n] = NoCall] /\ UNCHANGED lost
           \/ Lose(c, n) /\ UNCHANGED pod
    BY <1>3, Zenon DEF DeletePod, PodGone
  <2> QED BY <2>1, Methods, Losing DEF Moves, Moved, PodEffect, AllWork
<1> QED BY <1>1, <1>2, <1>3

\* Every step of a goroutine is one of these.
LEMMA Steps ==
  ASSUME WorkTypes, ObjectTypes, NEW c \in Call, NEW n \in Node,
         Prompt(c, n) \/ WaitTimer(c, n)
  PROVE  \E label \in AllWork : Moved(c, n, label) /\ Effect(c, n, label)
BY DrainSteps, TaintSteps, WaitSteps, PodSteps DEF Prompt, Effect

\* What a step leaves of the work of the goroutines.
LEMMA Working ==
  ASSUME WorkTypes, NEW c \in Call, NEW n \in Node, NEW label \in AllWork,
         Moved(c, n, label), Effect(c, n, label)
  PROVE  /\ WorkTypes'
         /\ \A d \in Call, m \in Node :
              work'[d][m] = IF d = c /\ m = n THEN label ELSE work[d][m]
         /\ label # "start"
<1>1. \A d \in Call, m \in Node :
        work'[d][m] = IF d = c /\ m = n THEN label ELSE work[d][m]
  BY DEF WorkTypes, Moved
<1>2. work' \in [Call -> [Node -> AllWork]]
  BY DEF WorkTypes, Moved
<1>3. /\ op[c] = "drain" => label \in DrainWork
      /\ op[c] = "taint" => label \in TaintWork
      /\ op[c] = "pod" => label \in PodWork
      /\ label # "start"
  BY DEF Effect, DrainEffect, TaintEffect, PodEffect, DrainWork, TaintWork, PodWork
<1>4. WorkTypes'
  BY <1>1, <1>2, <1>3 DEF WorkTypes, Moved
<1> QED BY <1>1, <1>3, <1>4

\* The parts of the state that no property is about.
LEMMA RestTypes ==
  ASSUME ObjectTypes, NEW c \in Call, NEW n \in Node, Prompt(c, n) \/ WaitTimer(c, n)
  PROVE  /\ ctx' \in [Call -> {"live", "done"}]
         /\ copy' \in [Call -> [Node -> {"fresh", "stale"}]]
         /\ phase' \in [Node -> {"running", "succeeded", "failed"}]
         /\ faults' \in 0..MaxFaults
<1>1. /\ UNCHANGED ctx
      /\ UNCHANGED faults \/ Fault
  BY Zenon DEF Prompt, WaitTimer, Cordon, EvictPods, Uncordon, GetTaint, AddTaint, GetUntaint,
         RemoveTaint, WaitContext, CreatePod, WatchPod, DeletePod, Writes, Reads, RequestFails
<1>2. \/ UNCHANGED copy
      \/ NodeWritten(n)
      \/ copy' = [copy EXCEPT ![c][n] = "fresh"]
  BY Zenon DEF Prompt, WaitTimer, Cordon, EvictPods, Uncordon, GetTaint, AddTaint, GetUntaint,
         RemoveTaint, WaitContext, CreatePod, WatchPod, DeletePod, Writes, Reads
<1>3. \/ UNCHANGED phase
      \/ phase' = [phase EXCEPT ![n] = "running"]
      \/ PodGone(n)
  BY Zenon DEF Prompt, WaitTimer, Cordon, EvictPods, Uncordon, GetTaint, AddTaint, GetUntaint,
         RemoveTaint, WaitContext, CreatePod, WatchPod, DeletePod, Writes, Reads
<1>4. copy' \in [Call -> [Node -> {"fresh", "stale"}]]
  BY <1>2 DEF ObjectTypes, NodeWritten
<1>5. phase' \in [Node -> {"running", "succeeded", "failed"}]
  BY <1>3 DEF ObjectTypes, PodGone
<1> QED BY <1>1, <1>4, <1>5 DEF ObjectTypes, Fault

LEMMA ObjectStep ==
  ASSUME WorkTypes, ObjectTypes, NEW c \in Call, NEW n \in Node,
         NEW label \in AllWork, Moved(c, n, label), Effect(c, n, label)
  PROVE  /\ cordoned' \subseteq Node
         /\ tainted' \subseteq Node
         /\ pod' \in [Node -> Call \cup {NoCall}]
         /\ \A m \in Node \ {n} : pod'[m] = pod[m]
BY DEF ObjectTypes, Effect, DrainEffect, TaintEffect, PodEffect

-----------------------------------------------------------------------------
LEMMA OwnedStep ==
  ASSUME IInv, NEW c \in Call, NEW n \in Node,
         NEW label \in AllWork, Moved(c, n, label), Effect(c, n, label)
  PROVE  PodOwned'
<1> USE DEF IInv
<1>0. /\ \A d \in Call, m \in Node :
           work'[d][m] = IF d = c /\ m = n THEN label ELSE work[d][m]
      /\ label # "start"
      /\ op' = op
  BY Working DEF Moved
<1>1. \A m \in Node : Disturbed(m) => Disturbed(m)'
  BY <1>0 DEF Disturbed
<1>2. ASSUME NEW m \in Node, pod'[m] # NoCall
      PROVE  op'[pod'[m]] = "pod" /\ work'[pod'[m]][m] # "start"
  <2>1. pod'[m] = pod[m] \/ (m = n /\ pod'[m] = c /\ op[c] = "pod")
    BY <1>2 DEF ObjectTypes, Effect, DrainEffect, TaintEffect, PodEffect
  <2>2. pod[m] \in Call \cup {NoCall}
    BY DEF ObjectTypes
  <2> QED BY <1>0, <1>2, <2>1, <2>2 DEF PodOwned
<1>3. ASSUME NEW d \in Call, NEW m \in Node,
             op'[d] = "pod", work'[d][m] \in {"watch", "delete", "deleteErr"}
      PROVE  pod'[m] = d \/ Disturbed(m)'
  <2>1. CASE d = c /\ m = n
    <3>1. op[c] = "pod" /\ label \in {"watch", "delete", "deleteErr"}
      BY <1>0, <1>3, <2>1
    <3>2. \/ pod'[n] = c
          \/ work[c][n] = "watch" /\ pod' = pod
      BY <3>1 DEF ObjectTypes, Effect, DrainEffect, TaintEffect, PodEffect
    <3> QED BY <1>1, <2>1, <3>1, <3>2 DEF PodOwned
  <2>2. CASE ~(d = c /\ m = n)
    <3>1. work[d][m] \in {"watch", "delete", "deleteErr"} /\ op[d] = "pod"
      BY <1>0, <1>3, <2>2
    <3>2. pod[m] = d \/ Disturbed(m)
      BY <3>1 DEF PodOwned
    <3>3. ASSUME pod[m] = d, pod'[m] # d
          PROVE  Disturbed(m)
      <4>1. m = n
        BY <3>3, ObjectStep
      <4>2. d # c
        BY <2>2, <4>1
      <4>3. \/ DrainEffect(c, n, label) /\ work[c][n] = "evict"
            \/ op[c] = "pod" /\ work[c][n] \in {"delete", "deleteErr"}
        <5>1. d # NoCall
          OBVIOUS
        <5> QED BY <3>3, <4>1, <5>1 DEF ObjectTypes, Effect, DrainEffect, TaintEffect, PodEffect
      <4> QED BY <3>3, <4>1, <4>2, <4>3 DEF PodOwned, Disturbed, DrainEffect
    <3> QED BY <1>1, <3>2, <3>3
  <2> QED BY <2>1, <2>2
<1> QED BY <1>2, <1>3 DEF PodOwned

LEMMA LeftoversStep ==
  ASSUME IInv, NEW c \in Call, NEW n \in Node,
         NEW label \in AllWork, Moved(c, n, label), Effect(c, n, label)
  PROVE  LeftoversExplained'
<1> USE DEF IInv
<1>0. /\ \A d \in Call, m \in Node :
           work'[d][m] = IF d = c /\ m = n THEN label ELSE work[d][m]
      /\ op' = op /\ before' = before
      /\ \A d \in Call : lost[d] \subseteq lost'[d]
  BY Working DEF Moved
<1>1. ASSUME NEW m \in Node, m \in cordoned' \ before'.cordoned
      PROVE  \E d \in Call : Marks(d, m, "drain")'
  <2>1. CASE m = n /\ op[c] = "drain"
    <3>1. CASE label \in {"evict", "wait", "undo", "err"}
      BY <1>0, <2>1, <3>1 DEF Marks
    <3>2. CASE label \notin {"evict", "wait", "undo", "err"}
      BY <1>1, <2>1, <3>2 DEF Effect, DrainEffect, TaintEffect, PodEffect
    <3> QED BY <3>1, <3>2
  <2>2. CASE ~(m = n /\ op[c] = "drain")
    <3>1. m \in cordoned
      BY <1>1, <2>2 DEF Effect, DrainEffect, TaintEffect, PodEffect
    <3>2. PICK d \in Call : Marks(d, m, "drain")
      BY <1>0, <1>1, <3>1 DEF LeftoversExplained
    <3>3. work'[d][m] = work[d][m]
      BY <1>0, <2>2, <3>2 DEF Marks
    <3> QED BY <1>0, <3>2, <3>3 DEF Marks
  <2> QED BY <2>1, <2>2
<1>2. ASSUME NEW m \in Node, m \in tainted' \ before'.tainted
      PROVE  \E d \in Call : Marks(d, m, "taint")'
  <2>1. CASE m = n /\ op[c] = "taint" /\ label \in {"wait", "undo", "unput", "err"}
    BY <1>0, <2>1 DEF Marks
  <2>2. CASE ~(m = n /\ op[c] = "taint" /\ label \in {"wait", "undo", "unput", "err"})
    <3>1. m \in tainted
      BY <1>2, <2>2 DEF Effect, DrainEffect, TaintEffect, PodEffect
    <3>2. PICK d \in Call : Marks(d, m, "taint")
      BY <1>0, <1>2, <3>1 DEF LeftoversExplained
    <3>3. ~(d = c /\ m = n)
      BY <1>2, <2>2, <3>2 DEF Marks, Effect, DrainEffect, TaintEffect, PodEffect
    <3> QED BY <1>0, <3>2, <3>3 DEF Marks
  <2> QED BY <2>1, <2>2
<1>3. ASSUME NEW m \in Node, pod'[m] # NoCall, work'[pod'[m]][m] \in {"nil", "err"}
      PROVE  m \in lost'[pod'[m]]
  <2>1. pod'[m] = pod[m] \/ (m = n /\ pod'[m] = c /\ op[c] = "pod")
    BY <1>3 DEF ObjectTypes, Effect, DrainEffect, TaintEffect, PodEffect
  <2>2. pod[m] \in Call \cup {NoCall}
    BY DEF ObjectTypes
  <2>3. CASE m = n /\ pod'[m] = c
    <3>1. label \in {"nil", "err"}
      BY <1>0, <1>3, <2>3
    <3>2. op[c] = "pod"
      BY <1>0, <2>1, <2>3, <2>2 DEF PodOwned
    <3> QED BY <3>1, <3>2, <2>3, <1>3 DEF ObjectTypes, PodOwned, Effect, DrainEffect, TaintEffect, PodEffect
  <2>4. CASE ~(m = n /\ pod'[m] = c)
    <3>1. pod'[m] = pod[m] /\ pod[m] \in Call
      BY <1>3, <2>1, <2>2, <2>4
    <3>2. work[pod[m]][m] \in {"nil", "err"}
      BY <1>0, <1>3, <2>4, <3>1
    <3> QED BY <1>0, <1>3, <3>1, <3>2 DEF LeftoversExplained
  <2> QED BY <2>3, <2>4
<1> QED BY <1>1, <1>2, <1>3 DEF LeftoversExplained

LEMMA HeldStep ==
  ASSUME IInv, NEW c \in Call, NEW n \in Node,
         NEW label \in AllWork, Moved(c, n, label), Effect(c, n, label)
  PROVE  HeldWhileDrained'
<1> USE DEF IInv
<1>0. /\ \A d \in Call, m \in Node :
           work'[d][m] = IF d = c /\ m = n THEN label ELSE work[d][m]
      /\ op' = op
      /\ \A d \in Call : lost[d] \subseteq lost'[d]
  BY Working DEF Moved
<1> SUFFICES ASSUME NEW a \in Call, NEW m \in Node, op'[a] = "drain",
                    work'[a][m] \in {"evict", "wait", "undo"}, m \notin cordoned'
             PROVE  \E d \in Call \ {a} : op'[d] = "drain" /\ (work'[d][m] = "nil" \/ m \in lost'[d])
  BY DEF HeldWhileDrained
<1>1. ASSUME m \notin cordoned, work[a][m] \in {"evict", "wait", "undo"}
      PROVE  \E d \in Call \ {a} : op'[d] = "drain" /\ (work'[d][m] = "nil" \/ m \in lost'[d])
  <2>1. PICK d \in Call \ {a} : op[d] = "drain" /\ (work[d][m] = "nil" \/ m \in lost[d])
    BY <1>0, <1>1 DEF HeldWhileDrained
  <2>2. work[d][m] = "nil" => ~(d = c /\ m = n)
    BY DEF Effect, DrainEffect, TaintEffect, PodEffect
  <2> QED BY <1>0, <2>1, <2>2
<1>2. CASE a = c /\ m = n
  <2>1. op[c] = "drain" /\ label \in {"evict", "wait", "undo"} /\ n \notin cordoned'
    BY <1>0, <1>2
  <2>2. n \notin cordoned /\ work[c][n] \in {"evict", "wait"}
    BY <2>1 DEF Effect, DrainEffect, TaintEffect, PodEffect
  <2> QED BY <1>1, <1>2, <2>2
<1>3. CASE ~(a = c /\ m = n)
  <2>1. work[a][m] \in {"evict", "wait", "undo"}
    BY <1>0, <1>3
  <2>2. CASE m \notin cordoned
    BY <1>1, <2>1, <2>2
  <2>3. CASE m \in cordoned
    <3>1. m = n /\ op[c] = "drain" /\ (label = "nil" \/ n \in lost'[c])
      BY <2>3 DEF Effect, DrainEffect, TaintEffect, PodEffect
    <3> QED BY <1>0, <1>3, <3>1
  <2> QED BY <2>2, <2>3
<1> QED BY <1>2, <1>3

\* A step of a goroutine.
LEMMA GoroutineStep ==
  ASSUME IInv, NEW c \in Call, NEW n \in Node, Prompt(c, n) \/ WaitTimer(c, n)
  PROVE  IInv'
<1>1. PICK label \in AllWork : Moved(c, n, label) /\ Effect(c, n, label)
  BY Steps DEF IInv
<1>2. WorkTypes'
  BY <1>1, Working DEF IInv
<1>3. ObjectTypes'
  BY <1>1, ObjectStep, RestTypes DEF IInv, ObjectTypes, Moved
<1> QED BY <1>1, <1>2, <1>3, OwnedStep, LeftoversStep, HeldStep DEF IInv

\* A step that is not one of a goroutine leaves all that the parts are about.
LEMMA OtherStep ==
  ASSUME IInv, UNCHANGED <<op, work, cordoned, tainted, pod, before, lost>>, ObjectTypes'
  PROVE  IInv'
<1>1. WorkTypes'
  BY DEF IInv, WorkTypes
<1>2. PodOwned'
  BY DEF IInv, PodOwned, Disturbed
<1>3. LeftoversExplained'
  BY DEF IInv, LeftoversExplained, Marks
<1>4. HeldWhileDrained'
  BY DEF IInv, HeldWhileDrained
<1> QED BY <1>1, <1>2, <1>3, <1>4 DEF IInv

LEMMA Inductive == IInv /\ [Next]_vars => IInv'
<1> SUFFICES ASSUME IInv, [Next]_vars PROVE IInv'
  OBVIOUS
<1>1. ASSUME NEW c \in Call, NEW n \in Node, Prompt(c, n) \/ WaitTimer(c, n) PROVE IInv'
  BY <1>1, GoroutineStep
<1>2. ASSUME NEW n \in Node, PodEnds(n) PROVE IInv'
  <2>1. ObjectTypes'
    BY <1>2 DEF IInv, ObjectTypes, PodEnds
  <2> QED BY <1>2, <2>1, OtherStep DEF PodEnds
<1>3. ASSUME NEW n \in Node, Heartbeat(n) PROVE IInv'
  <2>1. ObjectTypes'
    BY <1>3 DEF IInv, ObjectTypes, Heartbeat, NodeWritten
  <2> QED BY <1>3, <2>1, OtherStep DEF Heartbeat
<1>4. ASSUME NEW c \in Call, Cancel(c) PROVE IInv'
  <2>1. ObjectTypes'
    BY <1>4 DEF IInv, ObjectTypes, Cancel
  <2> QED BY <1>4, <2>1, OtherStep DEF Cancel
<1>5. CASE UNCHANGED vars
  <2>1. ObjectTypes'
    BY <1>5 DEF IInv, ObjectTypes, vars
  <2> QED BY <1>5, <2>1, OtherStep DEF vars
<1> QED BY <1>1, <1>2, <1>3, <1>4, <1>5 DEF Next

LEMMA Inductively == Spec => []IInv
BY Initial, Inductive, PTL DEF Spec

-----------------------------------------------------------------------------
\* The variables keep their types, and a goroutine only ever does what its
\* method does.
THEOREM TypeCorrect == Spec => []TypeOK
<1>1. IInv => TypeOK
  BY Types DEF IInv
<1> QED BY <1>1, Inductively, PTL

\* A cordon, a taint or a helper pod that outlives the calls is on the account
\* of a goroutine that ended with an error (nodes.go, the deferred deletion and
\* the undo of DrainNode and TaintNode).
THEOREM Explained == Spec => []LeftoversExplained
<1>1. IInv => LeftoversExplained
  BY DEF IInv
<1> QED BY <1>1, Inductively, PTL

\* Only another drain that has tried to end makes a drained node schedulable.
THEOREM Held == Spec => []HeldWhileDrained
<1>1. IInv => HeldWhileDrained
  BY DEF IInv
<1> QED BY <1>1, Inductively, PTL

\* No call deletes the helper pod of another, unless a drain has come between.
THEOREM OwnDeleted == Spec => OwnPodDeleted
<1>1. ASSUME IInv, [Next]_vars, NEW n \in Node, pod'[n] = NoCall, pod[n] # NoCall
      PROVE  \/ work[pod[n]][n] \in {"delete", "deleteErr"} /\ work'[pod[n]][n] \in {"nil", "err"}
             \/ \E d \in Call : op[d] = "drain" /\ work[d][n] # "start"
  <2>1. ASSUME NEW c \in Call, NEW m \in Node, Prompt(c, m) \/ WaitTimer(c, m)
        PROVE  \/ work[pod[n]][n] \in {"delete", "deleteErr"} /\ work'[pod[n]][n] \in {"nil", "err"}
               \/ Disturbed(n)
    <3>1. PICK label \in AllWork : Moved(c, m, label) /\ Effect(c, m, label)
      BY <1>1, <2>1, Steps DEF IInv
    <3>2. m = n
      BY <1>1, <3>1, ObjectStep DEF IInv
    <3>3. \/ op[c] = "drain" /\ work[c][n] = "evict"
          \/ op[c] = "pod" /\ work[c][n] \in {"delete", "deleteErr"} /\ label \in {"nil", "err"}
      BY <1>1, <3>1, <3>2 DEF IInv, ObjectTypes, Effect, DrainEffect, TaintEffect, PodEffect
    <3>4. work'[c][n] = label
      BY <1>1, <3>1, <3>2, Working DEF IInv
    <3> QED BY <1>1, <3>3, <3>4 DEF IInv, PodOwned, Disturbed
  <2>2. ~((\E m \in Node : PodEnds(m) \/ Heartbeat(m)) \/ (\E c \in Call : Cancel(c)) \/ UNCHANGED vars)
    BY <1>1 DEF PodEnds, Heartbeat, Cancel, vars
  <2> QED BY <1>1, <2>1, <2>2 DEF Next, Disturbed
<1>2. IInv /\ [Next]_vars =>
        [\A n \in Node :
           pod'[n] = NoCall /\ pod[n] # NoCall =>
             \/ work[pod[n]][n] \in {"delete", "deleteErr"} /\ work'[pod[n]][n] \in {"nil", "err"}
             \/ \E d \in Call : op[d] = "drain" /\ work[d][n] # "start"]_vars
  BY <1>1
<1> QED BY <1>2, Inductively, PTL DEF Spec, OwnPodDeleted
=============================================================================
