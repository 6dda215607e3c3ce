--------------------------- MODULE TemporaryFault ---------------------------
(***************************************************************************)
(* What an agent promises about the host it runs on: it alters the host    *)
(* only while it holds the lock, it undoes every alteration before it      *)
(* gives the lock up, and whatever stays behind is explained by an undo    *)
(* that failed or by an agent that was killed.  FaultAgents implements it, *)
(* and the redirections of ProtocolAgent its looser form.                  *)
(***************************************************************************)
EXTENDS Naturals

CONSTANT Item     \* what an agent can alter: a rule, a qdisc, a file, a unit

VARIABLES
  held,           \* an agent holds the lock
  own,            \* the alterations of that agent that are in place
  left,           \* per item: copies that no agent will undo
  broken          \* an undo has failed or an agent was killed

promise == <<held, own, left, broken>>

PromiseInit ==
  /\ held = FALSE
  /\ own = {}
  /\ left = [i \in Item |-> 0]
  /\ broken = FALSE

Take ==
  /\ ~held
  /\ held' = TRUE
  /\ UNCHANGED <<own, left, broken>>

\* An alteration that replaces what it finds adopts a copy left behind.
Alter(i) ==
  /\ held
  /\ i \notin own
  /\ own' = own \cup {i}
  /\ left' \in {left, [left EXCEPT ![i] = 0]}
  /\ UNCHANGED <<held, broken>>

Undo(i) ==
  /\ i \in own
  /\ own' = own \ {i}
  /\ UNCHANGED <<held, left, broken>>

\* An undo fails and is not tried again, or it turns out not to be needed.
Forget(i) ==
  /\ i \in own
  /\ own' = own \ {i}
  /\ left' = [left EXCEPT ![i] = @ + 1]
  /\ broken' = TRUE
  /\ UNCHANGED held

\* An alteration fails, and those made before it are not undone.
Abandon ==
  /\ own' = {}
  /\ left' = [i \in Item |-> IF i \in own THEN left[i] + 1 ELSE left[i]]
  /\ broken' = TRUE
  /\ UNCHANGED held

GiveUp ==
  /\ held
  /\ own = {}
  /\ held' = FALSE
  /\ UNCHANGED <<own, left, broken>>

\* Other failures, of an alteration that is then not made.
Fail ==
  /\ broken' = TRUE
  /\ UNCHANGED <<held, own, left>>

Die ==
  /\ held' = FALSE
  /\ own' = {}
  /\ left' = [i \in Item |-> IF i \in own THEN left[i] + 1 ELSE left[i]]
  /\ broken' = TRUE

PromiseNext ==
  \/ Take \/ GiveUp \/ Fail \/ Die
  \/ \E i \in Item : Alter(i) \/ Undo(i) \/ Forget(i)

PromiseSpec == PromiseInit /\ [][PromiseNext]_promise

\* The promise of an agent that may give up half way through its alterations.
LoosePromiseNext == PromiseNext \/ Abandon
LoosePromiseSpec == PromiseInit /\ [][LoosePromiseNext]_promise
=============================================================================
