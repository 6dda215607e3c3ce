----------------------------- MODULE MCPodVisit -----------------------------
(***************************************************************************)
(* PodVisit for TLC: one user visits two pods, another one of them; the    *)
(* pod they do not share has the agent container already.  Calls of the    *)
(* first user's visitors fail, but for the cleanup command, which fails    *)
(* together with the connection for those of the second.                   *)
(***************************************************************************)
EXTENDS PodVisit, TLC

CONSTANTS alice, bob, own, shared

Users == {alice, bob}
Pods == {own, shared}
Aims == (alice :> {own, shared}) @@ (bob :> {shared})
Faults == (alice :> {"get", "patch", "wait", "commands", "exec"}) @@ (bob :> {"stream", "cleanup"})
=============================================================================
