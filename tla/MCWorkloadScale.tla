--------------------------- MODULE MCWorkloadScale ---------------------------
(***************************************************************************)
(* WorkloadScale for TLC: integers of four bits, percentages in halves.    *)
(***************************************************************************)
EXTENDS WorkloadScale

Change(kind, amount) ==
  [kind : {kind}, amount : {amount}, autoRevert : {"yes", "no"}]

\* Scale to zero, add so much that the sum wraps around, remove two, halve.
ScaleFaults ==
  Change("replicas", 0) \cup Change("delta", Half - 1) \cup Change("delta", -2)
    \cup Change("percentage", 1)
=============================================================================
