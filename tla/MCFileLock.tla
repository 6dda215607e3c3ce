---------------------------- MODULE MCFileLock ----------------------------
(***************************************************************************)
(* FileLock for TLC: three agent processes, the fewest that can place two  *)
(* takeovers of one stale lock against each other.                         *)
(***************************************************************************)
EXTENDS FileLock, TLC

\* The agents differ only in their pids.
Symmetry == Permutations(Pid)
=============================================================================
