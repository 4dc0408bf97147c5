---------------------------- MODULE MCLogContext ----------------------------
(***************************************************************************)
(* Small instances of LogContext for TLC.  Threads, names and values are   *)
(* interchangeable.                                                        *)
(***************************************************************************)
EXTENDS LogContext

Symmetry == Permutations(Threads) \cup Permutations(Names) \cup Permutations(Values)
=============================================================================
