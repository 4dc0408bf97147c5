------------------------------ MODULE MCLogger ------------------------------
(***************************************************************************)
(* Small instances of Logger for TLC.  The threads that log are            *)
(* interchangeable.                                                        *)
(***************************************************************************)
EXTENDS Logger, TLC

Symmetry == Permutations(Loggers)
=============================================================================
