-------------------------- MODULE MCLoggerBackend --------------------------
(***************************************************************************)
(* Small instances of LoggerBackend for TLC.  Liveness is checked, so no   *)
(* symmetry is declared.                                                   *)
(***************************************************************************)
EXTENDS LoggerBackend
=============================================================================
