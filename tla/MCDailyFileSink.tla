-------------------------- MODULE MCDailyFileSink ---------------------------
(***************************************************************************)
(* Small instances of DailyFileSink for TLC.                               *)
(***************************************************************************)
EXTENDS DailyFileSink
=============================================================================
