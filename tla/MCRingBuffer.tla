---------------------------- MODULE MCRingBuffer ----------------------------
(***************************************************************************)
(* Small instances of MPSCRingBuffer for TLC.                              *)
(***************************************************************************)
EXTENDS MPSCRingBuffer
=============================================================================
