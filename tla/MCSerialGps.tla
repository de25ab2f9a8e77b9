---------------------------- MODULE MCSerialGps -----------------------------
(***************************************************************************)
(* An instance of SerialGps for TLC.                                       *)
(***************************************************************************)
EXTENDS SerialGps
=============================================================================
