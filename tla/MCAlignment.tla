---------------------------- MODULE MCAlignment -----------------------------
(***************************************************************************)
(* An instance of Alignment for TLC.                                       *)
(***************************************************************************)
EXTENDS Alignment
=============================================================================
