--------------------------- MODULE MCRtbReadback ---------------------------
(***************************************************************************)
(* An instance of RtbReadback for TLC.                                     *)
(***************************************************************************)
EXTENDS RtbReadback

CONSTANTS stabilize, rtl

TwoAlarms == {1, 2}
TwoModes == {stabilize, rtl}
OneRtlMode == {rtl}
=============================================================================
