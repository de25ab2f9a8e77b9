-------------------------- MODULE MCSeverReadback --------------------------
(***************************************************************************)
(* An instance of SeverReadback for TLC.                                   *)
(***************************************************************************)
EXTENDS SeverReadback

CONSTANTS gps_type, p1

TwoAlarms == {1, 2}
OneOther == {p1}
=============================================================================
