---------------------------- MODULE MCImuSource -----------------------------
(***************************************************************************)
(* An instance of ImuSource for TLC.                                       *)
(***************************************************************************)
EXTENDS ImuSource
=============================================================================
