----------------------------- MODULE MCShutdown -----------------------------
(***************************************************************************)
(* An instance of Shutdown for TLC.                                        *)
(***************************************************************************)
EXTENDS Shutdown
=============================================================================
