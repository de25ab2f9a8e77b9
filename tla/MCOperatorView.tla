--------------------------- MODULE MCOperatorView ---------------------------
(***************************************************************************)
(* An instance of OperatorView for TLC.                                    *)
(***************************************************************************)
EXTENDS OperatorView
=============================================================================
