------------------------------ MODULE MCFusion ------------------------------
(***************************************************************************)
(* Instances of Fusion for TLC.                                            *)
(***************************************************************************)
EXTENDS Fusion

\* Any two evaluated fixes may follow each other, with skipped ones between.
AllSteps == (-MaxTime) .. MaxTime

\* A repeated time stamp, a regular fix and a dropout.
FixStepsMonotone == {0, 1, 2}
=============================================================================
