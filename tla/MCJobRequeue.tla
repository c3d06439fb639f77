----------------------------- MODULE MCJobRequeue -----------------------------
(***************************************************************************)
(* Instances of JobRequeue for TLC.                                        *)
(***************************************************************************)
EXTENDS JobRequeue, TLC

JobSymmetry == Permutations(Jobs) \cup Permutations(Workers)
=============================================================================
