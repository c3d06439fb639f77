--------------------------- MODULE MCMigrationJobs ---------------------------
(***************************************************************************)
(* Instances of MigrationJobs for TLC.                                     *)
(***************************************************************************)
EXTENDS MigrationJobs, TLC

ChainSymmetry == Permutations(Chains)
=============================================================================
