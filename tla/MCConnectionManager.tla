------------------------- MODULE MCConnectionManager -------------------------
(***************************************************************************)
(* Instances of ConnectionManager for TLC.                                 *)
(***************************************************************************)
EXTENDS ConnectionManager, TLC

CallSymmetry == Permutations(Servers) \cup Permutations(Gets) \cup Permutations(Edits)
=============================================================================
