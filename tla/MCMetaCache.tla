----------------------------- MODULE MCMetaCache -----------------------------
(***************************************************************************)
(* Instances of MetaCache for TLC.                                         *)
(***************************************************************************)
EXTENDS MetaCache, TLC

\* Nothing is claimed of a row that has been raced: a state in which all are is not
\* explored further.
SomeNotRaced == raced # Items

CacheSymmetry == Permutations(Items) \cup Permutations(Lists) \cup Permutations(Calls)
=============================================================================
