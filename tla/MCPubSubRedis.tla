---------------------------- MODULE MCPubSubRedis ----------------------------
(***************************************************************************)
(* Instances of PubSubRedis for TLC.                                       *)
(***************************************************************************)
EXTENDS PubSubRedis, TLC

SubSymmetry == Permutations(Subs)
=============================================================================
