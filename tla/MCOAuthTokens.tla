---------------------------- MODULE MCOAuthTokens ----------------------------
(***************************************************************************)
(* Instances of OAuthTokens for TLC.                                       *)
(***************************************************************************)
EXTENDS OAuthTokens, TLC

RequestSymmetry == Permutations(Requests)
=============================================================================
