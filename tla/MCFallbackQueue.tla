---------------------------- MODULE MCFallbackQueue ----------------------------
(***************************************************************************)
(* Instances of FallbackQueue for TLC.                                     *)
(***************************************************************************)
EXTENDS FallbackQueue
=============================================================================
