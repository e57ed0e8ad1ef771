---------------------------- MODULE MCProviderCheck ----------------------------
(* ProviderCheck with few bags and workers. *)
EXTENDS ProviderCheck
=============================================================================
