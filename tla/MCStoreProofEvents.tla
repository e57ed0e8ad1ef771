-------------------------- MODULE MCStoreProofEvents --------------------------
(* StoreProofEvents on small instances. *)
EXTENDS StoreProofEvents

OneProvider == [c \in Contracts |-> 1]
=============================================================================
