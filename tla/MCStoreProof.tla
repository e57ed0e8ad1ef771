----------------------------- MODULE MCStoreProof -----------------------------
(* StoreProof on small instances. *)
EXTENDS StoreProof

\* Two bags of one provider.
OneProvider == [c \in Contracts |-> 1]

\* Two providers with one bag each.
TwoProviders == [c1 |-> 1, c2 |-> 2]
=============================================================================
