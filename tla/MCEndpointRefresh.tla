--------------------------- MODULE MCEndpointRefresh ---------------------------
(***************************************************************************)
(* One provider that moves between two hosts, both workers and every fault. *)
(***************************************************************************)
EXTENDS EndpointRefresh

TwoHosts == <<[prov |-> 1, stor |-> 1], [prov |-> 2, stor |-> 2]>>
=============================================================================
