---------------------------- MODULE MCRunChecksPass ----------------------------
(***************************************************************************)
(* A pass over every small input: which bags are due, which providers have *)
(* an endpoint, and any sticky and exclude maps; then the calls.           *)
(***************************************************************************)
EXTENDS RunChecksPass

MCProviderOf == [c1 |-> 1, c2 |-> 1, c3 |-> 2, c4 |-> 3]
=============================================================================
