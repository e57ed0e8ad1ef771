--------------------------- MODULE RunChecksShard ---------------------------
(***************************************************************************)
(* How one RunChecks pass is split over the agents and put together again: *)
(* whole providers are handed out greedily, the ones with most bags first, *)
(* each to the agent that last proved it (sticky), or else to the agent    *)
(* with fewest bags so far; a retry excludes the agent the main pass used. *)
(*                                                                         *)
(* The result of the loop is stated here without the loop: an assignment   *)
(* is right when every provider sits where pickAgent puts it given the     *)
(* loads of the providers that precede it in the processing order.         *)
(* RunChecksPass has the loop itself, one iteration per step.              *)
(***************************************************************************)
EXTENDS Integers, FiniteSets

CONSTANTS
  Contracts,    \* rows of storage_contracts: one bag stored by one provider
  Providers,    \* providers, numbered in the order of their public keys
  ProviderOf,   \* the provider of each contract row
  Endpoints     \* agents, numbered in the order of AGENT_ENDPOINTS

ASSUME ShardAssumption ==
  /\ IsFiniteSet(Contracts)
  /\ Providers \subseteq Nat
  /\ ProviderOf \in [Contracts -> Providers]
  /\ Endpoints \subseteq Nat \ {0}

\* The empty endpoint string: nothing assigned, nothing excluded, no sticky.
NoAgent == 0

Agent == Endpoints \union {NoAgent}

Bags(todo, p) == {c \in todo : ProviderOf[c] = p}

\* sort.SliceStable: more bags first, then the smaller public key.
Precedes(todo, p, q) ==
  LET np == Cardinality(Bags(todo, p))
      nq == Cardinality(Bags(todo, q))
  IN  np > nq \/ (np = nq /\ p < q)

\* The load an agent has when provider p is handed out.
loads(todo, a, p) ==
  [e \in Endpoints |->
     Cardinality({c \in todo : /\ a[ProviderOf[c]] = e
                               /\ Precedes(todo, ProviderOf[c], p)})]

\* Mutant: a retry may go back to the agent that failed.
candidatesAll(excluded) == Endpoints

candidates(excluded) ==
  IF Cardinality(Endpoints) > 1 THEN Endpoints \ {excluded} ELSE Endpoints

\* Mutant: the agent with the highest load wins.
pickAgentHeaviest(cands, load, stickyEndpoint) ==
  IF stickyEndpoint \in cands
  THEN {stickyEndpoint}
  ELSE {e \in cands : \A f \in cands : load[f] < load[e] \/ (load[f] = load[e] /\ e <= f)}

\* The agent pickAgent returns, as a set of one element: the sticky one if it
\* is a candidate, else the first candidate of least load.
pickAgent(cands, load, stickyEndpoint) ==
  IF stickyEndpoint \in cands
  THEN {stickyEndpoint}
  ELSE {e \in cands : \A f \in cands : load[e] < load[f] \/ (load[e] = load[f] /\ e <= f)}

\* The assignments (there is exactly one) the greedy loop produces for the
\* providers in batch, out of the contracts todo.
assignProvidersToAgents(todo, batch, sticky, exclude) ==
  {a \in [Providers -> Agent] :
     \A p \in Providers :
       IF p \in batch
       THEN a[p] \in pickAgent(candidates(exclude[p]), loads(todo, a, p), sticky[p])
       ELSE a[p] = NoAgent}

\* The agents of the non-empty shards that answered; the others errored.
Answers(a) == (SUBSET {a[p] : p \in {q \in Providers : a[q] # NoAgent}}) \ {{}}

\* mergeRunChecksResponses: what the agent in charge of the bag found.
merged(c, a, answered, verdict) ==
  IF a[ProviderOf[c]] \in answered THEN verdict[c] ELSE "NotFound"
=============================================================================
