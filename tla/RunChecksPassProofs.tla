-------------------------- MODULE RunChecksPassProofs --------------------------
(***************************************************************************)
(* Proofs about one RunChecks pass, for any bags, providers, agents, maps  *)
(* and times: the greedy loop has exactly one result, the one stated       *)
(* without the loop, and it balances the agents; agents that are not lost  *)
(* answer in time; what a deadline or a lost agent did to a bag is never   *)
(* committed; a merged pass is one StoreProof allows.                      *)
(***************************************************************************)
EXTENDS RunChecksPass, FiniteSetTheorems, TLAPS

-----------------------------------------------------------------------------
(* Least elements and counts *)

\* A set of numbers has a least element: the form of induction used below.
LEMMA LeastNumber ==
  ASSUME NEW N \in SUBSET Nat, N # {}
  PROVE  \E n \in N : \A m \in N : n <= m
<1> DEFINE Less == OpToRel(<, Nat)
<1>1. IsWellFoundedOn(Less, Nat)
  BY NatLessThanWellFounded, Zenon
<1>2. \A m, n \in Nat : m < n => <<m, n>> \in Less
  BY Zenon DEF OpToRel
<1> HIDE DEF Less
<1>3. PICK n \in N : \A m \in N : ~(<<m, n>> \in Less)
  BY <1>1, WFMin
<1>4. \A m \in N : ~(m < n)
  BY <1>2, <1>3
<1> QED BY <1>4

\* Bags are finitely many, so they can be counted.
LEMMA BagsCounted ==
  ASSUME NEW S \in SUBSET Contracts
  PROVE  IsFiniteSet(S) /\ Cardinality(S) \in Nat
  BY ShardAssumption, FS_Subset, FS_CardinalityType

\* More bags are never fewer, and strictly more when one is added.
LEMMA CountsGrow ==
  ASSUME NEW S \in SUBSET Contracts, NEW R \in SUBSET S
  PROVE  /\ Cardinality(R) <= Cardinality(S)
         /\ R # S => Cardinality(R) < Cardinality(S)
<1>1. IsFiniteSet(S) /\ Cardinality(S) \in Nat /\ Cardinality(R) \in Nat
  BY BagsCounted
<1>2. Cardinality(R) <= Cardinality(S) /\ (Cardinality(S) = Cardinality(R) => S = R)
  BY <1>1, FS_Subset
<1> QED BY <1>1, <1>2

-----------------------------------------------------------------------------
(* The processing order of assignProvidersToAgents *)

\* The order is a strict total order, whatever bags the providers have: the
\* comparison of sort.SliceStable leaves nothing to the order of the input.
LEMMA OrderIsTotal ==
  ASSUME NEW T \in SUBSET Contracts
  PROVE  /\ \A p \in Providers : ~Precedes(T, p, p)
         /\ \A p, q \in Providers : p # q => Precedes(T, p, q) \/ Precedes(T, q, p)
         /\ \A p, q, r \in Providers : Precedes(T, p, q) /\ Precedes(T, q, r) => Precedes(T, p, r)
<1>1. \A p \in Providers : p \in Nat /\ Cardinality(Bags(T, p)) \in Nat
  BY ShardAssumption, BagsCounted DEF Bags
<1> QED BY <1>1 DEF Precedes

\* The bags handed out before provider p.
Before(T, p) == {c \in T : Precedes(T, ProviderOf[c], p)}

\* A provider that is handed out earlier has fewer bags before it.
LEMMA BeforeGrows ==
  ASSUME NEW T \in SUBSET Contracts, NEW p \in Providers, NEW c \in Before(T, p)
  PROVE  /\ Cardinality(Before(T, p)) \in Nat
         /\ Cardinality(Before(T, ProviderOf[c])) \in Nat
         /\ Cardinality(Before(T, ProviderOf[c])) < Cardinality(Before(T, p))
<1> DEFINE q == ProviderOf[c]
<1>1. c \in T /\ q \in Providers /\ Precedes(T, q, p)
  BY ShardAssumption DEF Before
<1>2. Before(T, q) \subseteq Before(T, p)
  <2> SUFFICES ASSUME NEW d \in Before(T, q) PROVE d \in Before(T, p)
    OBVIOUS
  <2>1. d \in T /\ ProviderOf[d] \in Providers /\ Precedes(T, ProviderOf[d], q)
    BY ShardAssumption DEF Before
  <2>2. Precedes(T, ProviderOf[d], p)
    BY <1>1, <2>1, OrderIsTotal
  <2> QED BY <2>1, <2>2 DEF Before
<1>3. c \notin Before(T, q)
  BY <1>1, OrderIsTotal DEF Before
<1>4. Before(T, p) \in SUBSET Contracts /\ Before(T, q) \in SUBSET Contracts
  BY DEF Before
<1> QED BY <1>2, <1>3, <1>4, BagsCounted, CountsGrow

\* The load of an agent is a number.
LEMMA LoadsAreNumbers ==
  ASSUME NEW T \in SUBSET Contracts, NEW a, NEW p, NEW e \in Endpoints
  PROVE  loads(T, a, p)[e] \in Nat
<1>1. loads(T, a, p)[e] = Cardinality({c \in T : a[ProviderOf[c]] = e /\ Precedes(T, ProviderOf[c], p)})
  BY DEF loads
<1> QED BY <1>1, BagsCounted

\* Two assignments that agree on the bags before p give the agents the same loads
\* when p is handed out.
LEMMA LoadsLookBack ==
  ASSUME NEW T, NEW a, NEW b, NEW p,
         \A c \in Before(T, p) : a[ProviderOf[c]] = b[ProviderOf[c]]
  PROVE  loads(T, a, p) = loads(T, b, p)
<1>1. \A e \in Endpoints :
        {c \in T : a[ProviderOf[c]] = e /\ Precedes(T, ProviderOf[c], p)}
          = {c \in T : b[ProviderOf[c]] = e /\ Precedes(T, ProviderOf[c], p)}
  BY DEF Before
<1> QED BY <1>1 DEF loads

-----------------------------------------------------------------------------
(* pickAgent *)

\* pickAgent returns one of its candidates, and there is only one it can return.
LEMMA PickIsUnique ==
  ASSUME NEW cands \in SUBSET Endpoints, NEW L, \A e \in Endpoints : L[e] \in Nat, NEW s
  PROVE  /\ pickAgent(cands, L, s) \subseteq cands
         /\ \A e, f \in pickAgent(cands, L, s) : e = f
<1>1. pickAgent(cands, L, s) \subseteq cands
  BY DEF pickAgent
<1>2. ASSUME NEW e \in pickAgent(cands, L, s), NEW f \in pickAgent(cands, L, s)
      PROVE  e = f
  <2>1. CASE s \in cands
    BY <1>2, <2>1 DEF pickAgent
  <2>2. CASE s \notin cands
    <3>1. /\ e \in Nat /\ f \in Nat /\ L[e] \in Nat /\ L[f] \in Nat
      BY <1>1, <1>2, ShardAssumption
    <3>2. L[e] < L[f] \/ (L[e] = L[f] /\ e <= f)
      BY <1>1, <1>2, <2>2 DEF pickAgent
    <3>3. L[f] < L[e] \/ (L[f] = L[e] /\ f <= e)
      BY <1>1, <1>2, <2>2 DEF pickAgent
    <3> QED BY <3>1, <3>2, <3>3
  <2> QED BY <2>1, <2>2
<1> QED BY <1>1, <1>2

\* With a candidate pickAgent finds one: a sticky one, or the first of least load.
LEMMA PickExists ==
  ASSUME NEW cands \in SUBSET Endpoints, cands # {},
         NEW L, \A e \in Endpoints : L[e] \in Nat, NEW s
  PROVE  pickAgent(cands, L, s) # {}
<1>1. CASE s \in cands
  BY <1>1 DEF pickAgent
<1>2. CASE s \notin cands
  <2>1. {L[e] : e \in cands} \in SUBSET Nat /\ {L[e] : e \in cands} # {}
    OBVIOUS
  <2>2. PICK n \in {L[e] : e \in cands} : \A m \in {L[e] : e \in cands} : n <= m
    BY <2>1, LeastNumber
  <2>3. {e \in cands : L[e] = n} \in SUBSET Nat /\ {e \in cands : L[e] = n} # {}
    BY <2>2, ShardAssumption
  <2>4. PICK e \in {d \in cands : L[d] = n} : \A f \in {d \in cands : L[d] = n} : e <= f
    BY <2>3, LeastNumber
  <2>5. \A f \in cands : L[e] < L[f] \/ (L[e] = L[f] /\ e <= f)
    BY <2>2, <2>4
  <2> QED BY <1>2, <2>4, <2>5 DEF pickAgent
<1> QED BY <1>1, <1>2

\* An exclusion never leaves a provider without candidates.
LEMMA CandidatesExist ==
  ASSUME Endpoints # {}, NEW x
  PROVE  candidates(x) \in SUBSET Endpoints /\ candidates(x) # {}
<1>1. CASE Cardinality(Endpoints) > 1
  <2>1. Endpoints # {x}
    <3>1. Cardinality({x}) = 1
      BY FS_Singleton
    <3> QED BY <1>1, <3>1
  <2> QED BY <1>1, <2>1 DEF candidates
<1>2. CASE ~(Cardinality(Endpoints) > 1)
  BY <1>2 DEF candidates
<1> QED BY <1>1, <1>2

-----------------------------------------------------------------------------
(* assignProvidersToAgents *)

\* Two results of the greedy hand-out agree: the first provider, in processing
\* order, on which they differ was picked from the same loads.
LEMMA GreedyIsUnique ==
  ASSUME NEW T \in SUBSET Contracts, NEW B, NEW s, NEW x,
         NEW a \in assignProvidersToAgents(T, B, s, x),
         NEW b \in assignProvidersToAgents(T, B, s, x)
  PROVE  a = b
<1> DEFINE Differ == {p \in Providers : a[p] # b[p]}
           Early(p) == Cardinality(Before(T, p))
<1>1. /\ a \in [Providers -> Agent] /\ b \in [Providers -> Agent]
      /\ \A p \in Providers :
           /\ p \in B => a[p] \in pickAgent(candidates(x[p]), loads(T, a, p), s[p])
           /\ p \in B => b[p] \in pickAgent(candidates(x[p]), loads(T, b, p), s[p])
           /\ p \notin B => a[p] = b[p]
  BY DEF assignProvidersToAgents
<1> SUFFICES ASSUME Differ # {} PROVE FALSE
  BY <1>1
<1>2. \A p \in Providers : Early(p) \in Nat
  BY BagsCounted DEF Before
<1>3. {Early(p) : p \in Differ} \in SUBSET Nat /\ {Early(p) : p \in Differ} # {}
  BY <1>2
<1>4. PICK n \in {Early(p) : p \in Differ} : \A m \in {Early(p) : p \in Differ} : n <= m
  BY <1>3, LeastNumber
<1>5. PICK p \in Differ : Early(p) = n
  BY <1>4
<1>6. ASSUME NEW c \in Before(T, p) PROVE a[ProviderOf[c]] = b[ProviderOf[c]]
  <2>1. ProviderOf[c] \in Providers
    BY ShardAssumption DEF Before
  <2>2. Early(ProviderOf[c]) < n /\ Early(ProviderOf[c]) \in Nat /\ n \in Nat
    BY <1>5, BeforeGrows
  <2>3. ProviderOf[c] \in Differ => n <= Early(ProviderOf[c])
    BY <1>4
  <2> QED BY <2>1, <2>2, <2>3
<1>7. loads(T, a, p) = loads(T, b, p)
  BY <1>6, LoadsLookBack
<1>8. candidates(x[p]) \in SUBSET Endpoints
  BY DEF candidates
<1>9. \A e \in Endpoints : loads(T, a, p)[e] \in Nat
  BY LoadsAreNumbers
<1>10. /\ a[p] \in pickAgent(candidates(x[p]), loads(T, a, p), s[p])
       /\ b[p] \in pickAgent(candidates(x[p]), loads(T, a, p), s[p])
       /\ a[p] # b[p]
  BY <1>1, <1>5, <1>7
<1> QED BY <1>8, <1>9, <1>10, PickIsUnique

\* With an agent to give them to, the providers can be handed out: one more of
\* them at every stage.
LEMMA GreedyExists ==
  ASSUME Endpoints # {}, NEW T \in SUBSET Contracts, NEW B, NEW s, NEW x
  PROVE  assignProvidersToAgents(T, B, s, x) # {}
<1> DEFINE Early(p) == Cardinality(Before(T, p))
           Pick(a, p) == pickAgent(candidates(x[p]), loads(T, a, p), s[p])
           Stage(n) == {a \in [Providers -> Agent] :
                          \A p \in Providers :
                            /\ p \notin B => a[p] = NoAgent
                            /\ p \in B /\ Early(p) < n => a[p] \in Pick(a, p)}
<1>1. \A p \in Providers : Early(p) \in Nat /\ Early(p) <= Cardinality(T)
  <2> TAKE p \in Providers
  <2>1. Before(T, p) \in SUBSET T
    BY DEF Before
  <2> QED BY <2>1, BagsCounted, CountsGrow
<1>2. \A a, p : Pick(a, p) # {} /\ Pick(a, p) \subseteq Endpoints
  <2> TAKE a, p
  <2>1. \A e \in Endpoints : loads(T, a, p)[e] \in Nat
    BY LoadsAreNumbers
  <2>2. candidates(x[p]) \in SUBSET Endpoints /\ candidates(x[p]) # {}
    BY CandidatesExist
  <2>3. Pick(a, p) # {} /\ Pick(a, p) \subseteq candidates(x[p])
    BY <2>1, <2>2, PickExists, PickIsUnique
  <2> QED BY <2>2, <2>3
<1>3. \A a, b, p : (\A c \in Before(T, p) : a[ProviderOf[c]] = b[ProviderOf[c]])
                      => Pick(a, p) = Pick(b, p)
  <2> TAKE a, b, p
  <2> HAVE \A c \in Before(T, p) : a[ProviderOf[c]] = b[ProviderOf[c]]
  <2>1. loads(T, a, p) = loads(T, b, p)
    BY LoadsLookBack
  <2> QED BY <2>1
<1>4. \A p \in Providers : \A c \in Before(T, p) :
        ProviderOf[c] \in Providers /\ Early(ProviderOf[c]) < Early(p)
  BY BeforeGrows, ShardAssumption DEF Before
<1>5. \A n \in Nat : Stage(n) # {}
  <2> DEFINE Stuck == {n \in Nat : Stage(n) = {}}
  <2> SUFFICES ASSUME Stuck # {} PROVE FALSE
    OBVIOUS
  <2>1. PICK n \in Stuck : \A m \in Stuck : n <= m
    <3>1. Stuck \in SUBSET Nat
      OBVIOUS
    <3> HIDE DEF Stuck
    <3> QED BY <3>1, LeastNumber
  <2>2. CASE n = 0
    <3>1. [p \in Providers |-> NoAgent] \in Stage(0)
      BY <1>1 DEF Agent
    <3> QED BY <2>1, <2>2, <3>1
  <2>3. CASE n # 0
    <3>1. n - 1 \in Nat /\ n - 1 \notin Stuck
      BY <2>1, <2>3
    <3>2. PICK a : a \in Stage(n - 1)
      BY <3>1
    <3> DEFINE b == [p \in Providers |->
                       IF p \in B /\ Early(p) = n - 1 THEN CHOOSE e : e \in Pick(a, p) ELSE a[p]]
    <3>3. a \in [Providers -> Agent]
      BY <3>2
    <3> HIDE DEF Pick
    <3>4. \A p : (CHOOSE e : e \in Pick(a, p)) \in Pick(a, p)
      <4> TAKE p
      <4>1. \E e : e \in Pick(a, p)
        BY <1>2
      <4> QED BY <4>1, Zenon
    <3>5. b \in [Providers -> Agent]
      BY <1>2, <3>3, <3>4 DEF Agent
    <3>6. ASSUME NEW p \in Providers, p \in B, Early(p) < n
          PROVE  b[p] \in Pick(b, p)
      <4>1. \A c \in Before(T, p) : b[ProviderOf[c]] = a[ProviderOf[c]]
        BY <1>1, <1>4, <2>1, <3>1, <3>6
      <4>2. Pick(b, p) = Pick(a, p)
        BY <1>3, <4>1
      <4>3. CASE Early(p) = n - 1
        BY <3>4, <3>6, <4>2, <4>3
      <4>4. CASE Early(p) # n - 1
        <5>1. Early(p) < n - 1
          BY <1>1, <2>1, <3>6, <4>4
        <5> QED BY <3>2, <3>6, <4>2, <4>4, <5>1
      <4> QED BY <4>3, <4>4
    <3>7. \A p \in Providers : p \notin B => b[p] = NoAgent
      BY <3>2
    <3>8. b \in Stage(n)
      BY <3>5, <3>6, <3>7
    <3> QED BY <2>1, <3>8
  <2> QED BY <2>2, <2>3
<1>6. Cardinality(T) + 1 \in Nat
  BY BagsCounted
<1>7. PICK a : a \in Stage(Cardinality(T) + 1)
  BY <1>5, <1>6
<1>8. \A p \in Providers : Early(p) < Cardinality(T) + 1
  BY <1>1, BagsCounted
<1>9. a \in assignProvidersToAgents(T, B, s, x)
  <2>1. a \in [Providers -> Agent]
    BY <1>7
  <2>2. \A p \in Providers : IF p \in B THEN a[p] \in Pick(a, p) ELSE a[p] = NoAgent
    BY <1>7, <1>8
  <2> QED BY <2>1, <2>2 DEF assignProvidersToAgents
<1> QED BY <1>9

\* Whatever the bags, the maps and the agents, the greedy loop has exactly one
\* result: nothing depends on the iteration order of a Go map
\* (assignProvidersToAgents, pickAgent).
THEOREM GreedyIsDetermined ==
  ASSUME Endpoints # {}, NEW T \in SUBSET Contracts, NEW B, NEW s, NEW x
  PROVE  \E a : assignProvidersToAgents(T, B, s, x) = {a}
<1>1. PICK a : a \in assignProvidersToAgents(T, B, s, x)
  BY GreedyExists
<1>2. \A b \in assignProvidersToAgents(T, B, s, x) : b = a
  BY <1>1, GreedyIsUnique
<1> QED BY <1>1, <1>2, Zenon

-----------------------------------------------------------------------------
(* One iteration of the loop *)

\* The bags handed to agent e.
Handed(T, a, e) == {c \in T : a[ProviderOf[c]] = e}

\* When every provider handed out so far precedes p, the loads before p are all
\* the bags handed out.
LEMMA LoadsAreComplete ==
  ASSUME NEW T \in SUBSET Contracts, NEW D \in SUBSET Providers, NEW s, NEW x,
         NEW a \in assignProvidersToAgents(T, D, s, x),
         NEW p \in Providers, \A q \in D : Precedes(T, q, p)
  PROVE  loads(T, a, p) = [e \in Endpoints |-> Cardinality(Handed(T, a, e))]
<1>1. \A q \in Providers : q \notin D => a[q] \notin Endpoints
  BY ShardAssumption DEF assignProvidersToAgents, NoAgent
<1>2. \A c \in T : a[ProviderOf[c]] \in Endpoints => Precedes(T, ProviderOf[c], p)
  BY <1>1, ShardAssumption
<1>3. \A e \in Endpoints :
        {c \in T : a[ProviderOf[c]] = e /\ Precedes(T, ProviderOf[c], p)} = Handed(T, a, e)
  BY <1>2 DEF Handed
<1> QED BY <1>3 DEF loads

\* Handing out one more provider, behind all the others, keeps the hand-out right:
\* nobody's loads look at it.
LEMMA GreedyExtends ==
  ASSUME NEW T \in SUBSET Contracts, NEW D \in SUBSET Providers, NEW s, NEW x,
         NEW a \in assignProvidersToAgents(T, D, s, x),
         NEW p \in Providers \ D, \A q \in D : Precedes(T, q, p),
         NEW g \in pickAgent(candidates(x[p]), loads(T, a, p), s[p])
  PROVE  [a EXCEPT ![p] = g] \in assignProvidersToAgents(T, D \union {p}, s, x)
<1> DEFINE b == [a EXCEPT ![p] = g]
           Pick(d, q) == pickAgent(candidates(x[q]), loads(T, d, q), s[q])
<1>1. /\ a \in [Providers -> Agent]
      /\ \A q \in Providers : IF q \in D THEN a[q] \in Pick(a, q) ELSE a[q] = NoAgent
  BY DEF assignProvidersToAgents
<1>2. g \in Endpoints
  BY DEF pickAgent, candidates
<1>3. b \in [Providers -> Agent] /\ b[p] = g /\ \A q \in Providers \ {p} : b[q] = a[q]
  BY <1>1, <1>2 DEF Agent
<1>4. ASSUME NEW q \in D \union {p} PROVE loads(T, b, q) = loads(T, a, q)
  <2>1. ~Precedes(T, p, q)
    BY <1>4, OrderIsTotal
  <2>2. \A c \in Before(T, q) : ProviderOf[c] \in Providers \ {p}
    BY <2>1, ShardAssumption DEF Before
  <2>3. \A c \in Before(T, q) : b[ProviderOf[c]] = a[ProviderOf[c]]
    BY <1>3, <2>2
  <2> HIDE DEF b
  <2> QED BY <2>3, LoadsLookBack
<1>5. ASSUME NEW q \in Providers
      PROVE  IF q \in D \union {p} THEN b[q] \in Pick(b, q) ELSE b[q] = NoAgent
  <2> HIDE DEF b
  <2>1. CASE q \in D \union {p}
    <3>1. Pick(b, q) = Pick(a, q)
      BY <1>4, <2>1
    <3> QED BY <1>1, <1>3, <2>1, <3>1
  <2>2. CASE q \notin D \union {p}
    BY <1>1, <1>3, <2>2
  <2> QED BY <2>1, <2>2
<1> HIDE DEF b
<1>6. b \in assignProvidersToAgents(T, D \union {p}, s, x)
  BY <1>3, <1>5 DEF assignProvidersToAgents
<1> QED BY <1>6 DEF b

\* It adds the provider's bags to one agent and to no other.
LEMMA LoadAdds ==
  ASSUME NEW T \in SUBSET Contracts, NEW a \in [Providers -> Agent],
         NEW p \in Providers, a[p] = NoAgent, NEW g \in Endpoints
  PROVE  LET b == [a EXCEPT ![p] = g]
         IN  /\ Cardinality(Handed(T, b, g)) = Cardinality(Handed(T, a, g)) + Cardinality(Bags(T, p))
             /\ \A e \in Endpoints \ {g} : Handed(T, b, e) = Handed(T, a, e)
<1> DEFINE b == [a EXCEPT ![p] = g]
           Old == Handed(T, a, g)
<1>1. \A c \in T : ProviderOf[c] \in Providers
  BY ShardAssumption
<1>2. NoAgent \notin Endpoints
  BY ShardAssumption DEF NoAgent
<1>3. /\ Old \in SUBSET Contracts /\ Bags(T, p) \in SUBSET Contracts
      /\ Old \intersect Bags(T, p) = {}
  BY <1>2 DEF Bags, Handed
<1>4. Handed(T, b, g) = Old \union Bags(T, p)
  BY <1>1, <1>2 DEF Bags, Handed
<1>5. \A e \in Endpoints \ {g} : Handed(T, b, e) = Handed(T, a, e)
  BY <1>1, <1>2 DEF Handed
<1> HIDE DEF Old, b
<1>6. /\ IsFiniteSet(Old) /\ Cardinality(Old) \in Nat
      /\ IsFiniteSet(Bags(T, p)) /\ Cardinality(Bags(T, p)) \in Nat
  BY <1>3, BagsCounted
<1>7. Cardinality(Old \union Bags(T, p)) = Cardinality(Old) + Cardinality(Bags(T, p))
  <2>1. Cardinality(Old \union Bags(T, p))
          = Cardinality(Old) + Cardinality(Bags(T, p)) - Cardinality(Old \intersect Bags(T, p))
    BY <1>6, FS_Union
  <2>2. Cardinality(Old \intersect Bags(T, p)) = 0
    BY <1>3, FS_EmptySet
  <2> QED BY <1>6, <2>1, <2>2
<1> QED BY <1>4, <1>5, <1>7 DEF Old, b

-----------------------------------------------------------------------------
(* Balance *)

\* Every other provider with bags on agent e comes before q.
IsLast(T, a, e, q) ==
  \A c \in T : a[ProviderOf[c]] = e => ProviderOf[c] = q \/ Precedes(T, ProviderOf[c], q)

\* There is a last provider in a shard.
LEMMA LastOfShard ==
  ASSUME NEW T \in SUBSET Contracts, NEW B \in SUBSET Providers, NEW a, NEW e,
         {q \in Providers : a[q] = e} \subseteq B,
         NEW p \in B, a[p] = e
  PROVE  \E q \in B : a[q] = e /\ IsLast(T, a, e, q)
<1> DEFINE Mine == {q \in B : a[q] = e}
           After(q) == {c \in T : a[ProviderOf[c]] = e /\ Precedes(T, q, ProviderOf[c])}
<1>1. \A q \in Mine : Cardinality(After(q)) \in Nat
  <2>1. \A q : After(q) \in SUBSET Contracts
    OBVIOUS
  <2> HIDE DEF After
  <2> QED BY <2>1, BagsCounted
<1>2. /\ {Cardinality(After(q)) : q \in Mine} \in SUBSET Nat
      /\ {Cardinality(After(q)) : q \in Mine} # {}
  BY <1>1
<1>3. PICK n \in {Cardinality(After(q)) : q \in Mine} :
        \A m \in {Cardinality(After(q)) : q \in Mine} : n <= m
  BY <1>2, LeastNumber
<1>4. PICK q \in Mine : n = Cardinality(After(q))
  BY <1>3
<1>5. ASSUME NEW c \in After(q) PROVE FALSE
  <2> DEFINE r == ProviderOf[c]
  <2>1. r \in Mine /\ Precedes(T, q, r) /\ r \in Providers /\ q \in Providers
    BY <1>4, <1>5, ShardAssumption
  <2>2. After(r) \subseteq After(q)
    <3> SUFFICES ASSUME NEW d \in After(r) PROVE d \in After(q)
      OBVIOUS
    <3>1. ProviderOf[d] \in Providers
      BY ShardAssumption
    <3>2. Precedes(T, q, ProviderOf[d])
      BY <2>1, <3>1, OrderIsTotal
    <3> QED BY <3>2
  <2>3. c \notin After(r)
    BY <2>1, OrderIsTotal
  <2>4. After(r) \in SUBSET After(q) /\ After(q) \in SUBSET Contracts /\ After(r) # After(q)
    BY <1>5, <2>2, <2>3
  <2>5. n <= Cardinality(After(r)) /\ Cardinality(After(r)) \in Nat /\ Cardinality(After(q)) \in Nat
    BY <1>1, <1>3, <1>4, <2>1
  <2> HIDE DEF After, r
  <2>6. Cardinality(After(r)) < Cardinality(After(q))
    BY <2>4, CountsGrow
  <2> QED BY <1>4, <2>5, <2>6
<1>6. ASSUME NEW c \in T, a[ProviderOf[c]] = e
      PROVE  ProviderOf[c] = q \/ Precedes(T, ProviderOf[c], q)
  <2>1. ProviderOf[c] \in Providers /\ q \in Providers
    BY <1>4, ShardAssumption
  <2>2. ~Precedes(T, q, ProviderOf[c])
    BY <1>5, <1>6
  <2> QED BY <2>1, <2>2, OrderIsTotal
<1> QED BY <1>4, <1>6 DEF IsLast

\* Without sticky and excluded agents every provider goes to an agent of least
\* load.
LEMMA PickIsLightest ==
  ASSUME NEW L, \A e \in Endpoints : L[e] \in Nat,
         NEW e \in pickAgent(candidates(NoAgent), L, NoAgent), NEW f \in Endpoints
  PROVE  e \in Endpoints /\ L[e] <= L[f]
<1>1. candidates(NoAgent) = Endpoints /\ NoAgent \notin Endpoints
  BY ShardAssumption DEF candidates, NoAgent
<1>2. e \in Endpoints /\ (L[e] < L[f] \/ (L[e] = L[f] /\ e <= f))
  BY <1>1 DEF pickAgent
<1> QED BY <1>2

\* The greedy hand-out balances the agents: the last provider of an agent, the
\* one with fewest bags, went to it when it had no more bags than any other.
LEMMA GreedyBalances ==
  ASSUME NEW T \in SUBSET Contracts, NEW B \in SUBSET Providers,
         \A q \in B : Bags(T, q) # {},
         NEW a \in assignProvidersToAgents(T, B, Unassigned, Unassigned),
         NEW e \in Endpoints, NEW f \in Endpoints, NEW p \in B, a[p] = e
  PROVE  Cardinality({c \in T : a[ProviderOf[c]] = e}) - Cardinality({c \in T : a[ProviderOf[c]] = f})
           <= Cardinality(Bags(T, p))
<1> DEFINE Given(g) == {c \in T : a[ProviderOf[c]] = g}
           Early(g, q) == {c \in T : a[ProviderOf[c]] = g /\ Precedes(T, ProviderOf[c], q)}
<1>1. \A q \in Providers :
        IF q \in B THEN a[q] \in pickAgent(candidates(NoAgent), loads(T, a, q), NoAgent)
                   ELSE a[q] = NoAgent
  BY DEF assignProvidersToAgents, Unassigned
<1>2. {q \in Providers : a[q] = e} \subseteq B
  BY <1>1, ShardAssumption DEF NoAgent
<1>3. PICK q \in B : a[q] = e /\ IsLast(T, a, e, q)
  BY <1>2, LastOfShard
<1>4. /\ Cardinality(Given(e)) \in Nat /\ Cardinality(Given(f)) \in Nat
      /\ Cardinality(Early(e, q)) \in Nat /\ Cardinality(Early(f, q)) \in Nat
      /\ Cardinality(Bags(T, q)) \in Nat /\ Cardinality(Bags(T, p)) \in Nat
  <2>1. /\ Given(e) \in SUBSET Contracts /\ Given(f) \in SUBSET Contracts
        /\ Early(e, q) \in SUBSET Contracts /\ Early(f, q) \in SUBSET Contracts
        /\ Bags(T, q) \in SUBSET Contracts /\ Bags(T, p) \in SUBSET Contracts
    BY DEF Bags
  <2> HIDE DEF Given, Early
  <2> QED BY <2>1, BagsCounted
<1>5. Cardinality(Early(e, q)) <= Cardinality(Early(f, q))
  <2>1. \A g \in Endpoints : loads(T, a, q)[g] = Cardinality(Early(g, q))
    BY DEF loads
  <2>2. \A g \in Endpoints : loads(T, a, q)[g] \in Nat
    BY LoadsAreNumbers
  <2>3. e \in pickAgent(candidates(NoAgent), loads(T, a, q), NoAgent)
    BY <1>1, <1>3
  <2>4. loads(T, a, q)[e] <= loads(T, a, q)[f]
    BY <2>2, <2>3, PickIsLightest
  <2> HIDE DEF Early
  <2> QED BY <2>1, <2>4
<1>6. Cardinality(Early(f, q)) <= Cardinality(Given(f))
  <2>1. Early(f, q) \in SUBSET Given(f) /\ Given(f) \in SUBSET Contracts
    OBVIOUS
  <2> HIDE DEF Given, Early
  <2> QED BY <2>1, CountsGrow
<1>7. Cardinality(Given(e)) <= Cardinality(Early(e, q)) + Cardinality(Bags(T, q))
  <2>1. Given(e) = Early(e, q) \union Bags(T, q)
    BY <1>3 DEF Bags, IsLast
  <2>2. IsFiniteSet(Early(e, q)) /\ IsFiniteSet(Bags(T, q))
    <3>1. Early(e, q) \in SUBSET Contracts /\ Bags(T, q) \in SUBSET Contracts
      BY DEF Bags
    <3> HIDE DEF Early
    <3> QED BY <3>1, BagsCounted
  <2>3. Cardinality(Early(e, q) \intersect Bags(T, q)) \in Nat
    <3>1. Early(e, q) \intersect Bags(T, q) \in SUBSET Contracts
      BY DEF Bags
    <3> HIDE DEF Early
    <3> QED BY <3>1, BagsCounted
  <2> HIDE DEF Given, Early
  <2>4. Cardinality(Given(e)) = Cardinality(Early(e, q)) + Cardinality(Bags(T, q))
                                  - Cardinality(Early(e, q) \intersect Bags(T, q))
    BY <2>1, <2>2, FS_Union
  <2> QED BY <1>4, <2>3, <2>4
<1>8. Cardinality(Bags(T, q)) <= Cardinality(Bags(T, p))
  <2>1. PICK c : c \in T /\ ProviderOf[c] = p
    BY DEF Bags
  <2>2. p = q \/ Precedes(T, p, q)
    BY <1>3, <2>1 DEF IsLast
  <2> QED BY <1>4, <2>2 DEF Precedes
<1> HIDE DEF Given, Early
<1>9. Cardinality(Given(e)) - Cardinality(Given(f)) <= Cardinality(Bags(T, p))
  BY <1>4, <1>5, <1>6, <1>7, <1>8
<1> QED BY <1>9 DEF Given

-----------------------------------------------------------------------------
(* Types *)

\* The commit policy gives every reason a class, and defers a bag no agent
\* answered for.
LEMMA ClassType ==
  /\ \A r : class(r) \in Class
  /\ \A r \in {"NotFound"} \union CutReasons : class(r) = "retriable"
  BY DEF class, Class, isRetriableReason, CutReasons

\* The initial states have their types.
LEMMA InitType == Init => TypeOK
<1> SUFFICES ASSUME Init PROVE TypeOK
  OBVIOUS
<1>1. {ProviderOf[c] : c \in todo} \subseteq Providers
  BY ShardAssumption DEF Init
<1> QED BY <1>1, PassAssumption DEF Init, TypeOK, requestProviders, Unassigned, Agent

\* Every step keeps the types.
LEMMA TypeStep == TypeOK /\ [Next]_passVars => TypeOK'
<1> SUFFICES ASSUME TypeOK, [Next]_passVars PROVE TypeOK'
  OBVIOUS
<1> USE PassAssumption DEF inputVars, jobVars
<1>1. ASSUME NEW p \in Providers, Assign(p) PROVE TypeOK'
  <2>1. PICK chosen \in pickAgent(candidates(exclude[p]), load, stickyMap[p]) :
          /\ assignment' = [assignment EXCEPT ![p] = chosen]
          /\ load' = [load EXCEPT ![chosen] = @ + Cardinality(Bags(todo, p))]
    BY <1>1 DEF Assign
  <2>2. chosen \in Endpoints
    BY DEF pickAgent, candidates
  <2>3. Cardinality(Bags(todo, p)) \in Nat
    <3>1. Bags(todo, p) \in SUBSET Contracts
      BY DEF Bags, TypeOK
    <3> QED BY <3>1, BagsCounted
  <2>4. assignment' \in [Providers -> Agent] /\ load' \in [Endpoints -> Nat]
    BY <2>1, <2>2, <2>3 DEF TypeOK, Agent
  <2> QED BY <1>1, <2>4 DEF Assign, TypeOK
<1>2. CASE Send
  BY <1>2 DEF Send, TypeOK, Unassigned, Agent
<1>3. CASE Merge
  BY <1>3 DEF Merge, TypeOK
<1>4. CASE Tick
  BY <1>4 DEF Tick, TypeOK
<1>5. ASSUME NEW e \in Endpoints, PushSummary(e) \/ Answer(e) PROVE TypeOK'
  BY <1>5 DEF PushSummary, Answer, TypeOK
<1>6. ASSUME NEW e \in Endpoints, CallExpires(e) \/ CallFails(e) \/ GoSilent(e) PROVE TypeOK'
  BY <1>6 DEF CallExpires, CallFails, GoSilent, TypeOK
<1>7. ASSUME NEW p \in Providers, StartProvider(p) PROVE TypeOK'
  BY <1>7 DEF StartProvider, TypeOK
<1>8. ASSUME NEW p \in Providers, StartTooLate(p) PROVE TypeOK'
  <2>1. outcome' \in [Contracts -> Class \union {"none"}]
    BY <1>8, ClassType DEF StartTooLate, TypeOK
  <2> QED BY <1>8, <2>1 DEF StartTooLate, TypeOK, Bags
<1>9. ASSUME NEW p \in Providers, FinishProvider(p) PROVE TypeOK'
  <2>1. PICK late \in SUBSET Bags(todo, p), o \in [Bags(todo, p) -> Class] :
          /\ outcome' = [c \in Contracts |-> IF c \in Bags(todo, p) THEN o[c] ELSE outcome[c]]
          /\ cut' = cut \union late
    BY <1>9 DEF FinishProvider
  <2>2. outcome' \in [Contracts -> Class \union {"none"}] /\ cut' \subseteq Contracts
    BY <2>1 DEF TypeOK, Bags
  <2> QED BY <1>9, <2>2 DEF FinishProvider, TypeOK
<1>10. CASE UNCHANGED passVars
  BY <1>10 DEF passVars, TypeOK
<1> QED BY <1>1, <1>2, <1>3, <1>4, <1>5, <1>6, <1>7, <1>8, <1>9, <1>10 DEF Next, PassStep

\* The variables of a pass keep their types, for any bags, agents and times; the
\* clock never passes the coordinator's timeout.
THEOREM TypeCorrect == Spec => []TypeOK
  BY InitType, TypeStep, PTL DEF Spec

-----------------------------------------------------------------------------
(* The hand-out of a pass *)

\* The loop: the providers handed out so far are where the greedy hand-out of just
\* them puts them, the running loads count their bags, and they precede the rest.
LoopInv ==
  phase \in {"input", "assigned"} =>
    /\ assignment \in assignProvidersToAgents(todo, batch \ ordered, stickyMap, exclude)
    /\ \A e \in Endpoints : load[e] = Load(e)
    /\ \A p \in batch \ ordered, q \in ordered : Precedes(todo, p, q)

\* Every provider of the request has an endpoint and a bag, the loop leaves none
\* out, and only a provider that was handed to an agent is checked.
HandOutInv ==
  /\ \A p \in batch : p \in usable /\ Bags(todo, p) # {}
  /\ LoopInv
  /\ phase # "input" => ordered = {} /\ \A p \in batch : assignment[p] \in Endpoints
  /\ \A p \in Providers : check[p] # "none" => p \in batch /\ phase \notin {"input", "assigned"}

\* The request is well formed from the start, and nothing is handed out.
LEMMA InitHandOut == Init => HandOutInv
<1> SUFFICES ASSUME Init PROVE HandOutInv
  OBVIOUS
<1>1. \A p \in batch : p \in usable /\ Bags(todo, p) # {}
  BY DEF Init, requestProviders, Bags
<1>2. \A e \in Endpoints : load[e] = Load(e)
  <2> TAKE e \in Endpoints
  <2>1. {c \in todo : assignment[ProviderOf[c]] = e} = {}
    BY ShardAssumption DEF Init, Unassigned, NoAgent
  <2> QED BY <2>1, FS_EmptySet DEF Init, Load
<1>3. batch \ ordered = {}
  BY DEF Init
<1>4. assignment \in assignProvidersToAgents(todo, {}, stickyMap, exclude)
  BY DEF Init, assignProvidersToAgents, Unassigned, Agent
<1>5. LoopInv
  BY <1>2, <1>3, <1>4 DEF LoopInv
<1> QED BY <1>1, <1>5 DEF Init, HandOutInv

\* An assigned provider sits on an agent.
LEMMA AssignedSomewhere ==
  ASSUME NEW T, NEW B \in SUBSET Providers, NEW s, NEW x,
         NEW a \in assignProvidersToAgents(T, B, s, x), NEW p \in B
  PROVE  a[p] \in Endpoints
<1>1. a[p] \in pickAgent(candidates(x[p]), loads(T, a, p), s[p])
  BY DEF assignProvidersToAgents
<1> QED BY <1>1 DEF pickAgent, candidates

\* An iteration of the loop keeps the loop's invariant.
LEMMA LoopStep ==
  ASSUME TypeOK, LoopInv, NEW p \in Providers, Assign(p)
  PROVE  LoopInv'
<1> DEFINE D == batch \ ordered
<1>1. /\ phase = "input" /\ p \in ordered /\ \A q \in ordered \ {p} : Precedes(todo, p, q)
      /\ ordered' = ordered \ {p} /\ UNCHANGED <<todo, batch, stickyMap, exclude>>
  BY DEF Assign, Foremost
<1>2. /\ todo \in SUBSET Contracts /\ D \in SUBSET Providers /\ p \in Providers \ D
      /\ ordered \subseteq batch /\ load \in [Endpoints -> Nat]
  BY <1>1 DEF TypeOK
<1>3. /\ assignment \in assignProvidersToAgents(todo, D, stickyMap, exclude)
      /\ \A e \in Endpoints : load[e] = Load(e)
      /\ \A q \in D, r \in ordered : Precedes(todo, q, r)
  BY <1>1 DEF LoopInv
<1>4. PICK chosen \in pickAgent(candidates(exclude[p]), load, stickyMap[p]) :
        /\ assignment' = [assignment EXCEPT ![p] = chosen]
        /\ load' = [load EXCEPT ![chosen] = @ + Cardinality(Bags(todo, p))]
  BY DEF Assign
<1>5. chosen \in Endpoints
  BY DEF pickAgent, candidates
<1>6. (batch \ ordered)' = D \union {p}
  BY <1>1, <1>2
<1>7. load = loads(todo, assignment, p)
  <2> HIDE DEF D
  <2>1. \A q \in D : Precedes(todo, q, p)
    BY <1>1, <1>3
  <2>2. loads(todo, assignment, p) = [e \in Endpoints |-> Cardinality(Handed(todo, assignment, e))]
    BY <1>2, <1>3, <2>1, LoadsAreComplete
  <2>3. load = [e \in Endpoints |-> load[e]]
    BY <1>2
  <2> QED BY <1>3, <2>2, <2>3 DEF Load, Handed
<1>8. assignment' \in assignProvidersToAgents(todo, D \union {p}, stickyMap, exclude)
  <2> HIDE DEF D
  <2>1. chosen \in pickAgent(candidates(exclude[p]), loads(todo, assignment, p), stickyMap[p])
    BY <1>7
  <2>2. [assignment EXCEPT ![p] = chosen]
          \in assignProvidersToAgents(todo, D \union {p}, stickyMap, exclude)
    BY <1>1, <1>2, <1>3, <2>1, GreedyExtends
  <2> QED BY <1>4, <2>2
<1>9. ASSUME NEW e \in Endpoints PROVE load'[e] = Load(e)'
  <2>1. assignment \in [Providers -> Agent] /\ assignment[p] = NoAgent
    BY <1>2, <1>3 DEF assignProvidersToAgents
  <2>2. /\ Cardinality(Handed(todo, assignment', chosen))
             = Cardinality(Handed(todo, assignment, chosen)) + Cardinality(Bags(todo, p))
        /\ \A f \in Endpoints \ {chosen} : Handed(todo, assignment', f) = Handed(todo, assignment, f)
    <3> DEFINE b == [assignment EXCEPT ![p] = chosen]
    <3>1. todo \in SUBSET Contracts /\ p \in Providers
      BY <1>2
    <3>2. /\ Cardinality(Handed(todo, b, chosen))
               = Cardinality(Handed(todo, assignment, chosen)) + Cardinality(Bags(todo, p))
          /\ \A f \in Endpoints \ {chosen} : Handed(todo, b, f) = Handed(todo, assignment, f)
      BY <1>5, <2>1, <3>1, LoadAdds, Zenon
    <3> QED BY <1>4, <3>2
  <2>3. \A f \in Endpoints : /\ load[f] = Cardinality(Handed(todo, assignment, f))
                            /\ Load(f)' = Cardinality(Handed(todo, assignment', f))
    BY <1>1, <1>3 DEF Load, Handed
  <2>4. CASE e = chosen
    BY <1>2, <1>4, <1>5, <2>2, <2>3, <2>4
  <2>5. CASE e # chosen
    BY <1>2, <1>4, <1>9, <2>2, <2>3, <2>5
  <2> QED BY <2>4, <2>5
<1>10. \A q \in D \union {p}, r \in ordered \ {p} : Precedes(todo, q, r)
  BY <1>1, <1>3
<1>11. (assignment \in assignProvidersToAgents(todo, batch \ ordered, stickyMap, exclude))'
  <2>1. assignment' \in assignProvidersToAgents(todo', (batch \ ordered)', stickyMap', exclude')
    BY <1>1, <1>6, <1>8
  <2> QED BY <2>1 DEF assignProvidersToAgents, loads, Precedes, Bags
<1>12. (\A q \in batch \ ordered, r \in ordered : Precedes(todo, q, r))'
  BY <1>1, <1>6, <1>10 DEF Precedes, Bags
<1> QED BY <1>9, <1>11, <1>12 DEF LoopInv

\* Only Assign and Send touch the request: Send drops the bags without a batch.
LEMMA HandOutStep == TypeOK /\ HandOutInv /\ [Next]_passVars => HandOutInv'
<1> SUFFICES ASSUME TypeOK, HandOutInv, [Next]_passVars PROVE HandOutInv'
  OBVIOUS
<1> DEFINE WellFormed == \A p \in batch : p \in usable /\ Bags(todo, p) # {}
           Placed == phase # "input" => ordered = {} /\ \A p \in batch : assignment[p] \in Endpoints
           Checked == \A p \in Providers :
                        check[p] # "none" => p \in batch /\ phase \notin {"input", "assigned"}
<1>1. ASSUME NEW p \in Providers, Assign(p) PROVE HandOutInv'
  <2>1. LoopInv'
    BY <1>1, LoopStep DEF HandOutInv
  <2>2. WellFormed' /\ Checked'
    BY <1>1 DEF Assign, HandOutInv, jobVars, Bags
  <2>3. Placed'
    <3> SUFFICES ASSUME phase' # "input" PROVE ordered' = {} /\ \A q \in batch' : assignment'[q] \in Endpoints
      OBVIOUS
    <3>1. phase' = "assigned" /\ ordered' = {}
      BY <1>1 DEF Assign
    <3>2. assignment' \in assignProvidersToAgents(todo', batch', stickyMap', exclude')
      <4>1. (assignment \in assignProvidersToAgents(todo, batch \ ordered, stickyMap, exclude))'
        BY <2>1, <3>1 DEF LoopInv
      <4>2. (batch \ ordered)' = batch'
        BY <3>1
      <4>3. assignment' \in assignProvidersToAgents(todo', (batch \ ordered)', stickyMap', exclude')
        BY <4>1 DEF assignProvidersToAgents, loads, Precedes, Bags
      <4> QED BY <4>2, <4>3
    <3>3. batch' \in SUBSET Providers
      BY <1>1 DEF Assign, TypeOK
    <3> QED BY <3>1, <3>2, <3>3, AssignedSomewhere
  <2> QED BY <2>1, <2>2, <2>3 DEF HandOutInv
<1>2. CASE Send
  <2>1. batch' = batch /\ usable' = usable /\ phase' = "running" /\ assignment' = assignment
    BY <1>2 DEF Send
  <2>2. todo' = {c \in todo : ProviderOf[c] \in batch}
    BY <1>2 DEF Send
  <2>3. \A p \in batch : Bags(todo', p) = Bags(todo, p)
    BY <2>2 DEF Bags
  <2>4. WellFormed' /\ LoopInv'
    BY <2>1, <2>3 DEF HandOutInv, LoopInv, Bags
  <2>5. Placed' /\ Checked'
    BY <1>2, <2>1 DEF HandOutInv, Send
  <2> QED BY <2>4, <2>5 DEF HandOutInv
<1>3. CASE /\ UNCHANGED inputVars
           /\ phase' = phase \/ (phase = "running" /\ phase' \in {"merged", "error"})
           /\ \A p \in Providers : check'[p] # "none" => check[p] # "none"
  <2>1. UNCHANGED <<todo, usable, batch, stickyMap, exclude, ordered, load, assignment>>
    BY <1>3 DEF inputVars
  <2>2. WellFormed' /\ LoopInv'
    BY <1>3, <2>1 DEF HandOutInv, LoopInv, Load, Bags, assignProvidersToAgents, loads, Precedes
  <2>3. Placed' /\ Checked'
    BY <1>3, <2>1 DEF HandOutInv
  <2> QED BY <2>2, <2>3 DEF HandOutInv
<1>4. CASE Merge \/ Tick \/ UNCHANGED passVars
  BY <1>3, <1>4 DEF Merge, Tick, passVars, jobVars
<1>5. ASSUME NEW e \in Endpoints,
             PushSummary(e) \/ Answer(e) \/ CallExpires(e) \/ CallFails(e) \/ GoSilent(e)
      PROVE  HandOutInv'
  BY <1>3, <1>5 DEF PushSummary, Answer, CallExpires, CallFails, GoSilent
<1>6. ASSUME NEW p \in Providers, StartProvider(p) \/ StartTooLate(p) \/ FinishProvider(p)
      PROVE  HandOutInv'
  BY <1>3, <1>6 DEF StartProvider, StartTooLate, FinishProvider, SlotFree, TypeOK
<1> QED BY <1>1, <1>2, <1>4, <1>5, <1>6 DEF Next, PassStep

\* Once the loop is done, what it made is the greedy hand-out of the whole request.
LEMMA HandedOut ==
  ASSUME HandOutInv, phase = "assigned"
  PROVE  assignment \in assignProvidersToAgents(todo, batch, stickyMap, exclude)
<1>1. batch \ ordered = batch
  BY DEF HandOutInv
<1> QED BY <1>1 DEF HandOutInv, LoopInv

\* The loop with its running loads ends with the one assignment stated without it,
\* the one StoreProof uses, for any number of agents, providers and bags and any
\* sticky and exclude maps (assignProvidersToAgents, pickAgent).
THEOREM LoopIsGreedy == Spec => []LoopAgrees
<1>1. Init => TypeOK /\ HandOutInv
  BY InitType, InitHandOut
<1>2. TypeOK /\ HandOutInv /\ [Next]_passVars => (TypeOK /\ HandOutInv)'
  BY TypeStep, HandOutStep
<1>3. TypeOK /\ HandOutInv => LoopAgrees
  <2> SUFFICES ASSUME TypeOK, HandOutInv, phase = "assigned"
               PROVE  assignProvidersToAgents(todo, batch, stickyMap, exclude) = {assignment}
    BY DEF LoopAgrees
  <2>1. assignment \in assignProvidersToAgents(todo, batch, stickyMap, exclude)
    BY HandedOut
  <2>2. \A b \in assignProvidersToAgents(todo, batch, stickyMap, exclude) : b = assignment
    BY <2>1, GreedyIsUnique DEF TypeOK
  <2> QED BY <2>1, <2>2, Zenon
<1> QED BY <1>1, <1>2, <1>3, PTL DEF Spec

\* Without sticky and excluded agents no agent has more bags than another by more
\* than the bags of any one of its providers, for any number of agents, providers
\* and bags (assignProvidersToAgents).
THEOREM ShardsAreBalanced == Spec => []ShardsBalanced
<1>1. Init => TypeOK /\ HandOutInv
  BY InitType, InitHandOut
<1>2. TypeOK /\ HandOutInv /\ [Next]_passVars => (TypeOK /\ HandOutInv)'
  BY TypeStep, HandOutStep
<1>3. TypeOK /\ HandOutInv => ShardsBalanced
  <2> SUFFICES ASSUME TypeOK, HandOutInv, phase = "assigned", stickyMap = Unassigned,
                      exclude = Unassigned, NEW e \in Endpoints, NEW f \in Endpoints,
                      NEW p \in Shard(e)
               PROVE  Load(e) - Load(f) <= Cardinality(Bags(todo, p))
    BY DEF ShardsBalanced
  <2>1. todo \in SUBSET Contracts /\ batch \in SUBSET Providers
    BY DEF TypeOK
  <2>2. \A q \in batch : Bags(todo, q) # {}
    BY DEF HandOutInv
  <2>3. assignment \in assignProvidersToAgents(todo, batch, Unassigned, Unassigned)
    BY HandedOut
  <2>4. p \in batch /\ assignment[p] = e
    BY DEF Shard
  <2> QED BY <2>1, <2>2, <2>3, <2>4, GreedyBalances DEF Load
<1> QED BY <1>1, <1>2, <1>3, PTL DEF Spec

-----------------------------------------------------------------------------
(* What a deadline or a lost agent did *)

\* No call is under way before the fan-out and after the merge; nothing has
\* happened before the fan-out and nothing is committed before the merge.
QuietInv ==
  /\ phase # "running" => \A e \in Endpoints : job[e] \in {"none", "answered", "failed"}
  /\ phase \in {"input", "assigned"} => cut = {} /\ lost = {} /\ clock = 0
  /\ phase # "merged" => committed = {}

\* A lost agent does not answer, and a bag a deadline cut is retriable on an agent
\* that is through with its provider.
CutInv ==
  /\ \A e \in lost : job[e] \in {"silent", "failed"}
  /\ \A c \in cut : outcome[c] = "retriable" /\ check[ProviderOf[c]] = "done"
  /\ CutIsDeferred

\* The pass starts quiet, with nothing cut or lost.
LEMMA InitCut == Init => QuietInv /\ CutInv
  BY DEF Init, QuietInv, CutInv, CutIsDeferred

\* Calls are under way only between the fan-out and the merge.
LEMMA QuietStep == TypeOK /\ HandOutInv /\ QuietInv /\ [Next]_passVars => QuietInv'
<1> SUFFICES ASSUME TypeOK, HandOutInv, QuietInv, [Next]_passVars PROVE QuietInv'
  OBVIOUS
<1> USE DEF QuietInv, inputVars, jobVars
<1>1. ASSUME NEW p \in Providers, Assign(p) PROVE QuietInv'
  BY <1>1 DEF Assign
<1>2. CASE Send
  BY <1>2 DEF Send
<1>3. CASE Merge
  BY <1>3 DEF Merge
<1>4. CASE Tick
  BY <1>4 DEF Tick
<1>5. ASSUME NEW e \in Endpoints,
             PushSummary(e) \/ Answer(e) \/ CallExpires(e) \/ CallFails(e) \/ GoSilent(e)
      PROVE  QuietInv'
  <2>1. phase = "running" /\ phase' = phase /\ committed' = committed
    BY <1>5 DEF PushSummary, Answer, CallExpires, CallFails, GoSilent
  <2> QED BY <2>1
<1>6. ASSUME NEW p \in Providers, StartProvider(p) \/ StartTooLate(p) \/ FinishProvider(p)
      PROVE  QuietInv'
  <2>1. job[assignment[p]] = "open" /\ check[p] # "none"
    BY <1>6 DEF StartProvider, StartTooLate, FinishProvider, SlotFree
  <2>2. assignment[p] \in Endpoints
    BY <2>1 DEF HandOutInv
  <2>3. phase = "running"
    BY <2>1, <2>2
  <2> QED BY <1>6, <2>3 DEF StartProvider, StartTooLate, FinishProvider
<1>7. CASE UNCHANGED passVars
  BY <1>7 DEF passVars
<1> QED BY <1>1, <1>2, <1>3, <1>4, <1>5, <1>6, <1>7 DEF Next, PassStep

\* Bags cut short stay retriable: their provider is not checked again, and a lost
\* agent never comes back within the pass.
LEMMA CutStep ==
  TypeOK /\ HandOutInv /\ QuietInv /\ CutInv /\ [Next]_passVars => CutInv'
<1> SUFFICES ASSUME TypeOK, HandOutInv, QuietInv, CutInv, [Next]_passVars PROVE CutInv'
  OBVIOUS
<1> DEFINE Gone == \A e \in lost : job[e] \in {"silent", "failed"}
           Deferred == \A c \in cut : outcome[c] = "retriable" /\ check[ProviderOf[c]] = "done"
<1>1. cut \subseteq Contracts /\ lost \subseteq Endpoints /\ Gone /\ Deferred
  BY DEF TypeOK, CutInv
<1>2. ASSUME NEW p \in Providers, Assign(p) PROVE CutInv'
  BY <1>2 DEF Assign, CutInv, CutIsDeferred, QuietInv, jobVars
<1>3. CASE Send
  BY <1>3 DEF Send, CutInv, CutIsDeferred, QuietInv
<1>4. CASE Merge
  <2>1. UNCHANGED <<job, check, outcome, cut, lost, assignment>>
    BY <1>4 DEF Merge, inputVars, jobVars
  <2>2. Gone' /\ Deferred'
    BY <1>1, <2>1
  <2>3. CutIsDeferred'
    <3>1. CASE phase' = "error"
      BY <1>4, <3>1 DEF Merge, QuietInv, CutIsDeferred
    <3>2. CASE phase' = "merged"
      <4>1. committed' = {c \in todo : mergedClass(c) # "retriable"}
        BY <1>4, <3>2 DEF Merge
      <4>2. \A c \in committed' : /\ job[assignment[ProviderOf[c]]] = "answered"
                                  /\ outcome[c] # "retriable"
        BY <4>1, ClassType DEF mergedClass
      <4> QED BY <1>1, <2>1, <4>2 DEF CutIsDeferred
    <3> QED BY <1>4, <3>1, <3>2 DEF Merge
  <2> QED BY <2>2, <2>3 DEF CutInv
<1>5. CASE Tick \/ UNCHANGED passVars
  BY <1>5 DEF Tick, passVars, inputVars, jobVars, CutInv, CutIsDeferred
<1>6. ASSUME NEW e \in Endpoints,
             PushSummary(e) \/ Answer(e) \/ CallExpires(e) \/ CallFails(e) \/ GoSilent(e)
      PROVE  CutInv'
  <2>1. phase = "running"
    BY <1>6 DEF QuietInv, PushSummary, Answer, CallExpires, CallFails, GoSilent
  <2>2. committed = {} /\ UNCHANGED <<committed, cut, check, outcome>>
    BY <1>6, <2>1 DEF QuietInv, PushSummary, Answer, CallExpires, CallFails, GoSilent
  <2>3. Deferred' /\ CutIsDeferred'
    BY <1>1, <2>2 DEF CutIsDeferred
  <2>4. Gone'
    BY <1>1, <1>6 DEF TypeOK, PushSummary, Answer, CallExpires, CallFails, GoSilent
  <2> QED BY <2>3, <2>4 DEF CutInv
<1>7. ASSUME NEW p \in Providers, StartProvider(p) \/ StartTooLate(p) \/ FinishProvider(p)
      PROVE  CutInv'
  <2>1. job[assignment[p]] = "open" /\ check[p] \in {"queued", "slot"}
    BY <1>7 DEF StartProvider, StartTooLate, FinishProvider, SlotFree
  <2>2. phase = "running"
    <3>1. assignment[p] \in Endpoints
      BY <2>1 DEF HandOutInv
    <3> QED BY <2>1, <3>1 DEF QuietInv
  <2>3. committed = {} /\ UNCHANGED <<committed, job, lost, todo>>
    BY <1>7, <2>2 DEF QuietInv, StartProvider, StartTooLate, FinishProvider, inputVars
  <2>4. Gone' /\ CutIsDeferred'
    BY <1>1, <2>3 DEF CutIsDeferred
  <2>5. \A c \in cut : c \notin Bags(todo, p)
    BY <1>1, <2>1 DEF Bags
  <2>6. check \in [Providers -> {"none", "queued", "slot", "done"}]
    BY DEF TypeOK
  <2>7. \A c \in Contracts : ProviderOf[c] \in Providers
    BY ShardAssumption
  <2>8. CASE StartProvider(p)
    <3>1. Deferred'
      BY <1>1, <2>1, <2>6, <2>7, <2>8 DEF StartProvider
    <3> QED BY <2>4, <3>1 DEF CutInv
  <2>9. CASE StartTooLate(p)
    <3>1. check' = [check EXCEPT ![p] = "done"] /\ cut' = cut \union Bags(todo, p)
      BY <2>9 DEF StartTooLate
    <3>2. outcome' = [c \in Contracts |->
                        IF c \in Bags(todo, p) THEN "retriable" ELSE outcome[c]]
      BY <2>9, ClassType DEF StartTooLate, CutReasons
    <3>3. Bags(todo, p) \subseteq Contracts /\ \A c \in Bags(todo, p) : ProviderOf[c] = p
      BY DEF Bags, TypeOK
    <3>4. Deferred'
      BY <1>1, <2>6, <2>7, <3>1, <3>2, <3>3
    <3> QED BY <2>4, <3>4 DEF CutInv
  <2>10. CASE FinishProvider(p)
    <3>1. check' = [check EXCEPT ![p] = "done"]
      BY <2>10 DEF FinishProvider
    <3>2. PICK late \in SUBSET Bags(todo, p), o \in [Bags(todo, p) -> Class] :
            /\ \A c \in Bags(todo, p) :
                 \E r \in (IF c \in late THEN CutReasons ELSE InTimeReasons) : o[c] = class(r)
            /\ outcome' = [c \in Contracts |-> IF c \in Bags(todo, p) THEN o[c] ELSE outcome[c]]
            /\ cut' = cut \union late
      BY <2>10 DEF FinishProvider
    <3>3. \A c \in late : o[c] = "retriable"
      BY <3>2, ClassType DEF CutReasons
    <3>4. Bags(todo, p) \subseteq Contracts /\ \A c \in Bags(todo, p) : ProviderOf[c] = p
      BY DEF Bags, TypeOK
    <3>5. Deferred'
      BY <1>1, <2>5, <2>6, <2>7, <3>1, <3>2, <3>3, <3>4
    <3> QED BY <2>4, <3>5 DEF CutInv
  <2> QED BY <1>7, <2>8, <2>9, <2>10
<1> QED BY <1>2, <1>3, <1>4, <1>5, <1>6, <1>7 DEF Next, PassStep

\* What a deadline or a lost agent did to a bag is never committed by the main
\* pass, for any number of agents and any times (mergeRunChecksResponses,
\* isRetriableReason).
THEOREM CutsAreDeferred == Spec => []CutIsDeferred
<1> DEFINE IInv == TypeOK /\ HandOutInv /\ QuietInv /\ CutInv
<1>1. Init => IInv
  BY InitType, InitHandOut, InitCut
<1>2. IInv /\ [Next]_passVars => IInv'
  BY TypeStep, HandOutStep, QuietStep, CutStep
<1>3. IInv => CutIsDeferred
  BY DEF CutInv
<1> QED BY <1>1, <1>2, <1>3, PTL DEF Spec

-----------------------------------------------------------------------------
(* The clocks of the agent and the coordinator *)

\* The times for which AnsweredUnlessLost says something.
TimesLeaveRoom ==
  0 < TotalTime /\ \A p \in batch : RpcTime > TotalTime + windDown(p) + LokiTime

\* A provider of the agent may still be winding down at time t.
MayWindDown(e, t) == \E p \in Shard(e) : t <= TotalTime + windDown(p)

\* A job is open until its slowest provider has wound down at most and pushes its
\* summary for LokiTime at most, both before the coordinator gives up, so only a
\* lost call can fail.
TimeInv ==
  \A e \in Endpoints :
    /\ job[e] = "open" => MayWindDown(e, clock)
    /\ job[e] = "push" => /\ MayWindDown(e, pushedAt[e]) /\ pushedAt[e] <= clock
                          /\ clock <= pushedAt[e] + LokiTime
    /\ job[e] \in {"silent", "failed"} => e \in lost

\* No call is made at first.
LEMMA InitTime == Init => TimeInv
  BY DEF Init, TimeInv

\* Winding down takes a number of time units.
LEMMA WindDownNumber ==
  ASSUME TypeOK, NEW p
  PROVE  windDown(p) \in Nat
<1>1. Cardinality(Bags(todo, p)) \in Nat
  <2>1. Bags(todo, p) \in SUBSET Contracts
    BY DEF Bags, TypeOK
  <2> QED BY <2>1, BagsCounted
<1>2. threshold(p) \in Nat
  BY <1>1 DEF threshold
<1>3. \A i, j \in Nat : i * (j + 1) \in Nat
  OBVIOUS
<1> QED BY <1>2, <1>3, PassAssumption DEF windDown

\* What the providers of the request have to wind down never changes: only the
\* bags of others are dropped.
LEMMA WindDownKept ==
  ASSUME TypeOK, [Next]_passVars
  PROVE  /\ batch' = batch
         /\ \A p \in batch : windDown(p)' = windDown(p)
<1>1. batch' = batch /\ \A p \in batch : Bags(todo, p)' = Bags(todo, p)
  <2>1. CASE Send
    BY <2>1 DEF Send, Bags
  <2>2. CASE ~Send
    BY <2>2 DEF Next, PassStep, Assign, Merge, Tick, PushSummary, Answer, CallExpires, CallFails,
       GoSilent, StartProvider, StartTooLate, FinishProvider, passVars, inputVars, Bags
  <2> QED BY <2>1, <2>2
<1> QED BY <1>1 DEF windDown, threshold

\* Every step keeps the times: the clock stops for a job that has wound down and
\* for a push that must end.
LEMMA TimeStep ==
  ASSUME TimesLeaveRoom
  PROVE  TypeOK /\ HandOutInv /\ QuietInv /\ TimeInv /\ [Next]_passVars => TimeInv'
<1> SUFFICES ASSUME TypeOK, HandOutInv, QuietInv, TimeInv, [Next]_passVars PROVE TimeInv'
  OBVIOUS
<1>1. /\ TotalTime \in Nat /\ RpcTime \in Nat /\ LokiTime \in Nat /\ clock \in Nat
      /\ 0 < TotalTime /\ \A p \in batch : RpcTime > TotalTime + windDown(p) + LokiTime
      /\ \A e \in Endpoints : pushedAt[e] \in Nat
  BY PassAssumption DEF TimesLeaveRoom, TypeOK
<1>2. \A p : windDown(p) \in Nat
  BY WindDownNumber
<1>3. \A p \in batch : deadline = TotalTime
  BY <1>1, <1>2 DEF deadline
<1>4. \A e, t : t <= TotalTime /\ Shard(e) # {} /\ t \in Nat => MayWindDown(e, t)
  BY <1>1, <1>2 DEF MayWindDown
<1>5. ASSUME UNCHANGED assignment, NEW e, NEW t, MayWindDown(e, t)
      PROVE  \E p \in Shard(e)' : t <= TotalTime + windDown(p)'
  <2>1. PICK p \in Shard(e) : t <= TotalTime + windDown(p)
    BY <1>5 DEF MayWindDown
  <2>2. p \in Shard(e)'
    BY <1>5, WindDownKept DEF Shard
  <2>3. windDown(p)' = windDown(p)
    BY <2>1, WindDownKept DEF Shard
  <2> QED BY <2>1, <2>2, <2>3
<1>6. ASSUME NEW p \in Providers, Assign(p) PROVE TimeInv'
  <2>1. UNCHANGED <<job, lost>> /\ \A e \in Endpoints : job[e] \in {"none", "answered", "failed"}
    BY <1>6 DEF Assign, jobVars, QuietInv
  <2> QED BY <2>1 DEF TimeInv
<1>7. CASE Send
  <2>1. \A e \in Endpoints : validateRequest(e)
    BY DEF HandOutInv, validateRequest, Shard
  <2>2. \A e \in Endpoints : job'[e] = IF Shard(e) = {} THEN "none" ELSE "open"
    BY <1>7, <2>1 DEF Send
  <2>3. clock' = 0 /\ UNCHANGED assignment
    BY <1>7 DEF Send, QuietInv
  <2>4. \A e \in Endpoints : job'[e] = "open" => MayWindDown(e, 0)
    BY <1>1, <1>4, <2>2
  <2>5. \A e \in Endpoints : job'[e] = "open" => \E p \in Shard(e)' : 0 <= TotalTime + windDown(p)'
    BY <1>5, <2>3, <2>4
  <2> QED BY <2>2, <2>3, <2>5 DEF TimeInv, MayWindDown
<1>8. CASE Tick
  <2>1. /\ clock' = clock + 1 /\ UNCHANGED <<job, pushedAt, lost, assignment>>
        /\ \A e \in Endpoints : job[e] = "push" => clock - pushedAt[e] < LokiTime
    BY <1>8 DEF Tick, jobVars, inputVars
  <2>2. ASSUME NEW e \in Endpoints, job[e] = "open" PROVE MayWindDown(e, clock + 1)
    <3>1. PICK p \in Shard(e) : clock <= TotalTime + windDown(p)
      BY <2>2 DEF TimeInv, MayWindDown
    <3>2. deadline = TotalTime
      BY <1>3, <3>1 DEF Shard
    <3>3. CASE clock < deadline
      BY <1>1, <1>4, <3>1, <3>2, <3>3
    <3>4. CASE WindingDown(e)
      <4>1. PICK q \in slots(e) : clock < TotalTime + windDown(q)
        BY <3>2, <3>4 DEF WindingDown
      <4>2. q \in Shard(e) /\ clock + 1 <= TotalTime + windDown(q)
        BY <1>1, <1>2, <4>1 DEF slots
      <4> QED BY <4>2 DEF MayWindDown
    <3> QED BY <1>8, <2>2, <3>3, <3>4 DEF Tick
  <2>3. \A e \in Endpoints : job[e] = "push" =>
          /\ MayWindDown(e, pushedAt[e]) /\ pushedAt[e] <= clock + 1
          /\ clock + 1 <= pushedAt[e] + LokiTime
    BY <1>1, <2>1 DEF TimeInv
  <2> QED BY <1>5, <2>1, <2>2, <2>3 DEF TimeInv, MayWindDown
<1>9. ASSUME NEW e \in Endpoints, PushSummary(e) \/ Answer(e) PROVE TimeInv'
  <2>1. job \in [Endpoints -> {"none", "open", "push", "silent", "answered", "failed"}]
    BY DEF TypeOK
  <2>2. pushedAt \in [Endpoints -> 0..RpcTime]
    BY DEF TypeOK
  <2>3. UNCHANGED <<clock, lost, assignment>>
    BY <1>9 DEF PushSummary, Answer, inputVars
  <2>4. CASE PushSummary(e)
    <3>1. \A f \in Endpoints : f # e => job'[f] = job[f] /\ pushedAt'[f] = pushedAt[f]
      BY <2>1, <2>2, <2>4 DEF PushSummary
    <3>2. job'[e] = "push" /\ pushedAt'[e] = clock /\ MayWindDown(e, clock)
      BY <2>1, <2>2, <2>4 DEF PushSummary, TimeInv
    <3>3. clock <= clock /\ clock <= clock + LokiTime
      BY <1>1
    <3> QED BY <1>5, <2>3, <3>1, <3>2, <3>3 DEF TimeInv, MayWindDown
  <2>5. CASE Answer(e)
    <3>1. \A f \in Endpoints : f # e => job'[f] = job[f] /\ pushedAt'[f] = pushedAt[f]
      BY <2>1, <2>2, <2>5 DEF Answer
    <3>2. job'[e] = "answered"
      BY <2>1, <2>5 DEF Answer
    <3> QED BY <1>5, <2>3, <3>1, <3>2 DEF TimeInv, MayWindDown
  <2> QED BY <1>9, <2>4, <2>5
<1>10. ASSUME NEW e \in Endpoints, CallExpires(e) PROVE TimeInv'
  <2>1. job[e] \in {"open", "push", "silent"} /\ clock = RpcTime
    BY <1>10 DEF CallExpires
  <2>2. job[e] # "open"
    <3> SUFFICES ASSUME job[e] = "open" PROVE FALSE
      OBVIOUS
    <3>1. PICK p \in Shard(e) : clock <= TotalTime + windDown(p)
      BY DEF TimeInv, MayWindDown
    <3>2. p \in batch /\ windDown(p) \in Nat
      BY <1>2, <3>1 DEF Shard
    <3> QED BY <1>1, <2>1, <3>1, <3>2
  <2>3. job[e] # "push"
    <3> SUFFICES ASSUME job[e] = "push" PROVE FALSE
      OBVIOUS
    <3>1. PICK p \in Shard(e) : pushedAt[e] <= TotalTime + windDown(p)
      BY DEF TimeInv, MayWindDown
    <3>2. p \in batch /\ windDown(p) \in Nat /\ clock <= pushedAt[e] + LokiTime
      BY <1>2, <3>1 DEF Shard, TimeInv
    <3> QED BY <1>1, <2>1, <3>1, <3>2
  <2>4. e \in lost
    BY <2>1, <2>2, <2>3 DEF TimeInv
  <2>5. UNCHANGED <<clock, pushedAt, lost, assignment>> /\ job' = [job EXCEPT ![e] = "failed"]
    BY <1>10 DEF CallExpires, inputVars
  <2>6. \A f \in Endpoints : job'[f] = IF f = e THEN "failed" ELSE job[f]
    BY <2>5 DEF TypeOK
  <2> QED BY <1>5, <2>4, <2>5, <2>6 DEF TimeInv, MayWindDown
<1>11. ASSUME NEW e \in Endpoints, CallFails(e) \/ GoSilent(e) PROVE TimeInv'
  <2>1. /\ UNCHANGED <<clock, pushedAt, assignment>> /\ lost' = lost \union {e}
        /\ \A f \in Endpoints : f # e => job'[f] = job[f]
        /\ job'[e] \in {"silent", "failed"}
    BY <1>11 DEF CallFails, GoSilent, inputVars, TypeOK
  <2> QED BY <1>5, <2>1 DEF TimeInv, MayWindDown
<1>12. CASE UNCHANGED <<clock, job, pushedAt, lost, assignment>>
  BY <1>5, <1>12 DEF TimeInv, MayWindDown
<1>13. CASE Merge \/ UNCHANGED passVars
  BY <1>12, <1>13 DEF Merge, passVars, inputVars, jobVars
<1>14. ASSUME NEW p \in Providers, StartProvider(p) \/ StartTooLate(p) \/ FinishProvider(p)
       PROVE  TimeInv'
  BY <1>12, <1>14 DEF StartProvider, StartTooLate, FinishProvider, inputVars
<1> QED BY <1>6, <1>7, <1>8, <1>9, <1>10, <1>11, <1>13, <1>14 DEF Next, PassStep

\* An agent that is not lost answers before the coordinator's timeout, however
\* many providers, slots and agents there are, when its job has a time of its own
\* and the timeout leaves room for the checks, for the pauses of the slowest
\* provider after the deadline and for the summary (withTotalTimeout,
\* checkProviderFiles, Run, fanoutRunChecks).
THEOREM AnswersArriveInTime == Spec => []AnsweredUnlessLost
<1> DEFINE IInv == /\ TypeOK /\ HandOutInv /\ QuietInv
                   /\ TimesLeaveRoom => TimeInv
<1>1. Init => IInv
  BY InitType, InitHandOut, InitCut, InitTime
<1>2. IInv /\ [Next]_passVars => IInv'
  <2> SUFFICES ASSUME IInv, [Next]_passVars PROVE IInv'
    OBVIOUS
  <2>1. TypeOK' /\ HandOutInv' /\ QuietInv'
    BY TypeStep, HandOutStep, QuietStep
  <2>2. ASSUME TimesLeaveRoom' PROVE TimeInv'
    <3>1. TimesLeaveRoom
      BY <2>2, WindDownKept DEF TimesLeaveRoom
    <3> QED BY <3>1, TimeStep
  <2> QED BY <2>1, <2>2
<1>3. IInv => AnsweredUnlessLost
  BY DEF TimesLeaveRoom, TimeInv, AnsweredUnlessLost
<1> QED BY <1>1, <1>2, <1>3, PTL DEF Spec

-----------------------------------------------------------------------------
(* The outcome of a pass, as StoreProof takes it *)

\* There is a call only to an agent with a shard, and only for bags of the request.
CallInv ==
  /\ phase \in {"input", "assigned"} => \A e \in Endpoints : job[e] = "none"
  /\ phase \notin {"input", "assigned"} => \A c \in todo : ProviderOf[c] \in batch
  /\ \A e \in Endpoints : job[e] # "none" => Shard(e) # {}

\* An agent that has finished is done with its shard, and a provider that is done
\* has a reported result for each of its bags.
ReportInv ==
  /\ \A e \in Endpoints : job[e] \in {"push", "answered"} => \A p \in Shard(e) : check[p] = "done"
  /\ \A p \in Providers : check[p] = "done" =>
       \A c \in Bags(todo, p) : \E r \in Reported : outcome[c] = class(r)
  /\ phase = "merged" => /\ committed = {c \in todo : mergedClass(c) # "retriable"}
                         /\ \E e \in Endpoints : job[e] = "answered"

\* Nothing is called or reported at first.
LEMMA InitReport == Init => CallInv /\ ReportInv
  BY DEF Init, CallInv, ReportInv

\* Calls begin with the fan-out; the shards stay as they are from then on.
LEMMA CallStep == TypeOK /\ HandOutInv /\ QuietInv /\ CallInv /\ [Next]_passVars => CallInv'
<1> SUFFICES ASSUME TypeOK, HandOutInv, QuietInv, CallInv, [Next]_passVars PROVE CallInv'
  OBVIOUS
<1> USE DEF CallInv, Shard
<1>1. ASSUME NEW p \in Providers, Assign(p) PROVE CallInv'
  BY <1>1 DEF Assign, jobVars
<1>2. CASE Send
  BY <1>2 DEF Send
<1>3. CASE /\ UNCHANGED <<inputVars, job>>
           /\ phase' = phase \/ (phase = "running" /\ phase' \in {"merged", "error"})
  BY <1>3 DEF inputVars
<1>4. CASE Merge \/ Tick \/ UNCHANGED passVars
  BY <1>3, <1>4 DEF Merge, Tick, passVars, jobVars
<1>5. ASSUME NEW e \in Endpoints,
             PushSummary(e) \/ Answer(e) \/ CallExpires(e) \/ CallFails(e) \/ GoSilent(e)
      PROVE  CallInv'
  <2>1. job[e] # "none" /\ UNCHANGED <<phase, todo, batch, assignment>>
    BY <1>5 DEF PushSummary, Answer, CallExpires, CallFails, GoSilent, inputVars
  <2>2. \A f \in Endpoints : job'[f] # "none" => job[f] # "none"
    BY <1>5 DEF PushSummary, Answer, CallExpires, CallFails, GoSilent, TypeOK
  <2>3. phase \notin {"input", "assigned"}
    BY <2>1
  <2> QED BY <2>1, <2>2, <2>3
<1>6. ASSUME NEW p \in Providers, StartProvider(p) \/ StartTooLate(p) \/ FinishProvider(p)
      PROVE  CallInv'
  BY <1>3, <1>6 DEF StartProvider, StartTooLate, FinishProvider
<1> QED BY <1>1, <1>2, <1>4, <1>5, <1>6 DEF Next, PassStep

\* An agent answers only with the results of its whole shard.
LEMMA ReportStep ==
  TypeOK /\ HandOutInv /\ QuietInv /\ CallInv /\ ReportInv /\ [Next]_passVars => ReportInv'
<1> SUFFICES ASSUME TypeOK, HandOutInv, QuietInv, CallInv, ReportInv, [Next]_passVars
             PROVE  ReportInv'
  OBVIOUS
<1> DEFINE Done == \A e \in Endpoints :
                     job[e] \in {"push", "answered"} => \A p \in Shard(e) : check[p] = "done"
           Full == \A p \in Providers : check[p] = "done" =>
                     \A c \in Bags(todo, p) : \E r \in Reported : outcome[c] = class(r)
<1>1. ASSUME NEW p \in Providers, Assign(p) PROVE ReportInv'
  <2>1. \A e \in Endpoints : job'[e] = "none"
    BY <1>1 DEF Assign, CallInv, jobVars
  <2>2. \A q \in Providers : check'[q] = "none"
    BY <1>1 DEF Assign, HandOutInv, jobVars
  <2>3. phase' # "merged"
    BY <1>1 DEF Assign
  <2> QED BY <2>1, <2>2, <2>3 DEF ReportInv
<1>2. CASE Send
  <2>1. \A e \in Endpoints : job'[e] \in {"none", "open", "failed"}
    BY <1>2 DEF Send
  <2>2. \A p \in Providers : check'[p] # "done"
    BY <1>2 DEF Send
  <2>3. phase' = "running"
    BY <1>2 DEF Send
  <2> QED BY <2>1, <2>2, <2>3 DEF ReportInv
<1>3. CASE Merge
  <2>1. UNCHANGED <<todo, batch, assignment, job, check, outcome>>
    BY <1>3 DEF Merge, inputVars, jobVars
  <2>2. Done' /\ Full'
    BY <2>1 DEF ReportInv, Shard, Bags
  <2>3. phase' = "merged" => /\ committed' = {c \in todo : mergedClass(c) # "retriable"}
                             /\ \E e \in Endpoints : job[e] = "answered"
    BY <1>3 DEF Merge
  <2>4. \A c : mergedClass(c)' = mergedClass(c)
    BY <2>1 DEF mergedClass
  <2> QED BY <2>1, <2>2, <2>3, <2>4 DEF ReportInv
<1>4. CASE Tick \/ UNCHANGED passVars
  BY <1>4 DEF Tick, passVars, inputVars, jobVars, ReportInv, Shard, Bags, mergedClass
<1>5. ASSUME NEW e \in Endpoints,
             PushSummary(e) \/ Answer(e) \/ CallExpires(e) \/ CallFails(e) \/ GoSilent(e)
      PROVE  ReportInv'
  <2>1. phase = "running" /\ UNCHANGED <<phase, todo, batch, assignment, check, outcome>>
    BY <1>5 DEF QuietInv, PushSummary, Answer, CallExpires, CallFails, GoSilent, inputVars
  <2>2. Full' /\ phase' # "merged"
    BY <2>1 DEF ReportInv, Bags
  <2>3. Done'
    BY <1>5, <2>1 DEF ReportInv, Shard, PushSummary, Answer, CallExpires, CallFails, GoSilent, TypeOK
  <2> QED BY <2>2, <2>3 DEF ReportInv
<1>6. ASSUME NEW p \in Providers, StartProvider(p) \/ StartTooLate(p) \/ FinishProvider(p)
      PROVE  ReportInv'
  <2>1. job[assignment[p]] = "open" /\ check[p] \in {"queued", "slot"}
    BY <1>6 DEF StartProvider, StartTooLate, FinishProvider, SlotFree
  <2>2. assignment[p] \in Endpoints
    BY <2>1 DEF HandOutInv
  <2>3. phase = "running" /\ UNCHANGED <<phase, todo, batch, assignment, job>>
    BY <1>6, <2>1, <2>2 DEF QuietInv, StartProvider, StartTooLate, FinishProvider, inputVars
  <2>4. \A q \in Providers : q # p => check'[q] = check[q]
    BY <1>6 DEF StartProvider, StartTooLate, FinishProvider, TypeOK
  <2>5. Done'
    <3> SUFFICES ASSUME NEW e \in Endpoints, job[e] \in {"push", "answered"}, NEW q \in Shard(e)
                 PROVE  check'[q] = "done"
      BY <2>3 DEF Shard
    <3>1. q \in Providers /\ check[q] = "done"
      BY DEF ReportInv, Shard, TypeOK
    <3> QED BY <2>1, <2>4, <3>1
  <2>6. \A c \in Contracts \ Bags(todo, p) : outcome'[c] = outcome[c]
    BY <1>6 DEF StartProvider, StartTooLate, FinishProvider
  <2>7. \A q \in Providers : q # p => \A c \in Bags(todo, q) : c \in Contracts \ Bags(todo, p)
    BY DEF Bags, TypeOK
  <2>8. check'[p] = "done" => \A c \in Bags(todo, p) : \E r \in Reported : outcome'[c] = class(r)
    <3>1. Bags(todo, p) \subseteq Contracts
      BY DEF Bags, TypeOK
    <3>2. CASE StartProvider(p)
      BY <3>2 DEF StartProvider, TypeOK
    <3>3. CASE StartTooLate(p)
      BY <3>1, <3>3 DEF StartTooLate, Reported, CutReasons
    <3>4. CASE FinishProvider(p)
      <4>1. PICK late \in SUBSET Bags(todo, p), o \in [Bags(todo, p) -> Class] :
              /\ \A c \in Bags(todo, p) :
                   \E r \in (IF c \in late THEN CutReasons ELSE InTimeReasons) : o[c] = class(r)
              /\ outcome' = [c \in Contracts |-> IF c \in Bags(todo, p) THEN o[c] ELSE outcome[c]]
        BY <3>4 DEF FinishProvider
      <4>2. \A c \in Bags(todo, p) : \E r \in Reported : o[c] = class(r)
        BY <4>1 DEF Reported
      <4> QED BY <3>1, <4>1, <4>2
    <3> QED BY <1>6, <3>2, <3>3, <3>4
  <2>9. Full'
    <3> SUFFICES ASSUME NEW q \in Providers, check'[q] = "done", NEW c \in Bags(todo, q)
                 PROVE  \E r \in Reported : outcome'[c] = class(r)
      BY <2>3 DEF Bags
    <3>1. CASE q = p
      BY <2>8, <3>1
    <3>2. CASE q # p
      BY <2>4, <2>6, <2>7, <3>2 DEF ReportInv
    <3> QED BY <3>1, <3>2
  <2> QED BY <2>3, <2>5, <2>9 DEF ReportInv
<1> QED BY <1>1, <1>2, <1>3, <1>4, <1>5, <1>6 DEF Next, PassStep

\* A merged pass has an outcome StoreProof allows: no agent answers for a part of
\* its shard only, whatever the deadlines cut (Run, mergeRunChecksResponses).
THEOREM PassOutcomeAllowed == Spec => []PassOutcome
<1> DEFINE IInv == TypeOK /\ HandOutInv /\ QuietInv /\ CallInv /\ ReportInv
<1>1. Init => IInv
  BY InitType, InitHandOut, InitCut, InitReport
<1>2. IInv /\ [Next]_passVars => IInv'
  BY TypeStep, HandOutStep, QuietStep, CallStep, ReportStep
<1>3. IInv => PassOutcome
  <2> SUFFICES ASSUME TypeOK, HandOutInv, CallInv, ReportInv, phase = "merged" PROVE PassOutcome
    BY DEF PassOutcome
  <2> DEFINE Responded == {e \in Endpoints : job[e] = "answered"}
             Theirs == {c \in todo : assignment[ProviderOf[c]] \in Responded}
             Verdict == [c \in Theirs |-> CHOOSE r \in Reported : outcome[c] = class(r)]
  <2>1. Responded \in Answers(assignment)
    <3>1. \A e \in Responded : \E p \in Providers : assignment[p] # NoAgent /\ e = assignment[p]
      BY ShardAssumption DEF CallInv, Shard, TypeOK, NoAgent
    <3>2. Responded # {}
      BY DEF ReportInv
    <3> QED BY <3>1, <3>2 DEF Answers
  <2>2. \A c \in Theirs : \E r \in Reported : outcome[c] = class(r)
    <3> TAKE c \in Theirs
    <3>1. ProviderOf[c] \in batch /\ ProviderOf[c] \in Providers /\ c \in Bags(todo, ProviderOf[c])
      BY DEF CallInv, TypeOK, Bags
    <3>2. check[ProviderOf[c]] = "done"
      BY <3>1 DEF ReportInv, Shard
    <3> QED BY <3>1, <3>2 DEF ReportInv
  <2>3. \A c \in Theirs : Verdict[c] \in Reported /\ outcome[c] = class(Verdict[c])
    BY <2>2
  <2>4. Verdict \in [Theirs -> Reported]
    BY <2>3
  <2>5. \A r : class(r) # "retriable" <=> ~isRetriableReason(r)
    BY DEF class, isRetriableReason
  <2>6. \A c \in todo : mergedClass(c) = class(merged(c, assignment, Responded, Verdict))
    <3> TAKE c \in todo
    <3>1. assignment[ProviderOf[c]] \in Endpoints
      BY DEF CallInv, HandOutInv
    <3> QED BY <2>3, <3>1 DEF mergedClass, merged
  <2>7. committed = {c \in todo : mergedClass(c) # "retriable"}
    BY DEF ReportInv
  <2> HIDE DEF Verdict, Responded
  <2>8. committed = {c \in todo : ~isRetriableReason(merged(c, assignment, Responded, Verdict))}
    BY <2>5, <2>6, <2>7
  <2> QED BY <2>1, <2>4, <2>6, <2>8 DEF PassOutcome
<1> QED BY <1>1, <1>2, <1>3, PTL DEF Spec

-----------------------------------------------------------------------------
(* Every pass ends: it is never stuck, and it cannot go on for ever.       *)

\* Every provider of a running pass is queued, checked or done, and there is a
\* call for every shard.
StartedInv ==
  phase = "running" => /\ \A p \in batch : check[p] # "none"
                       /\ \A e \in Endpoints : Shard(e) # {} => job[e] # "none"

\* Nothing runs at first.
LEMMA InitStarted == Init => StartedInv
  BY DEF Init, StartedInv

\* The fan-out queues every provider and calls every agent with a shard; no step
\* takes that back.
LEMMA StartedStep == TypeOK /\ StartedInv /\ [Next]_passVars => StartedInv'
<1> SUFFICES ASSUME TypeOK, StartedInv, [Next]_passVars, phase' = "running"
             PROVE  /\ \A p \in batch' : check'[p] # "none"
                    /\ \A e \in Endpoints : Shard(e)' # {} => job'[e] # "none"
  BY DEF StartedInv
<1>1. ASSUME NEW p \in Providers, Assign(p) PROVE FALSE
  BY <1>1 DEF Assign
<1>2. CASE Send
  BY <1>2 DEF Send, Shard, TypeOK
<1>3. CASE Merge
  BY <1>3 DEF Merge
<1>4. CASE Tick \/ UNCHANGED passVars
  BY <1>4 DEF Tick, passVars, inputVars, jobVars, StartedInv, Shard
<1>5. ASSUME NEW e \in Endpoints,
             PushSummary(e) \/ Answer(e) \/ CallExpires(e) \/ CallFails(e) \/ GoSilent(e)
      PROVE  /\ \A p \in batch' : check'[p] # "none"
             /\ \A f \in Endpoints : Shard(f)' # {} => job'[f] # "none"
  <2>1. UNCHANGED <<phase, batch, assignment, check>>
    BY <1>5 DEF PushSummary, Answer, CallExpires, CallFails, GoSilent, inputVars
  <2>2. \A f \in Endpoints : job[f] # "none" => job'[f] # "none"
    BY <1>5 DEF PushSummary, Answer, CallExpires, CallFails, GoSilent, TypeOK
  <2> QED BY <2>1, <2>2 DEF StartedInv, Shard
<1>6. ASSUME NEW p \in Providers, StartProvider(p) \/ StartTooLate(p) \/ FinishProvider(p)
      PROVE  /\ \A q \in batch' : check'[q] # "none"
             /\ \A e \in Endpoints : Shard(e)' # {} => job'[e] # "none"
  <2>1. UNCHANGED <<phase, batch, assignment, job>>
    BY <1>6 DEF StartProvider, StartTooLate, FinishProvider, inputVars
  <2>2. \A q \in Providers : check[q] # "none" => check'[q] # "none"
    BY <1>6 DEF StartProvider, StartTooLate, FinishProvider, TypeOK
  <2> QED BY <2>1, <2>2 DEF StartedInv, Shard, TypeOK
<1> QED BY <1>1, <1>2, <1>3, <1>4, <1>5, <1>6 DEF Next, PassStep

\* The guards of FinishProvider: there is a result it can report.
CanFinish(p) ==
  /\ check[p] = "slot" /\ job[assignment[p]] = "open"
  /\ \E late \in SUBSET Bags(todo, p), o \in [Bags(todo, p) -> Class] :
       /\ late # {} => clock >= deadline
       /\ \A c \in Bags(todo, p) :
            \E r \in (IF c \in late THEN CutReasons ELSE InTimeReasons) : o[c] = class(r)

\* The guard of a step of the program itself holds: the pass does not need a call
\* to fail in order to go on.
CanMove ==
  \/ \A e \in Endpoints : job[e] \in {"none", "answered", "failed"}                 \* Merge
  \/ \E e \in Endpoints : job[e] = "open" /\ \A p \in Shard(e) : check[p] = "done"  \* PushSummary
  \/ \E e \in Endpoints : job[e] = "push"                                           \* Answer
  \/ \E e \in Endpoints : job[e] \in {"open", "push", "silent"} /\ clock = RpcTime  \* CallExpires
  \/ \E p \in Providers : SlotFree(p)                                               \* StartProvider, StartTooLate
  \/ \E p \in Providers : CanFinish(p)
  \/ /\ clock < RpcTime /\ \E e \in Endpoints : job[e] = "silent"                   \* Tick
     /\ \A e \in Endpoints : job[e] \notin {"open", "push"}

\* A running pass is never stuck, however few slots an agent has and whatever calls
\* are cut off: someone who waits for a slot is behind a check that can end, and a
\* silent call is behind the clock (Run, fanoutRunChecks).
THEOREM PassNeverStuck == Spec => [](phase = "running" => CanMove)
<1> DEFINE IInv == TypeOK /\ HandOutInv /\ StartedInv
<1>1. Init => IInv
  BY InitType, InitHandOut, InitStarted
<1>2. IInv /\ [Next]_passVars => IInv'
  BY TypeStep, HandOutStep, StartedStep
<1>3. IInv => (phase = "running" => CanMove)
  <2> SUFFICES ASSUME TypeOK, HandOutInv, StartedInv, phase = "running" PROVE CanMove
    OBVIOUS
  <2>1. CASE \A e \in Endpoints : job[e] \in {"none", "answered", "failed", "silent"}
    <3>1. clock \in Nat /\ RpcTime \in Nat /\ clock <= RpcTime
      BY PassAssumption DEF TypeOK
    <3> QED BY <2>1, <3>1 DEF CanMove
  <2>2. ASSUME NEW e \in Endpoints, job[e] = "push" PROVE CanMove
    BY <2>2 DEF CanMove
  <2>3. ASSUME NEW e \in Endpoints, job[e] = "open" PROVE CanMove
    <3>1. CASE \A p \in Shard(e) : check[p] = "done"
      BY <2>3, <3>1 DEF CanMove
    <3>2. ASSUME NEW p \in Shard(e), check[p] = "slot" PROVE CanMove
      <4>1. p \in Providers /\ job[assignment[p]] = "open"
        BY <2>3, <3>2 DEF Shard, TypeOK
      <4>2. PICK r \in InTimeReasons : TRUE
        BY PassAssumption
      <4> DEFINE o == [c \in Bags(todo, p) |-> class(r)]
      <4>3. o \in [Bags(todo, p) -> Class]
        BY ClassType
      <4>4. CanFinish(p)
        <5> DEFINE Reasons(late, c) == IF c \in late THEN CutReasons ELSE InTimeReasons
        <5>1. \A c \in Bags(todo, p) : \E d \in Reasons({}, c) : o[c] = class(d)
          BY <4>2
        <5>2. {} \in SUBSET Bags(todo, p)
          OBVIOUS
        <5> HIDE DEF o
        <5>3. \E late \in SUBSET Bags(todo, p), w \in [Bags(todo, p) -> Class] :
                /\ late # {} => clock >= deadline
                /\ \A c \in Bags(todo, p) : \E d \in Reasons(late, c) : w[c] = class(d)
          <6> HIDE DEF Reasons
          <6> QED BY <4>3, <5>1, <5>2, Zenon
        <5> QED BY <3>2, <4>1, <5>3 DEF CanFinish
      <4> QED BY <4>1, <4>4 DEF CanMove
    <3>3. ASSUME NEW p \in Shard(e), check[p] = "queued", \A q \in Shard(e) : check[q] # "slot"
          PROVE  CanMove
      <4>1. slots(e) = {}
        BY <3>3 DEF slots
      <4>2. Cardinality(slots(e)) < MaxConcurrentProviders
        BY <4>1, FS_EmptySet, PassAssumption
      <4>3. p \in Providers /\ assignment[p] = e
        BY <3>3 DEF Shard, TypeOK
      <4>4. SlotFree(p)
        BY <2>3, <3>3, <4>2, <4>3 DEF SlotFree
      <4> QED BY <4>3, <4>4 DEF CanMove
    <3>4. \A p \in Shard(e) : check[p] \in {"queued", "slot", "done"}
      BY DEF StartedInv, Shard, TypeOK
    <3> QED BY <3>1, <3>2, <3>3, <3>4
  <2>4. \A e \in Endpoints : job[e] \in {"none", "open", "push", "silent", "answered", "failed"}
    BY DEF TypeOK
  <2> QED BY <2>1, <2>2, <2>3, <2>4
<1> QED BY <1>1, <1>2, <1>3, PTL DEF Spec

\* The bags whose provider waits or is checked, and those whose call is in one of
\* the states S.
Queued == {c \in todo : check[ProviderOf[c]] = "queued"}
Unchecked == {c \in todo : check[ProviderOf[c]] \in {"queued", "slot"}}
Called(S) == {c \in todo : job[assignment[ProviderOf[c]]] \in S}

\* How many steps a pass has left at most: what is left of the time, a step for
\* every change of a provider or of a call, counted in bags.
StepsLeft ==
  (RpcTime - clock) + Cardinality(Queued) + Cardinality(Unchecked)
    + Cardinality(Called({"open"})) + Cardinality(Called({"open", "push"}))
    + Cardinality(Called({"open", "push", "silent"}))

\* Every step of a running pass, of the program or of its environment, brings the
\* merge closer.
RunsDown ==
  phase = "running" /\ phase' = "running" => /\ StepsLeft \in Nat /\ StepsLeft' \in Nat
                                             /\ StepsLeft' < StepsLeft

\* Nothing to do is added, and something is done.
NothingAdded ==
  /\ clock <= clock' /\ Queued' \subseteq Queued /\ Unchecked' \subseteq Unchecked
  /\ Called({"open"})' \subseteq Called({"open"})
  /\ Called({"open", "push"})' \subseteq Called({"open", "push"})
  /\ Called({"open", "push", "silent"})' \subseteq Called({"open", "push", "silent"})

SomethingDone ==
  \/ clock < clock' \/ Queued' # Queued \/ Unchecked' # Unchecked
  \/ Called({"open"})' # Called({"open"})
  \/ Called({"open", "push"})' # Called({"open", "push"})
  \/ Called({"open", "push", "silent"})' # Called({"open", "push", "silent"})

\* Fewer bags in one of the sets, or less time, and no more of anything else.
LEMMA FewerSteps ==
  ASSUME TypeOK, TypeOK', NothingAdded, SomethingDone
  PROVE  StepsLeft \in Nat /\ StepsLeft' \in Nat /\ StepsLeft' < StepsLeft
<1>1. /\ RpcTime - clock \in Nat /\ RpcTime - clock' \in Nat
      /\ RpcTime - clock' <= RpcTime - clock
      /\ clock < clock' => RpcTime - clock' < RpcTime - clock
  <2>1. clock \in 0..RpcTime /\ clock' \in 0..RpcTime /\ clock <= clock'
    BY DEF TypeOK, NothingAdded
  <2>2. RpcTime \in Nat
    BY PassAssumption
  <2>3. clock \in Nat /\ clock' \in Nat /\ clock <= RpcTime /\ clock' <= RpcTime
    BY <2>1, <2>2
  <2>4. \A i, j \in Nat : i <= j /\ j <= RpcTime =>
          /\ RpcTime - i \in Nat /\ RpcTime - j \in Nat /\ RpcTime - j <= RpcTime - i
          /\ i < j => RpcTime - j < RpcTime - i
    BY <2>2
  <2> QED BY <2>1, <2>3, <2>4
<1>2. /\ Queued \in SUBSET Contracts /\ Unchecked \in SUBSET Contracts
      /\ Called({"open"}) \in SUBSET Contracts /\ Called({"open", "push"}) \in SUBSET Contracts
      /\ Called({"open", "push", "silent"}) \in SUBSET Contracts
  BY DEF TypeOK, Queued, Unchecked, Called
<1>3. ASSUME NEW S \in SUBSET Contracts, NEW R \in SUBSET S
      PROVE  /\ Cardinality(S) \in Nat /\ Cardinality(R) \in Nat /\ Cardinality(R) <= Cardinality(S)
             /\ R # S => Cardinality(R) < Cardinality(S)
  BY BagsCounted, CountsGrow
<1>4. /\ Cardinality(Queued) \in Nat /\ Cardinality(Queued') \in Nat
      /\ Cardinality(Queued') <= Cardinality(Queued)
      /\ Queued' # Queued => Cardinality(Queued') < Cardinality(Queued)
  BY <1>2, <1>3 DEF NothingAdded
<1>5. /\ Cardinality(Unchecked) \in Nat /\ Cardinality(Unchecked') \in Nat
      /\ Cardinality(Unchecked') <= Cardinality(Unchecked)
      /\ Unchecked' # Unchecked => Cardinality(Unchecked') < Cardinality(Unchecked)
  BY <1>2, <1>3 DEF NothingAdded
<1>6. /\ Cardinality(Called({"open"})) \in Nat /\ Cardinality(Called({"open"})') \in Nat
      /\ Cardinality(Called({"open"})') <= Cardinality(Called({"open"}))
      /\ Called({"open"})' # Called({"open"}) =>
           Cardinality(Called({"open"})') < Cardinality(Called({"open"}))
  BY <1>2, <1>3 DEF NothingAdded
<1>7. /\ Cardinality(Called({"open", "push"})) \in Nat /\ Cardinality(Called({"open", "push"})') \in Nat
      /\ Cardinality(Called({"open", "push"})') <= Cardinality(Called({"open", "push"}))
      /\ Called({"open", "push"})' # Called({"open", "push"}) =>
           Cardinality(Called({"open", "push"})') < Cardinality(Called({"open", "push"}))
  BY <1>2, <1>3 DEF NothingAdded
<1>8. /\ Cardinality(Called({"open", "push", "silent"})) \in Nat
      /\ Cardinality(Called({"open", "push", "silent"})') \in Nat
      /\ Cardinality(Called({"open", "push", "silent"})') <= Cardinality(Called({"open", "push", "silent"}))
      /\ Called({"open", "push", "silent"})' # Called({"open", "push", "silent"}) =>
           Cardinality(Called({"open", "push", "silent"})') < Cardinality(Called({"open", "push", "silent"}))
  BY <1>2, <1>3 DEF NothingAdded
<1>9. /\ StepsLeft = (RpcTime - clock) + Cardinality(Queued) + Cardinality(Unchecked)
                       + Cardinality(Called({"open"})) + Cardinality(Called({"open", "push"}))
                       + Cardinality(Called({"open", "push", "silent"}))
      /\ StepsLeft' = (RpcTime - clock') + Cardinality(Queued') + Cardinality(Unchecked')
                        + Cardinality(Called({"open"})') + Cardinality(Called({"open", "push"})')
                        + Cardinality(Called({"open", "push", "silent"})')
  BY DEF StepsLeft
<1>10. \/ clock < clock' \/ Queued' # Queued \/ Unchecked' # Unchecked
       \/ Called({"open"})' # Called({"open"})
       \/ Called({"open", "push"})' # Called({"open", "push"})
       \/ Called({"open", "push", "silent"})' # Called({"open", "push", "silent"})
  BY DEF SomethingDone
<1> QED BY <1>1, <1>4, <1>5, <1>6, <1>7, <1>8, <1>9, <1>10

\* A step of an agent's call takes its bags out of one of the sets of calls.
LEMMA CallsRunDown ==
  ASSUME TypeOK, HandOutInv, CallInv, TypeOK', NEW e \in Endpoints,
         PushSummary(e) \/ Answer(e) \/ CallExpires(e) \/ CallFails(e) \/ GoSilent(e)
  PROVE  StepsLeft \in Nat /\ StepsLeft' \in Nat /\ StepsLeft' < StepsLeft
<1>1. /\ UNCHANGED <<clock, todo, assignment, check>>
      /\ job[e] \in {"open", "push", "silent"} /\ job \in [Endpoints -> {"none", "open", "push", "silent", "answered", "failed"}]
  BY DEF PushSummary, Answer, CallExpires, CallFails, GoSilent, inputVars, TypeOK
<1>2. PICK n : /\ job' = [job EXCEPT ![e] = n]
               /\ \/ job[e] = "open" /\ n \in {"push", "silent", "failed"}
                  \/ job[e] = "push" /\ n \in {"silent", "answered", "failed"}
                  \/ job[e] = "silent" /\ n = "failed"
  BY DEF PushSummary, Answer, CallExpires, CallFails, GoSilent
<1>3. PICK c \in todo : assignment[ProviderOf[c]] = e
  <2>1. PICK p \in batch : assignment[p] = e
    BY <1>1 DEF CallInv, Shard
  <2>2. Bags(todo, p) # {}
    BY DEF HandOutInv
  <2> QED BY <2>1, <2>2 DEF Bags
<1>4. Queued' = Queued /\ Unchecked' = Unchecked
  BY <1>1 DEF Queued, Unchecked
<1>5. \A d \in todo : assignment[ProviderOf[d]] # e =>
        job'[assignment[ProviderOf[d]]] = job[assignment[ProviderOf[d]]]
  BY <1>1, <1>2
<1>6. job'[e] = n
  BY <1>1, <1>2
<1>7. /\ Called({"open"})' \subseteq Called({"open"})
      /\ Called({"open", "push"})' \subseteq Called({"open", "push"})
      /\ Called({"open", "push", "silent"})' \subseteq Called({"open", "push", "silent"})
  BY <1>1, <1>2, <1>5, <1>6 DEF Called
<1>8. \/ c \in Called({"open"}) /\ c \notin Called({"open"})'
      \/ c \in Called({"open", "push"}) /\ c \notin Called({"open", "push"})'
      \/ c \in Called({"open", "push", "silent"}) /\ c \notin Called({"open", "push", "silent"})'
  BY <1>1, <1>2, <1>3, <1>6 DEF Called
<1>9. clock <= clock'
  BY <1>1, PassAssumption DEF TypeOK
<1>10. NothingAdded
  BY <1>4, <1>7, <1>9 DEF NothingAdded
<1>11. SomethingDone
  BY <1>8 DEF SomethingDone
<1> QED BY <1>10, <1>11, FewerSteps

\* A step of a provider takes its bags out of the queue or out of the checks.
LEMMA ChecksRunDown ==
  ASSUME TypeOK, HandOutInv, TypeOK', NEW p \in Providers,
         StartProvider(p) \/ StartTooLate(p) \/ FinishProvider(p)
  PROVE  StepsLeft \in Nat /\ StepsLeft' \in Nat /\ StepsLeft' < StepsLeft
<1>1. /\ UNCHANGED <<clock, todo, assignment, job>>
      /\ check[p] \in {"queued", "slot"} /\ check \in [Providers -> {"none", "queued", "slot", "done"}]
  BY DEF StartProvider, StartTooLate, FinishProvider, SlotFree, inputVars, TypeOK
<1>2. PICK n : /\ check' = [check EXCEPT ![p] = n]
               /\ \/ check[p] = "queued" /\ n \in {"slot", "done"}
                  \/ check[p] = "slot" /\ n = "done"
  BY DEF StartProvider, StartTooLate, FinishProvider, SlotFree
<1>3. PICK c \in todo : ProviderOf[c] = p
  <2>1. Bags(todo, p) # {}
    BY <1>1 DEF HandOutInv
  <2> QED BY <2>1 DEF Bags
<1>4. /\ Called({"open"})' = Called({"open"})
      /\ Called({"open", "push"})' = Called({"open", "push"})
      /\ Called({"open", "push", "silent"})' = Called({"open", "push", "silent"})
  BY <1>1 DEF Called
<1>5. \A d \in todo : ProviderOf[d] \in Providers
  BY ShardAssumption DEF TypeOK
<1>6. Queued' \subseteq Queued /\ Unchecked' \subseteq Unchecked
  BY <1>1, <1>2, <1>5 DEF Queued, Unchecked
<1>7. \/ c \in Queued /\ c \notin Queued'
      \/ c \in Unchecked /\ c \notin Unchecked'
  BY <1>1, <1>2, <1>3 DEF Queued, Unchecked
<1>8. clock <= clock'
  BY <1>1, PassAssumption DEF TypeOK
<1>9. NothingAdded
  BY <1>4, <1>6, <1>8 DEF NothingAdded
<1>10. SomethingDone
  BY <1>7 DEF SomethingDone
<1> QED BY <1>9, <1>10, FewerSteps

\* A pass cannot go on for ever: every step of it leaves fewer steps, whatever the
\* agents, the network and the providers do.  With PassNeverStuck this is PassEnds
\* for every value of the constants, short of the rule that fairness gives
\* (withTotalTimeout, Run, fanoutRunChecks).
THEOREM PassRunsDown == Spec => [][RunsDown]_passVars
<1> DEFINE IInv == TypeOK /\ HandOutInv /\ QuietInv /\ CallInv
<1>1. Init => IInv
  BY InitType, InitHandOut, InitCut, InitReport
<1>2. IInv /\ [Next]_passVars => IInv'
  BY TypeStep, HandOutStep, QuietStep, CallStep
<1>3. IInv /\ IInv' /\ [Next]_passVars => [RunsDown]_passVars
  <2> SUFFICES ASSUME IInv, IInv', Next, phase = "running", phase' = "running"
               PROVE  StepsLeft \in Nat /\ StepsLeft' \in Nat /\ StepsLeft' < StepsLeft
    BY DEF RunsDown
  <2>1. ASSUME NEW p \in Providers, Assign(p) PROVE FALSE
    BY <2>1 DEF Assign
  <2>2. CASE Send \/ Merge
    BY <2>2 DEF Send, Merge
  <2>3. CASE Tick
    <3>1. UNCHANGED <<todo, assignment, job, check>> /\ clock' = clock + 1 /\ clock \in Nat
      BY <2>3, PassAssumption DEF Tick, inputVars, jobVars, TypeOK
    <3>2. /\ Queued' = Queued /\ Unchecked' = Unchecked
          /\ Called({"open"})' = Called({"open"})
          /\ Called({"open", "push"})' = Called({"open", "push"})
          /\ Called({"open", "push", "silent"})' = Called({"open", "push", "silent"})
      BY <3>1 DEF Queued, Unchecked, Called
    <3>3. clock <= clock' /\ clock < clock'
      BY <3>1
    <3>4. NothingAdded /\ SomethingDone
      BY <3>2, <3>3 DEF NothingAdded, SomethingDone
    <3> QED BY <3>4, FewerSteps
  <2>4. ASSUME NEW e \in Endpoints,
               PushSummary(e) \/ Answer(e) \/ CallExpires(e) \/ CallFails(e) \/ GoSilent(e)
        PROVE  StepsLeft \in Nat /\ StepsLeft' \in Nat /\ StepsLeft' < StepsLeft
    BY <2>4, CallsRunDown
  <2>5. ASSUME NEW p \in Providers, StartProvider(p) \/ StartTooLate(p) \/ FinishProvider(p)
        PROVE  StepsLeft \in Nat /\ StepsLeft' \in Nat /\ StepsLeft' < StepsLeft
    BY <2>5, ChecksRunDown
  <2> QED BY <2>1, <2>2, <2>3, <2>4, <2>5 DEF Next, PassStep
<1> QED BY <1>1, <1>2, <1>3, PTL DEF Spec
=============================================================================
