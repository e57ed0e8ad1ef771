----------------------------- MODULE KnownProviders -----------------------------
(***************************************************************************)
(* UpdateKnownProviders: every agent is asked for the rates of every known *)
(* provider, the answers are merged, and the statuses and the rates are    *)
(* saved one after the other.  With it the readers of what it saves:       *)
(* UpdateUptime, UpdateRating and the cleaner, and the triggers of the     *)
(* statuses table.  A history is kept as the set of statuses it holds, and *)
(* uptime and rating as whether they are positive.                         *)
(***************************************************************************)
EXTENDS Naturals, FiniteSets, Sequences, SequencesExt

CONSTANTS
  Providers, Agents,
  MaxStorageRatesPubkeys,    \* what an agent accepts in one request
  MaxConcurrentRates,        \* queries an agent has open at a time
  QueryTime, RequestTime     \* time of a query that is not answered, and of the call

ASSUME KnownProvidersAssumption ==
  /\ IsFiniteSet(Providers) /\ IsFiniteSet(Agents)
  /\ MaxStorageRatesPubkeys \in Nat /\ MaxConcurrentRates \in Nat \ {0}
  /\ QueryTime \in Nat /\ RequestTime \in Nat

VARIABLES
  reach,        \* the agents a provider answers
  registered,   \* rows of providers.providers
  isOnline,     \* statuses: "none", "online", "offline"
  history,      \* statuses_history
  lastOnline,   \* providers with a row in last_online
  initialized,  \* providers with is_initialized and rates
  uptime, rating,
  pc, pubkeys,  \* UpdateKnownProviders, and the providers it read
  waiting,      \* agents whose call is open
  responses,    \* answers in the order they came: the providers each has rates of
  updates,      \* providers whose rates are to be saved
  torn          \* history: providers whose status was saved and whose rates were not

knownDB == <<registered, isOnline, history, lastOnline, initialized, uptime, rating>>
callVars == <<pc, pubkeys, waiting, responses, updates>>
knownVars == <<reach, knownDB, callVars, torn>>

\* One type invariant for the tables and the call.
KnownTypeOK ==
  /\ reach \in [Providers -> SUBSET Agents]
  /\ registered \subseteq Providers
  /\ isOnline \in [Providers -> {"none", "online", "offline"}]
  /\ history \in [Providers -> SUBSET {"online", "offline"}]
  /\ lastOnline \subseteq Providers
  /\ initialized \subseteq Providers
  /\ uptime \in [Providers -> {"zero", "positive"}]
  /\ rating \in [Providers -> {"none", "zero", "positive"}]
  /\ pc \in {"idle", "ask", "update"}
  /\ pubkeys \subseteq Providers
  /\ waiting \subseteq Agents
  /\ responses \in Seq(SUBSET Providers)
  /\ updates \subseteq Providers
  /\ torn \subseteq Providers

KnownInit ==
  /\ reach \in [Providers -> SUBSET Agents]
  /\ registered = {}
  /\ isOnline = [p \in Providers |-> "none"]
  /\ history = [p \in Providers |-> {}]
  /\ lastOnline = {} /\ initialized = {}
  /\ uptime = [p \in Providers |-> "zero"]
  /\ rating = [p \in Providers |-> "none"]
  /\ pc = "idle" /\ pubkeys = {} /\ waiting = {} /\ responses = <<>> /\ updates = {}
  /\ torn = {}

-----------------------------------------------------------------------------
\* The agent's side of a call.

\* validateRunStorageRatesRequest.
validateRunStorageRatesRequest == Cardinality(pubkeys) <= MaxStorageRatesPubkeys

\* RunStorageRates ends in time even if every provider that does not answer
\* holds its slot until the query times out.
InTime(a) ==
  LET slow == Cardinality({p \in pubkeys : a \notin reach[p]})
  IN  ((slow + MaxConcurrentRates - 1) \div MaxConcurrentRates) * QueryTime < RequestTime

Returned(a) == pc = "ask" /\ a \in waiting /\ waiting' = waiting \ {a}

\* The answer comes: a row per provider, ok for those that answered this agent.
\* Queries that do not take their whole time can make up for the others.
AgentAnswers(a) ==
  /\ Returned(a)
  /\ validateRunStorageRatesRequest
  /\ responses' = Append(responses, {p \in pubkeys : a \in reach[p]})
  /\ UNCHANGED <<reach, knownDB, pc, pubkeys, updates, torn>>

\* The agent refuses the request or is down, its queries take longer than the
\* call, or its answer is lost.
AgentFails(a) ==
  /\ Returned(a)
  /\ UNCHANGED <<reach, knownDB, pc, pubkeys, responses, updates, torn>>

\* Those of these failures that no network and no restart will cure.
AgentRefuses(a) == AgentFails(a) /\ (~validateRunStorageRatesRequest \/ ~InTime(a))

-----------------------------------------------------------------------------
\* UpdateKnownProviders.

\* GetAllProvidersPubkeys, and one call per agent.
StartRates ==
  /\ pc = "idle" /\ registered # {}
  /\ pc' = "ask" /\ pubkeys' = registered
  /\ waiting' = Agents /\ responses' = <<>>
  /\ UNCHANGED <<reach, knownDB, updates, torn>>

Idle == pc' = "idle" /\ pubkeys' = {} /\ responses' = <<>> /\ updates' = {} /\ UNCHANGED waiting

\* No agent answered: nothing is saved.
NobodyAnswered ==
  /\ pc = "ask" /\ waiting = {} /\ responses = <<>>
  /\ Idle
  /\ UNCHANGED <<reach, knownDB, torn>>

\* Mutant: the answer that came last decides.
mergeLast(p) == p \in responses[Len(responses)]

\* mergeStorageRatesResponses in the order of the answers: a row is taken if
\* there is none yet, or if the one there is has no rates.
mergeStorageRatesResponses(p) ==
  FoldLeft(LAMBDA valid, r : IF valid THEN valid ELSE p \in r, FALSE, responses)

statusOf(p) == IF mergeStorageRatesResponses(p) THEN "online" ELSE "offline"

\* Mutant: only an insert has the trigger.
lastOnlineInsert == lastOnline \union {p \in pubkeys : isOnline[p] = "none" /\ statusOf(p) = "online"}

\* save_last_online.
savedLastOnline == lastOnline \union {p \in pubkeys : statusOf(p) = "online"}

online == {p \in pubkeys : statusOf(p) = "online"}

\* AddStatuses: one upsert with its triggers log_status_history and
\* save_last_online.  The rates of those that are online are still to be saved.
AddStatuses ==
  /\ pc = "ask" /\ waiting = {} /\ responses # <<>>
  /\ pc' = "update" /\ updates' = online
  /\ isOnline' = [p \in Providers |-> IF p \in pubkeys THEN statusOf(p) ELSE isOnline[p]]
  /\ history' = [p \in Providers |->
                   IF p \in pubkeys THEN history[p] \union {statusOf(p)} ELSE history[p]]
  /\ lastOnline' = savedLastOnline
  /\ pubkeys' = {} /\ responses' = <<>>
  /\ UNCHANGED <<reach, registered, initialized, uptime, rating, waiting, torn>>

AddStatusesFails ==
  /\ pc = "ask" /\ waiting = {} /\ responses # <<>>
  /\ Idle
  /\ UNCHANGED <<reach, knownDB, torn>>

\* Mutant: the update does not mark new providers as initialized.
UpdateProvidersKnown ==
  /\ pc = "update"
  /\ torn' = torn \ updates
  /\ Idle
  /\ UNCHANGED <<reach, knownDB>>

\* UpdateProviders: the rates of those that are online.
UpdateProviders ==
  /\ pc = "update"
  /\ initialized' = initialized \union updates
  /\ torn' = torn \ updates
  /\ Idle
  /\ UNCHANGED <<reach, registered, isOnline, history, lastOnline, uptime, rating>>

UpdateProvidersFails ==
  /\ pc = "update"
  /\ torn' = torn \union updates
  /\ Idle
  /\ UNCHANGED <<reach, knownDB>>

\* The process ends between any two steps.
RestartRates ==
  /\ pc # "idle"
  /\ torn' = IF pc = "update" THEN torn \union updates ELSE torn
  /\ pc' = "idle" /\ pubkeys' = {} /\ waiting' = {} /\ responses' = <<>> /\ updates' = {}
  /\ UNCHANGED <<reach, knownDB>>

-----------------------------------------------------------------------------
\* The other workers.

\* The share of checks that found the provider online; without any it keeps
\* what it has.
uptimeOf(p) ==
  IF p \notin registered \/ history[p] = {} THEN uptime[p]
  ELSE IF "online" \in history[p] THEN "positive" ELSE "zero"

UpdateUptime ==
  /\ uptime' = [p \in Providers |-> uptimeOf(p)]
  /\ UNCHANGED <<reach, registered, isOnline, history, lastOnline, initialized, rating, callVars, torn>>

\* A power of the uptime times something positive, for initialized providers.
ratingOf(p) == IF p \in initialized THEN uptime[p] ELSE rating[p]

UpdateRating ==
  /\ rating' = [p \in Providers |-> ratingOf(p)]
  /\ UNCHANGED <<reach, registered, isOnline, history, lastOnline, initialized, uptime, callVars, torn>>

\* The rows of a provider with a status are all old enough and go.
CleanOldStatusesHistory(p, s) == s \in history[p] /\ history' = [history EXCEPT ![p] = @ \ {s}]

CleanupOldData ==
  /\ \E p \in Providers, s \in {"online", "offline"} : CleanOldStatusesHistory(p, s)
  /\ UNCHANGED <<reach, registered, isOnline, lastOnline, initialized, uptime, rating, callVars, torn>>

\* The ledger scan adds a provider.
AddProviders ==
  /\ \E p \in Providers \ registered : registered' = registered \union {p}
  /\ UNCHANGED <<reach, isOnline, history, lastOnline, initialized, uptime, rating, callVars, torn>>

\* A provider starts or stops to answer an agent.
ChangeReach ==
  /\ \E p \in Providers, S \in SUBSET Agents : S # reach[p] /\ reach' = [reach EXCEPT ![p] = S]
  /\ UNCHANGED <<knownDB, callVars, torn>>

-----------------------------------------------------------------------------
RatesStep ==
  \/ StartRates \/ NobodyAnswered \/ AddStatuses \/ UpdateProviders
  \/ \E a \in Agents : AgentAnswers(a)

RatesFails ==
  \/ AddStatusesFails \/ UpdateProvidersFails
  \/ \E a \in Agents : AgentFails(a)

KnownOthers == UpdateUptime \/ UpdateRating \/ CleanupOldData \/ AddProviders

KnownNext == RatesStep \/ RatesFails \/ KnownOthers \/ ChangeReach \/ RestartRates

KnownSpec == KnownInit /\ [][KnownNext]_knownVars

-----------------------------------------------------------------------------
\* Properties.

\* A provider that is public as online has rates, except between the two writes
\* of a run and after a run whose second write did not happen.
OnlineHasRates ==
  \A p \in Providers : isOnline[p] = "online" /\ pc # "update" /\ p \notin torn => p \in initialized

\* A provider with a positive rating was online once and still has the row that
\* says when, however often the history its uptime came from was cleaned since.
RatedWasOnline ==
  \A p \in Providers : rating[p] = "positive" => p \in lastOnline
=============================================================================
