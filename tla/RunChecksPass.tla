----------------------------- MODULE RunChecksPass -----------------------------
(***************************************************************************)
(* One RunChecks pass from the assignment of providers to the merged       *)
(* results: a call per agent, the agent's job behind it, and the clocks of *)
(* both.  The coordinator waits RpcTime for an answer; the agent checks    *)
(* for TotalTime, then fails what is left with its usual pause after every *)
(* bag, pushes a summary to Loki and answers.  A result is kept as what    *)
(* the commit policy makes of its reason.                                  *)
(***************************************************************************)
EXTENDS RunChecksShard, ReasonCodes

CONSTANTS
  TotalTime,               \* RUNCHECKS_TOTAL_MS
  RpcTime,                 \* what is left of AGENT_RPC_TIMEOUT_MS or the retry window
  LokiTime,                \* longest push of a summary
  InterBagDelay,           \* what a bag worker sleeps between two bags
  MaxConcurrentProviders,
  InTimeReasons            \* what a check that is not cut short may report

ASSUME PassAssumption ==
  /\ TotalTime \in Nat /\ RpcTime \in Nat /\ LokiTime \in Nat /\ InterBagDelay \in Nat
  /\ MaxConcurrentProviders \in Nat \ {0}
  /\ InTimeReasons \subseteq ReasonCode /\ InTimeReasons # {}

VARIABLES
  phase,                                \* "input", "assigned", "running", "merged", "error"
  todo, usable, stickyMap, exclude,     \* input: bags, providers with a usable endpoint, the two maps
  batch,                                \* providers of the request
  ordered, load,                        \* the loop: providers still to be handed out; bags per agent
  assignment,
  clock,                                \* since the calls were made
  job, pushedAt,                        \* per agent: the call; when the push began
  check,                                \* per provider: its check on the agent
  outcome,                              \* per bag, as the agent has it
  committed,                            \* bags the main pass would commit
  cut,                                  \* history: bags whose check a deadline ended
  lost                                  \* history: agents whose call the network or a restart ended

inputVars == <<todo, usable, batch, stickyMap, exclude, ordered, load, assignment>>
jobVars == <<job, pushedAt, check, outcome, cut, lost>>
passVars == <<phase, inputVars, clock, jobVars, committed>>

Class == {"valid", "definitive", "retriable"}

Unassigned == [p \in Providers |-> NoAgent]

\* The types of the variables: the clock never passes the coordinator's timeout.
TypeOK ==
  /\ phase \in {"input", "assigned", "running", "merged", "error"}
  /\ todo \subseteq Contracts /\ usable \subseteq Providers /\ batch \subseteq Providers
  /\ stickyMap \in [Providers -> Agent] /\ exclude \in [Providers -> Agent]
  /\ ordered \subseteq batch /\ load \in [Endpoints -> Nat]
  /\ assignment \in [Providers -> Agent]
  /\ clock \in 0..RpcTime
  /\ job \in [Endpoints -> {"none", "open", "push", "silent", "answered", "failed"}]
  /\ pushedAt \in [Endpoints -> 0..RpcTime]
  /\ check \in [Providers -> {"none", "queued", "slot", "done"}]
  /\ outcome \in [Contracts -> Class \union {"none"}]
  /\ committed \subseteq Contracts /\ cut \subseteq Contracts
  /\ lost \subseteq Endpoints

\* Mutant: every provider with a bag.
requestProvidersAll == {ProviderOf[c] : c \in todo}

\* buildRunChecksRPCRequest: a provider without a usable endpoint has no batch.
requestProviders == {ProviderOf[c] : c \in todo} \intersect usable

Init ==
  /\ phase = "input"
  /\ todo \in SUBSET Contracts
  /\ usable \in SUBSET {ProviderOf[c] : c \in todo}
  /\ batch = requestProviders
  /\ stickyMap \in [Providers -> Agent]
  /\ exclude \in [Providers -> Agent]
  /\ ordered = batch /\ load = [e \in Endpoints |-> 0]
  /\ assignment = Unassigned
  /\ clock = 0
  /\ job = [e \in Endpoints |-> "none"] /\ pushedAt = [e \in Endpoints |-> 0]
  /\ check = [p \in Providers |-> "none"]
  /\ outcome = [c \in Contracts |-> "none"]
  /\ committed = {} /\ cut = {} /\ lost = {}

-----------------------------------------------------------------------------
(* The coordinator.                                                        *)

\* The first of the providers still to be handed out.
Foremost(p) == p \in ordered /\ \A q \in ordered \ {p} : Precedes(todo, p, q)

\* Mutant: an iteration counts providers instead of bags.
AssignProvidersCounted(p) ==
  /\ phase = "input" /\ Foremost(p)
  /\ \E chosen \in pickAgent(candidates(exclude[p]), load, stickyMap[p]) :
       /\ assignment' = [assignment EXCEPT ![p] = chosen]
       /\ load' = [load EXCEPT ![chosen] = @ + 1]
  /\ ordered' = ordered \ {p}
  /\ phase' = IF ordered = {p} THEN "assigned" ELSE phase
  /\ UNCHANGED <<todo, usable, batch, stickyMap, exclude, clock, jobVars, committed>>

\* assignProvidersToAgents: one iteration of its loop.
Assign(p) ==
  /\ phase = "input" /\ Foremost(p)
  /\ \E chosen \in pickAgent(candidates(exclude[p]), load, stickyMap[p]) :
       /\ assignment' = [assignment EXCEPT ![p] = chosen]
       /\ load' = [load EXCEPT ![chosen] = @ + Cardinality(Bags(todo, p))]
  /\ ordered' = ordered \ {p}
  /\ phase' = IF ordered = {p} THEN "assigned" ELSE phase
  /\ UNCHANGED <<todo, usable, batch, stickyMap, exclude, clock, jobVars, committed>>

Shard(e) == {p \in batch : assignment[p] = e}

\* The agent refuses a request in which any provider lacks a part, an endpoint or
\* a bag.
validateRequest(e) == \A p \in Shard(e) : p \in usable /\ Bags(todo, p) # {}

\* fanoutRunChecks: one call per agent that has providers, which validates it.
\* The maps have done their work, and so have the bags without an endpoint.
Send ==
  /\ phase = "assigned" /\ phase' = "running"
  /\ job' = [e \in Endpoints |->
              IF Shard(e) = {} THEN "none" ELSE IF validateRequest(e) THEN "open" ELSE "failed"]
  /\ check' = [p \in Providers |-> IF p \in batch THEN "queued" ELSE "none"]
  /\ todo' = {c \in todo : ProviderOf[c] \in batch}
  /\ stickyMap' = Unassigned /\ exclude' = Unassigned /\ load' = [e \in Endpoints |-> 0]
  /\ UNCHANGED <<usable, batch, ordered, assignment, clock, pushedAt, outcome, committed, cut, lost>>

\* The agent goes down, or the connection breaks.
CallFails(e) ==
  /\ job[e] \in {"open", "push"}
  /\ job' = [job EXCEPT ![e] = "failed"]
  /\ lost' = lost \union {e}
  /\ UNCHANGED <<phase, inputVars, clock, pushedAt, check, outcome, committed, cut>>

\* The agent is cut off without the coordinator noticing.
GoSilent(e) ==
  /\ job[e] \in {"open", "push"}
  /\ job' = [job EXCEPT ![e] = "silent"]
  /\ lost' = lost \union {e}
  /\ UNCHANGED <<phase, inputVars, clock, pushedAt, check, outcome, committed, cut>>

\* The coordinator's own timeout.
CallExpires(e) ==
  /\ job[e] \in {"open", "push", "silent"} /\ clock = RpcTime
  /\ job' = [job EXCEPT ![e] = "failed"]
  /\ UNCHANGED <<phase, inputVars, clock, pushedAt, check, outcome, committed, cut, lost>>

\* What selectMainProofsCommit makes of a reason.
class(r) ==
  IF r = "ValidStorageProof" THEN "valid" ELSE IF isRetriableReason(r) THEN "retriable" ELSE "definitive"

\* mergeRunChecksResponses: a bag without a row is NotFound.
mergedClass(c) == IF job[assignment[ProviderOf[c]]] = "answered" THEN outcome[c] ELSE class("NotFound")

Merge ==
  /\ phase = "running" /\ \A e \in Endpoints : job[e] \in {"none", "answered", "failed"}
  /\ IF \E e \in Endpoints : job[e] = "answered"
     THEN phase' = "merged" /\ committed' = {c \in todo : mergedClass(c) # "retriable"}
     ELSE phase' = "error" /\ UNCHANGED committed
  /\ UNCHANGED <<inputVars, clock, jobVars>>

-----------------------------------------------------------------------------
(* The agent's job.                                                        *)

\* withTotalTimeout: the job's context is over at TotalTime, or with the call.
deadline == IF TotalTime = 0 \/ RpcTime < TotalTime THEN RpcTime ELSE TotalTime

\* Mutant: a provider keeps its slot when it is done.
slotsKept(e) == {p \in Shard(e) : check[p] \in {"slot", "done"}}

\* The semaphore of Run.
slots(e) == {p \in Shard(e) : check[p] = "slot"}

SlotFree(p) ==
  LET e == assignment[p]
  IN  /\ check[p] = "queued" /\ job[e] = "open"
      /\ Cardinality(slots(e)) < MaxConcurrentProviders

StartProvider(p) ==
  /\ SlotFree(p) /\ clock < deadline
  /\ check' = [check EXCEPT ![p] = "slot"]
  /\ UNCHANGED <<phase, inputVars, clock, job, pushedAt, outcome, committed, cut, lost>>

\* A provider that gets its slot too late: the first ping fails with the context.
StartTooLate(p) ==
  /\ SlotFree(p) /\ clock >= deadline
  /\ check' = [check EXCEPT ![p] = "done"]
  /\ outcome' = [c \in Contracts |->
                   IF c \in Bags(todo, p) THEN class("FailedInitialPing") ELSE outcome[c]]
  /\ cut' = cut \union Bags(todo, p)
  /\ UNCHANGED <<phase, inputVars, clock, job, pushedAt, committed, lost>>

\* What the end of the job's context makes of a bag: the initial ping fails, or a
\* step of checkPiece, or the bag is skipped when such failures stop the tally.
CutReasons ==
  {"FailedInitialPing", "PingFailed", "GetInfoFailed", "CantGetPiece", "UnavailableProvider"}

\* checkProviderFiles ends; late bags fail with the context.
FinishProvider(p) ==
  /\ check[p] = "slot" /\ job[assignment[p]] = "open"
  /\ check' = [check EXCEPT ![p] = "done"]
  /\ \E late \in SUBSET Bags(todo, p), o \in [Bags(todo, p) -> Class] :
       /\ late # {} => clock >= deadline
       /\ \A c \in Bags(todo, p) :
            \E r \in (IF c \in late THEN CutReasons ELSE InTimeReasons) : o[c] = class(r)
       /\ outcome' = [c \in Contracts |-> IF c \in Bags(todo, p) THEN o[c] ELSE outcome[c]]
       /\ cut' = cut \union late
  /\ UNCHANGED <<phase, inputVars, clock, job, pushedAt, committed, lost>>

\* Mutant: the job ends with its deadline, without waiting for the providers.
PushSummaryEarly(e) ==
  /\ job[e] = "open" /\ (clock >= deadline \/ \A p \in Shard(e) : check[p] = "done")
  /\ job' = [job EXCEPT ![e] = "push"]
  /\ pushedAt' = [pushedAt EXCEPT ![e] = clock]
  /\ UNCHANGED <<phase, inputVars, clock, check, outcome, committed, cut, lost>>

\* Run returns when every provider is done; the summary is pushed first.
PushSummary(e) ==
  /\ job[e] = "open" /\ \A p \in Shard(e) : check[p] = "done"
  /\ job' = [job EXCEPT ![e] = "push"]
  /\ pushedAt' = [pushedAt EXCEPT ![e] = clock]
  /\ UNCHANGED <<phase, inputVars, clock, check, outcome, committed, cut, lost>>

Answer(e) ==
  /\ job[e] = "push"
  /\ job' = [job EXCEPT ![e] = "answered"]
  /\ pushedAt' = [pushedAt EXCEPT ![e] = 0]
  /\ UNCHANGED <<phase, inputVars, clock, check, outcome, committed, cut, lost>>

\* skipFailureThresholdPercent: more failures in a row than a fifth of its bags stop
\* a provider's tally.
threshold(p) == Cardinality(Bags(todo, p)) \div 5

\* How long checkProviderFiles may go on when the job's context is over: its bags
\* fail at once, but a worker sleeps after each of them until the tally stops, and
\* may be asleep when the context ends.
windDown(p) == InterBagDelay * (threshold(p) + 1)

\* The providers that have a slot wind down side by side; one that gets its slot
\* later fails its initial ping and has no workers that could sleep.
WindingDown(e) == slots(e) # {} /\ \A p \in slots(e) : clock < deadline + windDown(p)

\* Time passes.  A push ends with its own timeout.
Tick ==
  /\ phase = "running" /\ clock < RpcTime /\ clock' = clock + 1
  /\ \A e \in Endpoints :
       /\ job[e] = "open" => clock < deadline \/ WindingDown(e)
       /\ job[e] = "push" => clock - pushedAt[e] < LokiTime
  /\ \E e \in Endpoints : job[e] \in {"open", "push", "silent"}
  /\ UNCHANGED <<phase, inputVars, jobVars, committed>>

-----------------------------------------------------------------------------
PassStep ==
  \/ Send \/ Merge \/ Tick
  \/ \E e \in Endpoints : PushSummary(e) \/ Answer(e) \/ CallExpires(e)
  \/ \E p \in Providers : Assign(p) \/ StartProvider(p) \/ StartTooLate(p) \/ FinishProvider(p)

Next == PassStep \/ \E e \in Endpoints : CallFails(e) \/ GoSilent(e)

\* Time, the timeouts and the goroutines go on; nothing else is needed.
Spec == Init /\ [][Next]_passVars /\ WF_passVars(PassStep)

-----------------------------------------------------------------------------
(* Properties.                                                             *)

\* The loop with its running loads ends with the one assignment that StoreProof
\* takes it to make, whatever the maps say: no agent's load is stale or counted
\* twice when the next provider is placed (assignProvidersToAgents, pickAgent).
LoopAgrees ==
  phase = "assigned" => assignProvidersToAgents(todo, batch, stickyMap, exclude) = {assignment}

Load(e) == Cardinality({c \in todo : assignment[ProviderOf[c]] = e})

\* Without sticky or excluded agents no agent has more bags than another by more
\* than the bags of any one of its providers, whatever the order of the keys:
\* moving a provider would not help ("shards ProviderBatches across agents by bag
\* count", assignProvidersToAgents).
ShardsBalanced ==
  phase = "assigned" /\ stickyMap = Unassigned /\ exclude = Unassigned =>
    \A e, f \in Endpoints :
      \A p \in Shard(e) : Load(e) - Load(f) <= Cardinality(Bags(todo, p))

\* An agent that is not lost answers before the coordinator's timeout, however
\* many providers wait for a slot, however slow they are and whatever endpoints
\* they have, when its job has a time of its own (a TotalTime of 0 means none,
\* withTotalTimeout) and the timeout leaves room for the checks, for the pauses of
\* any provider after the deadline (time.Sleep in checkProviderFiles) and for the
\* summary.
AnsweredUnlessLost ==
  0 < TotalTime /\ (\A p \in batch : RpcTime > TotalTime + windDown(p) + LokiTime) =>
    \A e \in Endpoints : job[e] = "failed" => e \in lost

\* What a deadline or a lost agent did to a bag is never committed by the main
\* pass: it is deferred.
CutIsDeferred ==
  \A c \in committed : c \notin cut /\ assignment[ProviderOf[c]] \notin lost

\* What an agent reports of a bag: the result of its check, or of one a deadline cut.
Reported == InTimeReasons \union CutReasons

\* A merged pass is one of those StoreProof picks in its one step RunMain: some of
\* the agents with a shard answered, each with a reason for every one of its bags,
\* whatever the deadline cut; every other bag is NotFound; and what is not
\* retriable is committed (Run, mergeRunChecksResponses).
PassOutcome ==
  phase = "merged" =>
    \E answered \in Answers(assignment) :
      \E verdict \in [{c \in todo : assignment[ProviderOf[c]] \in answered} -> Reported] :
        LET result(c) == merged(c, assignment, answered, verdict)
        IN  /\ \A c \in todo : mergedClass(c) = class(result(c))
            /\ committed = {c \in todo : ~isRetriableReason(result(c))}

\* Every pass ends, whatever the agents and the providers do.
PassEnds == phase = "running" ~> phase \in {"merged", "error"}
=============================================================================
