# Verification of mytonprovider-backend

TLA+ models of the coordinator and the agent of `mytonprovider-backend`, the TLC
configurations that check them on small instances, and TLAPS proofs of the
properties that matter most. Paths are relative to the repository (`src/`).
`PM` stands for `coordinator/internal/workers/providersMaster`.

    tlc -workers 2 -config MCStoreProof.cfg MCStoreProof     # one run
    tlapm StoreProofProofs.tla                                # one proof module

## 1. The system

A **coordinator** (one process, one PostgreSQL database, an HTTP API) tracks TON
storage providers. A handful of workers, each a goroutine in an endless
"run, then sleep for the interval it returned" loop, collect providers and
storage contracts from the ledger and have every stored bag checked. The checks
themselves are done by **agents**: separate processes that the coordinator calls
over gRPC. An agent connects to a provider over ADNL, asks for the torrent info
of a bag and for a piece of it, and verifies the piece's Merkle proof.

| Component | State | Operations | Interacts with | Hard because |
|---|---|---|---|---|
| StoreProof cycle (`PM/worker.go:487-671`) | `storage_contracts.reason`, `providers.status`; in memory the sticky agents, the results of the main pass, the pending keys | read contracts, delete rejected ones, resolve endpoints, main pass, commit, wait, retry, final commit, statuses | repository, agents, endpoint refresh, recorder | seven ways through it, every call may fail, deferred results live only in memory, SIGTERM and crash at any point |
| Commit policy (`PM/storeproof_commit.go`) | none | select what is public after the main pass and after the retry | StoreProof | the same bag goes through up to two verdicts |
| RunChecks sharding (`PM/runchecks_shard.go`) | none (takes sticky and exclude maps) | greedy hand-out of providers | StoreProof | order dependence, exclusion against stickiness |
| RunChecks pass (`PM/worker.go:798-1060`, `clients/agentrpc`, `agent/internal/grpcserver/server.go`, `checker.go:Run`) | open calls, jobs and provider slots of the agents, clocks of both sides | build requests, fan out, validate, check under a deadline, push a summary, answer, merge | StoreProof, agents | two deadlines on two machines, slots, agents that fall silent |
| Rejected contracts (`PM/worker.go:1331-1420`, `helpers.go`, `clients/ton`) | rows of storage contracts | pin a block, ask every contract, delete the rows it does not back | StoreProof, liteservers, ledger scan | the state asked is old when the decision is made; a failed server looks like an empty answer |
| Pipeline events (`coordinator/internal/pipelineevents`) | buffer of events, event tables | record, flush | StoreProof, endpoint refresh | decided against a reason read earlier; a failed insert only warns |
| Endpoint refresh (`PM/endpoint_refresh.go`) | the cache of last known endpoints, the endpoint columns and their age, provider events | stale-first, full and retry refresh, overlay search, events | StoreProof, RefreshEndpointsFull, DHT, database | two workers over one cache and one row, cached against fresh, partial results |
| Ledger scan (`PM/worker.go:166-485`) | watermarks (logical time) of the master wallet and of each provider wallet | scan transactions, insert providers and contracts | liteservers, database | the last logical time is saved before the rows, histories may be cut short, the ledger grows meanwhile |
| Known providers, uptime, rating (`PM/worker.go:276-363,688-726`) | statuses and their history, last online, provider rates | ask rates, add statuses, save rates, recompute | agents, cleaner, database | two writes, several answers about one provider, aggregates over a history that is cut |
| IP information (`PM/worker.go:728-768`) | description of each address | read outdated rows, ask a web service, save | endpoint refresh, database | addresses change during the slow calls |
| Telemetry (`services/providers`, `cache`, `workers/telemetry`) | in-memory cache, telemetry tables | store, release, write | HTTP API, database | the buffer expires, and is released before it is written |
| Cleaner (`workers/cleaner`) | history tables | delete old rows | database | removes what other workers read |
| Worker loop (`workers/workers.go`, `cmd/main.go`) | sleeping or running | run, sleep, stop | all workers | shutdown does not wait |
| Agent RPC client (`clients/agentrpc`) | connections | fan-out to agents | agents | any subset answers |
| Agent checker, one provider (`agent/internal/checker/checker.go`, `session.go`) | peer connection, ping freshness, failure tally, results | dispatch bags, check a bag, skip the rest | piece limit, ADNL | several workers share a connection, a tally and a channel |
| Piece limit (`agent/internal/checker/aimd.go`) | slots in use, limit, sample window | acquire, release, observe | all bag workers | condition variable with cancellation, a limit that moves |
| Agent gRPC server (`agent/internal/grpcserver`) | pools for rates and info | RunChecks, RunStorageRates, RunStorageInfo | checker, transport | job deadline |
| Transport, metrics, logging, configuration, HTTP reads, dump tool, generated code | | | | I/O without state of its own |

What makes each part correct:

* StoreProof: a definitive result is public at once, a transient failure only
  after the retry had its chance; a proof by either pass wins; nothing public is
  invented; statuses follow reasons; a retry looks from another agent; a cycle
  ends; the loss of an agent is not visible to the public while there is time for the
  retry.
* Sharding: one deterministic result, balanced loads, exclusion stronger than
  stickiness.
* RunChecks pass: an agent that is not lost answers in time, what a deadline cut is
  not published as a failure, the pass ends.
* Events: a public error is explained by an error event; a cycle that resolved a
  provider leaves it with no error alone as its newest event.
* Endpoint refresh: a known provider always has an endpoint; cache and row end at what
  the provider publishes.
* Rejected contracts: only a row the chain did not back is deleted, and in the end
  each such row is.
* Known providers: online only with rates,
  rated only if it was ever online; statuses follow reachability, in whatever order
  answers come.
* IP information: the description is in the end that of the current address.
* Checker: no rebuild of the connection under a running check, none forgotten;
  bags are skipped only on a provider that really failed; every bag has a
  result; the check ends.
* Ledger scan: the last logical time never passes a registration or a withdrawal that
  was not read; everything is collected in the end.
* Telemetry: the newest report of a provider is not overtaken by an older one, and
  reaches the table before it expires.
* Piece limit: slots are counted right, nobody sleeps beside a free slot or past
  the end of its job, a cut of the limit drains.

`PROJECT.json` lists the hazards behind these, each at its line.

## 2. Modules

    ReasonCodes <- ProofCommit (abstract policy)
       ^               ^
       |               | refinement (Policy)
    RunChecksShard <- StoreProof <- StoreProofEvents <- MCStoreProofEvents
       ^               ^                       ^
       |               +- MCStoreProof <- MCOneDown <- StoreProofProofs
       |                                               (extends StoreProofEvents too)
    RunChecksPass <- MCRunChecksPass, RunChecksPassProofs

    PieceLimit <- MCPieceLimit, PieceLimitProofs
    ProviderCheck <- MCProviderCheck, ProviderCheckProofs
    EndpointRefresh <- MCEndpointRefresh, EndpointRefreshProofs
    KnownProviders, IPInfo, RejectedContracts <- MCUpkeep, UpkeepProofs
    LedgerScan <- MCLedgerScan, LedgerScanProofs
    TelemetryBuffer <- MCTelemetryBuffer, TelemetryBufferProofs

**ReasonCodes** has the coordinator's codes and `isRetriableReason`.

**RunChecksShard** states `assignProvidersToAgents` without recursion: an
assignment is right when every provider sits where `pickAgent` puts it given the
loads of the providers that precede it in the sort order. That there is exactly one
such assignment is proved (`GreedyIsDetermined`), and so is that it is the one the loop
computes (`LoopIsGreedy`); the loop itself is in RunChecksPass. Public keys and endpoints are
numbers, in the order the code compares or lists them. The module also has what both users
of it say about the end of a pass: which agents may have answered (`Answers`), and what is
`merged` for a bag.

**StoreProof** is the worker. Persistent state: the rows that exist, their
`reason`, the provider `status`. In-memory state: `sticky`
(`providerAgentSuccess`), the cancelled context, and the locals of one call. `pc`
is the call the worker is at; one action per call and one per way it can fail:

| Action | Code |
|---|---|
| `StartCycle`, `StartCycleFails` | `worker.go:487-519` (with the loop of `workers.go`) |
| `updateRejectedContracts`, `updateProvidersIPs`, `AbortBeforeCommit` | `521-538`, `1331-1420` |
| `RunMain`, `RunMainUnresolved` | `runStoreProofChecks` with an empty exclude map |
| `CommitMain`, `StatusMain` and their failures | `540-563` |
| `ScheduleRetry`, `SkipRetry`, `NothingDeferred` | `565-593` |
| `WaitElapsed`, `WaitCancelled` | `waitUntil` and `594-608` |
| `refreshForRetry`, `RunRetry`, `RunRetryUnresolved`, `RunRetryFails` | `626-643` |
| `CommitFinal(path)`, `StatusFinal(path)` and their failures | the four final commits: no retry, cancelled wait, deadline passed, after the retry |
| `Tick`, `AddStorageContracts`, `Cancel`, `Crash` | time, the contract scan running beside, SIGTERM, process end and restart |

A RunChecks pass picks the set of agents that answered and any row for each bag
they were asked about. What a provider's resolved endpoint is does not matter
here, only whether it has one. Whether an older row is within the 24 hours of
`UpdateStatuses` is left open; rows written by this cycle are.

**ProofCommit** is the promise of `coordinator/deploy/README.md` ("DB write
policy") as an abstract specification over the public reasons, a phase, and a set
of deferred bags. `StoreProof` refines it by `Policy`.

**StoreProofEvents** composes StoreProof with the recorder of bag events (provider
events are in EndpointRefresh): each of its actions is
an action of StoreProof with what it does to the event buffer. `lost` is a
history variable: the bags whose newest event was dropped by a failed insert
or a crash.

**MCOneDown** restricts StoreProof to a world that is healthy but for at most one
agent, which goes down and comes back between cycles. Calls take any time, so the retry may
be skipped, come late or be cut short; an agent that is up proves every bag of a main pass,
and of a retry that ends before its deadline.

**RunChecksPass** opens the one step a pass is in StoreProof. The coordinator builds the
request (`requestProviders`), hands its providers out one by one with running loads
(`Assign(p)` is one iteration of the loop), calls each agent with a shard and waits
`RpcTime`; the agent refuses a request with an unusable part (`validateRequest`), runs
its providers over a semaphore until `TotalTime`, reports what is left as failed, pushes
a summary to Loki and answers. Failing what is left takes time too: a bag worker sleeps
`InterBagDelay` after each bag until the failures in a row stop the provider's tally
(`checker.go:293-295`), so a provider that holds a slot may go on for `windDown(p)` after the
deadline. Providers with slots wind down side by side, and one that gets its slot after the
deadline fails its first ping and starts no workers, so these times do not add up over the
semaphore. A call may break or fall silent at any time. A bag's result
is kept as what the commit policy makes of its reason (`class`). `cut` and `lost` are
history variables. A provider's check is one step here and ProviderCheck in detail.
`PassOutcome` is the link back to StoreProof: a merged pass has one of the outcomes that
`RunMain` picks from, with `Reported` for StoreProof's `AgentReasons`.

**EndpointRefresh** is `refreshProvidersEndpoints` with both of its callers, one cache and
one row per provider. A lookup is two steps, the answer (`findProviderIPs`) and the locked
section that stores it (`StoreResolved`), because the provider may move and the other
worker may store between them. StoreProof appears as the places its calls are made from
(`spc`), with the recorder each of them uses; `unclean` and `known` are history
variables. Rows of events are kept as the set of statuses of the newest insert: rows of
one insert have one `created_at`, so the query for the last status (`repository.go:1260-1267`,
no tie-break) may take any of them.

**KnownProviders** is `UpdateKnownProviders`: one call per agent, the answers in the order
they come, the merge, the upsert of statuses with its triggers, the update of rates. The
agent's side is its limit on keys and the pool that may take longer than the call. The
readers of the same tables are actions too: `UpdateUptime`, `UpdateRating`, the cleaner.
Uptime and rating are kept as positive or not. `torn` is a history variable: providers
whose status was saved and whose rates were not.

**IPInfo** is `UpdateIPInfo` beside an endpoint refresh that changes addresses.

**RejectedContracts** is `updateRejectedContracts` beside a ledger that goes on. Each
contract is asked as of the pinned block, or of a newer one when the server has dropped
that state; the age of a proof is taken at the decision, so what was read gets older with
time (`Older`). `overdue` is a history variable: rows not backed at some time since the
block. The wallet scan that inserts rows again is part of the module. The deletions reach
StoreProof as its action `updateRejectedContracts`.

**MCUpkeep** puts the last three together. They share none of the state modelled, so each is
checked by itself: `focus` names the one that moves.

**PieceLimit** is the AIMD semaphore. Every section under the mutex is one step;
`wait` is `cond.Wait`, `watch` the goroutine `acquire` starts to broadcast when
the job's context ends. Elapsed against budget is abstracted to slow, fast or
neither, the two thresholds `observe` compares with.

**ProviderCheck** is `checkProviderFiles`: the dispatcher, the unbuffered channel,
the bag workers, `peerGate`, `peerPingState` and `failureTally`. The connection
may close at any time; a query on a closed connection or past its deadline fails.
`epoch` counts rebuilds and `startedAt` remembers the one a check began in.

**LedgerScan** has the two workers that read the ledger. The ledger is a set of
transactions, each with its logical time (LT), the wallet it arrived at and what it
is about: a registration, a storage contract that pays a reward, or something
else. The model numbers LTs 1, 2, 3 in the order of posting; the code only compares
them. `CollectNewProviders` is the read of the last LT, the known keys and the history,
which nobody else writes, up to the early return; `SetParam` and `AddProviders` are
steps of their own, as are the calls of `CollectProvidersNewStorageContracts` and the
scan of each wallet (`scanFrom`, a goroutine). `GetTransactions` answers with
`Complete`, or with one of the `Cut` histories: some of the newest pages, which is what
a passed deadline or error -400 leaves, without an error. `missed` is a history variable
with the transactions a fault gave up: the rest of a cut history, contracts that did
not answer, a failed insert, the end of the process. `Regular` is every other step.

**TelemetryBuffer** follows a provider's reports from the handler to the table, telemetry or
benchmarks: two caches, workers and tables with one course of events and nothing in common but
the list of providers, so that `kind` says which of them a behaviour is about. A
report is its number; the cache keeps one per provider with its age, and the worker
sleeps, asks for the providers (`Wake` to `GetAllProvidersPubkeys`), releases their
reports one by one and writes them. Time is relative: ages and the one timer of
the worker. `lost` and `skipped` are history variables: the newest report given up, and
the providers whose report was waiting when a run could not read the provider list.

Operators named "Mutant" in a comment are plausible bugs; no specification uses
them, `PROJECT.json` says which property each would break.

## 3. Runs

| Run | Instance | Checks |
|---|---|---|
| `store_proof` | 1 provider, 2 bags, 2 agents, interval 3, buffer 1, delay 1; a success, a retriable and a definitive code (1.0M states) | `StatusMatchesReasons`, `VerdictsPublished`, `ImplementsPolicy` |
| `one_down` | 2 providers with a bag each, 2 agents, at most one down, calls of any length (3080) | `RetryOnOtherAgent`, `OutageStaysHidden` |
| `one_down_live` | the same | violates `EveryBagJudged` |
| `events` | 1 bag, 2 agents, fairness (202k) | `TypeOK`, `ErrorHasEvent`, `CycleEnds` |
| `runchecks_pass` | every input of 3 providers, 4 bags (2, 1, 1), 2 agents; one slot per agent; total 1, pause 1, push 1, RPC 4; fairness (639k) | `LoopAgrees`, `ShardsBalanced`, `AnsweredUnlessLost`, `CutIsDeferred`, `PassOutcome`, `PassEnds` |
| `piece_limit` | 3 workers, limit from 1 to 2, window of 2; minimum and initial value out of range, fairness (10k) | `SlotsAccounted`, `NoLostWakeup`, `ExcessDrains`, `NoStall`, `EndedJobsLeave` |
| `provider_check` | 5 bags (threshold 1), 2 workers, fairness (1.3M) | `ChecksKeepConnection`, `RebuiltWhenQuiet`, `StopIsPrompt`, `SkipJustified`, `AllAnswered`, `Finishes` |
| `ledger` | 2 providers, 2 contracts, 3 transactions, pages of 1, fairness (108k) | `RegistrationsAccounted`, `ContractsAccounted`, `EverythingCollected` |
| `ledger_cut` | 1 contract, only deadlines pass | violates `CutIsCollectedLater` |
| `telemetry` | 2 providers, 3 reports each; a unit is twenty seconds: time to live 6, interval 3, 1 after a failure, calls of at most 1; telemetry or benchmarks; fairness (217k) | `ReportsAccounted`, `ExpiryExcused`, `ReportsSettled` |
| `endpoints` | 1 provider that moves between two hosts, both workers, every fault, fairness (250k) | `KnownNeverFails`, `CleanCycleClears`, `EndpointsConverge` |
| `upkeep` | 1 provider asked by 2 agents; 2 providers with 2 addresses each; 1 contract with 1 provider, span 1, grace 2, a run of at most 2; fairness (22k) | `OnlineHasRates`, `RatedWasOnline`, `StatusTracks`, `InfoCatchesUp`, `DeletedWasOverdue`, `NotBackedForgotten` |

The type invariants are theorems (those of StoreProofEvents' tables a part of `EventInv`), and most are left out of the runs.

Bounds. StoreProof's state is bounded by itself: time saturates at `Interval`, and
the number of cycles is not limited. Interval 3 with buffer 1 and delay 1 leaves
every order of wake-up, deadline and next cycle possible: waking before the
deadline, at it, and after the whole interval has gone by. Two bags are the
fewest for which one is deferred and the other published; two agents the fewest
for exclusion. In PieceLimit two of three workers hold a slot and the third waits when the limit
is cut to one: the excess is there, and so is somebody it must not let in; the
initial value shows the clamping.
In ProviderCheck five bags are the fewest with a threshold above zero; two
workers race on tally, gate and channel. In LedgerScan three transactions with pages of
one are enough for a registration, a contract and something newer, or for a history
that is cut in the middle; the proofs cover longer ledgers. In TelemetryBuffer three
reports are one written, one in the worker's hands and one in the buffer. In
RunChecksPass the two agents have one slot each, so that of the three providers one may
wait behind another until the deadline; the RPC time is the shortest for which
`AnsweredUnlessLost` promises anything. In EndpointRefresh providers do not interact
but through the scope of a call, so one is enough; the second host makes every lookup
a possible old one. In KnownProviders two agents are the fewest whose answers can differ and
arrive in two orders; the one key is as many as an agent accepts, so a request that is
refused for its size does not occur. In RejectedContracts the
grace is above zero, ages saturate where the code no longer tells them apart, and
a run lasts up to the whole grace, the longest for which `DeletedWasOverdue` holds.

Fairness. `CycleEnds` needs the worker's goroutine to run (every call it makes
returns: RPCs have timeouts; SQL statements have none, neither a deadline of their context nor
a `statement_timeout`, and are taken to return) and time to pass; `WF(Worker)`, `WF(Tick)`.
`MCOneDown` assumes the same; `CycleEnds` is checked on the composition with the recorder. `NoStall` and `EndedJobsLeave` assume
only that goroutines inside `acquire` run: a GetPiece call may hang for ever. `Finishes` assumes that the
dispatcher and the workers run. `EverythingCollected`
assumes that both ledger workers run and, in the property itself, that faults stop;
`ReportsSettled` that the worker, the cache's cleanup goroutine and time go on, with calls
failing as often as they like. `EndpointsConverge`, `StatusTracks`, `InfoCatchesUp` and
`NotBackedForgotten` assume that each worker's loop goes on and, in the property itself,
that from some time on its steps succeed and the provider, address or chain fact they
are about stays as it is; `PassEnds` that time, timeouts and goroutines of a pass go on,
and nothing of agents and network. Nothing is assumed of the environment otherwise,
but for two bounds the code does not set: `ExpiryExcused` rests on statements that end within
`MaxCall`, and `DeletedWasOverdue` on a run no longer than the grace period.
ProviderCheck and RunChecksPass end, and in `upkeep` all workers may rest with nothing to
do, so these runs do not check deadlock.

## 4. Where code and documentation differ

* `one_down_live`: the deploy README promises one retry of failed bags. If all
  non-empty shards of the main pass fail, `runStoreProofChecks` returns an error
  (`worker.go:841`) and the cycle ends before anything is deferred. In the trace one provider
  has a bag and no sticky agent; `pickAgent` takes the first of the least loaded endpoints,
  which is the agent that is down. The failed pass leaves the sticky map as it was, so every
  later cycle does the same although another agent is up. Providers that are all sticky to
  the agent that is down meet the same end.
* `ledger_cut`: a comment in `clients/ton/client.go:78` says that a history cut by the
  deadline is collected next time. Pages are read from the newest backwards and the
  biggest LT is saved (`worker.go:254`), so the older ones are never asked for again.

Observations without a run of their own:

* The deploy README (line 95) says the retry stops five minutes before the next full
  cycle. The endpoint refresh before the retry uses the worker's context instead of the
  retry's (`worker.go:628`), and the commits after it have no deadline, so the retry may
  still be at work then. When that context ends first it also cuts the RPC short.
* `db/migrations/README.ru.md:59` takes the newest event of a bag as its state. A bag that was
  valid, fails the main pass and is proved by the retry gets an error event and no `ok`
  event, because the retry compares with the reason read at the start of the cycle
  (`recorder.go:102`).
* The deploy README (line 93) asks for an RPC timeout of at least `RUNCHECKS_TOTAL_MS`. Equal
  is not enough: after the total time the agent still fails the bags in hand, with a pause of
  100 ms after each until a fifth of a provider's bags has failed, and pushes its summary, for
  up to eight seconds. `AnsweredUnlessLost` needs the margin, which grows with the bags of the
  largest provider: 25 minutes instead of 20, as the README proposes, are enough for some
  ten thousand of them. The code's defaults
  (`cmd/config.go:50,53`) are 30 seconds and 20 minutes. A total of 0 switches the job's own
  deadline off (`withTotalTimeout`): then no timeout leaves room, and the
  property promises nothing.
* `COORDINATOR_STOREPROOF_RETRY_DELAY_MINUTES=0` or a main pass that lasts until the retry
  deadline publishes the loss of an agent as failures of its bags (`worker.go:568-588`).
  `OutageStaysHidden` says that nothing else does. The README (line 91) names the first.
* An error and an ok of one flush have one `created_at`, and the query for the last status
  (`repository.go:1260-1267`) does not break the tie. When it reads the ok, the next success
  records nothing, and the pair stays the newest of a provider that is fine.
  `EndpointsConverge` excludes the error that stays alone, and new errors, not this pair.
* `get_providers` of a destroyed contract is an error, which counts as a failed liteserver:
  the rows of such a contract are never removed.
* Rates and bounties arrive as big integers and are cut to 64 bits (`worker.go:341`).
* `TelemetryRequest.XRealIP` has the JSON tag `-`, and `utils.DeepCopy` copies through JSON,
  so the address of the sender is not among what `UpdateTelemetry` writes.
* The cache behind `GetLatestTelemetry` keeps the request body without copying it, while
  the HTTP server is not configured as immutable and may use the memory again.

## 5. Proofs

All proofs hold for every value of the constants that satisfies the assumptions
`ShardAssumption`, `StoreProofAssumption`, `PassAssumption`, `PieceLimitAssumption`,
`ProviderCheckAssumption`, `LedgerAssumption`, `TimingAssumption`, `EndpointAssumption`,
`KnownProvidersAssumption`, `IPInfoAssumption` and `RejectedAssumption`: finite sets of contracts, agents and
workers, numbered providers and endpoints, natural-number timings, any integers as limiter
settings, at least one reason a check may report, for telemetry a time to live that covers the interval and three database calls,
for the endpoint refresh any sequence of addresses, and for rejected contracts a run no
longer than the grace period.

**StoreProofProofs** proves `TypeCorrect` (`Spec => []TypeOK`) with lemmas on what
a pass, an assignment, a commit and a status update return, and the theorems about
StoreProof from one inductive invariant, `CommitInv`. The properties are not inductive:
what the final commit publishes depends on facts established several calls earlier.
`CommitInv` carries them: the contracts of a pass have a verdict (`MainJudged`,
`RetryJudged`), the pending ones have a retriable main verdict (`PendingIsRetriable`), the
other rows of the cycle already show theirs (`DefinitivePublic`), after the final commit so
do the pending ones (`DeferredPublic`), and the contracts of a cycle remain rows
(`ContractsExist`), without which an `UPDATE` would silently do nothing. From it:

* `RetriesMove`: `RetryOnOtherAgent`; rests on the lemma
  `AssignmentsAvoidExcluded` about the sharding.
* `VerdictsArePublished`: `VerdictsPublished`, an action property.
* `PolicyImplemented`: `ImplementsPolicy`. Initial states map to initial states; each
  action maps to an action of `ProofCommit` or to a stutter.
* `StatusesMatch`: `StatusMatchesReasons`. `StatusInv` adds that judged bags are rows of
  the running cycle (`JudgedAreRows`), so that rows inserted beside it change no
  status, that the statuses are current where the retry is decided if nothing is
  deferred, and that the cancel path is taken by a cancelled worker only.
* `RecorderIsPassive`: `EventsSpec => Spec`; all of the above holds with the recorder.
* `ErrorsHaveEvents`: `ErrorHasEvent`. `EventInv` follows a failure from the pass into the
  buffer (`Recorded`) and from the flush to the row or to `lost` (`OnRecord`). Deferred
  failures are on record before they are public; what the retry found waits in the
  buffer until after its commit.
* `OneDownIsStoreProof`: `OneDownSpec => Spec`, and `OutageIsHidden`: `OutageStaysHidden`, an
  action property, for more than one agent and any delay, buffer and interval. In `HiddenInv`
  the main pass fails a bag only for the agent that is down (`MainProves`), the retry, which
  avoids that agent (`BatchAvoidsExcluded`), proves it or has reached the deadline
  (`RetryProves`), and the commits without a retry are reached only with none configured or
  past the deadline (`NoRetryInTime`).
* `RetryIsInTime`: the retry waits for a time inside the retry deadline and does not run
  beyond that deadline, for any interval, buffer and delay, a delay longer than the interval
  included.
* `CycleIsFinite`: every step of the worker lowers `CallsLeft`, a bound on the calls its cycle
  has left, and nothing beside it (rows, time, cancellation, crash) raises it.

**RunChecksPassProofs** is about the sharding and the pass built on it.

* `GreedyIsDetermined`: with at least one agent `assignProvidersToAgents` has exactly one
  result. The processing order is strict and total (`OrderIsTotal`), `pickAgent` returns one
  candidate (`PickIsUnique`, `PickExists`), and what it returns depends on the bags handed
  out before only (`LoadsLookBack`). Both halves are inductions on the number of
  these bags, done by taking a least counterexample (`LeastNumber`).
* `LoopIsGreedy`: `LoopAgrees`, the loop against that result. An iteration is a step of the
  specification, so the induction is over steps: `LoopInv` (part of `HandOutInv`) says that the providers handed out so far sit where
  the greedy rule for just them puts them, that the running loads count their bags
  (`LoadsAreComplete`, `LoadAdds`), and that they precede the rest. One iteration keeps the
  rule for one more provider (`GreedyExtends`), because the new one is last in the order and
  changes no load that was looked at before.
* `ShardsAreBalanced`: `ShardsBalanced`. The last provider an agent was given
  (`LastOfShard`) has the fewest bags of its shard and went there when no agent had a
  lower load (`GreedyBalances`).
* `TypeCorrect`: `TypeOK`.
* `CutsAreDeferred`: `CutIsDeferred`. `HandOutInv` says that only providers on an agent are
  checked, `QuietInv` that calls are under way between fan-out and merge only, and `CutInv` that
  a bag cut short is retriable on a provider that is not checked again and that a
  lost agent does not answer.
* `AnswersArriveInTime`: `AnsweredUnlessLost`. `TimeInv` bounds the clock by `TotalTime` and
  the longest wind-down of the shard while
  a job is open and by the start of the push plus `LokiTime` after it, so that the
  timeout of the coordinator finds no call that is not lost. What a provider has to wind down
  is the same throughout (`WindDownKept`). `HandOutInv` rules the
  agent's refusal out.
* `PassOutcomeAllowed`: `PassOutcome`. `CallInv` says that every call is for a shard and every
  bag left is in one; `ReportInv` that an agent which pushes or has answered is done with
  its whole shard, and that a provider that is done has a reported result for each bag.
* `PassNeverStuck` and `PassRunsDown`: a running pass has a step of its own whose guard holds
  (`CanMove`; a queued provider whose slot is taken has a holder that can finish, for which
  `StartedInv` says that every provider of the request was queued and every shard called), and each
  step lowers `StepsLeft`: time, checks to start and to finish, calls to end.

**PieceLimitProofs** proves `TypeCorrect`, `WakeupsDelivered` (`NoLostWakeup`, which
needs that every waiter still has its watch), `SlotsCounted` (`SlotsAccounted`,
by counting holders before and after each step), `ExcessOnlyDrains`, and `NobodyWaitsAlone`:
whoever waits in `acquire` has a slot holder, whose release will broadcast, and still has its
own wake-up when its job has ended.

**ProviderCheckProofs** proves `TypeCorrect`, `ReinitKeptOff` and `ClosedIsRebuilt`
from `GateInv` (`inflight` counts the checks between `begin` and `end`, and a gate
marked dirty has one), and `BatchAnswered` from the fact that every bag the
dispatcher has passed has a result or a worker. `GateInv` also shows that the
rebuild inside `peerGate.begin` never happens: the last `end` has done it.
`TallyStopsInTime` (`StopIsPrompt`) counts the checks that can still fail once the tally has
stopped (`StopInv`). `SkipsAreEarned` (`SkipJustified`) relates the tally to the results: a
failure in the row is a result of its own bag (`TallyInv`), because no two workers
have the same bag (`JobsApart`). `CheckNeverStuck`: until `checkProviderFiles` has returned the
guard of a step of the dispatcher or of a worker holds, because workers leave only once the
channel is closed (`ExitInv`). `CheckRunsDown`: each such step lowers the steps the dispatcher
has left (`DispatchLeft`) or keeps them and lowers those the workers have ahead (`Ahead`), and
a closing connection, an expired ping or the end of the job changes neither.

**LedgerScanProofs** first generalises the answers of `GetTransactions` to any part of a
history (`NextCases`); the accounting does not depend on which part it is. Neither
property is inductive: the LT that is saved was computed steps earlier.
`RegistrationsPending` and `WithdrawalsPending` say that everything between the saved LT
and the one about to be saved is noted or given up, and `Bounds` that no LT in memory
is ahead of the ledger, so that a transaction posted meanwhile is newer. The contract
side is proved for all wallets, known or not. Results: `TypeCorrect`,
`RegistrationsKept` (`RegistrationsAccounted`), `ContractsKept` (`ContractsAccounted`).

**TelemetryBufferProofs** proves `ExpiryNeedsFailure` (`ExpiryExcused`) from `AgeInv`, the
age a report can have in each phase of the worker, and `ReportsKept`
(`ReportsAccounted`) from `Ordered`: reports are stored, written and buffered in the
order of their numbers. `Ordered` needs `AgeInv`, because only a report that is still to
be released can expire.

**EndpointRefreshProofs** proves `TypeCorrect` from `TypeInv`, which adds where StoreProof is
when its call is open (`CallPlace`). `KnownIsUsable` (`KnownNeverFails`) rests on `KnownInv`:
the cache never loses an entry while the process lives, so a provider known when the
recorder was made is in every later copy. `CycleClears` (`CleanCycleClears`) rests
on `ClearInv`: a provider with an error in the buffer is `unclean` (`ErrorsUnclean`), the
statuses loaded are those of the newest rows (`StatusesLoaded`), and a provider whose newest row
may be an error, once resolved, has an `ok` in the buffer (`AnswerBuffered`), through up to
two calls of which the second replaces the map the first has changed.

**UpkeepProofs** proves `KnownTypeCorrect`; `OnlineIsRated` (`OnlineHasRates`) from `RatesInv`,
which says whose rates are still to be saved; `RatedIsKnown` (`RatedWasOnline`) from
`OnlineInv`, the chain from status to history to uptime to rating, each link
written by another worker; `IPTypeCorrect`; `RejectTypeCorrect`; and `OnlyOverdueDeleted`
(`DeletedWasOverdue`) from `OverdueInv`: what an answer or the pinned block makes of a row,
seen from now, says that the row was not backed at the time it describes, which lies no
further back than the grace period (`PastNotBacked`).

Every safety property of a passing run is proved. Only model-checked are the liveness
properties: `CycleEnds`, `PassEnds`, `NoStall`, `EndedJobsLeave`, `Finishes`,
`EverythingCollected`, `ReportsSettled`, `EndpointsConverge`, `StatusTracks`, `InfoCatchesUp`
and `NotBackedForgotten`. The rules for fairness need `ENABLED`, which is out of the prover's
reach. What does not need it is proved for those that are about one call coming to its end:
for `PassEnds` and `Finishes` that some step of the program can be taken and that every step
lowers a number, for `CycleEnds` that the cycle has fewer calls left after each step and a bounded
wait, for `NoStall` and `EndedJobsLeave` that somebody is there to end the wait. The guards in
`CanMove` are written out from the actions by hand. The other six speak of faults that stop at some time
and of several runs of a worker, and have no such part.
`CutIsCollectedLater` and `EveryBagJudged` are refuted by TLC.

## 6. Not modelled, and what is left

* The cache behind `GetLatestTelemetry`: what it returns depends on memory reuse in the HTTP server.
* `RunStorageInfo` and the `...All` variants of the client without a caller;
  `checkProviderFiles` in `PM/worker.go:1139-1327`, which nothing calls.
* Listing and filtering SQL, the arithmetic of ratings, HTTP validation and formatting,
  metrics, logging, configuration: no state that a worker reads.
* DHT and ADNL transport, generated gRPC code: I/O.
* The dump tool and its in-memory repositories: offline rendering of requests.

Left to do: `LoopAgrees` and `PassOutcome` state the link between RunChecksPass and StoreProof in
the variables of the former: the assignment is the one StoreProof computes and the outcome one
it picks from. A module with the state of both, in which the pass replaces
`RunMain` and `RunRetry`, would make it a refinement.
