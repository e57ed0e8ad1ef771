------------------------------ MODULE StoreProof ------------------------------
(***************************************************************************)
(* The StoreProof worker of the coordinator: every cycle it has all bags   *)
(* of all providers checked by the agents, publishes definitive verdicts   *)
(* at once, defers failures a second look may change, retries those once   *)
(* on other agents before nextFullAt - 5m, and publishes what is left.     *)
(*                                                                         *)
(* Time is counted from the start of the current cycle and saturates at    *)
(* Interval; every call of the worker may take any amount of it.  Every    *)
(* database call may fail, fails for sure once the worker's context is     *)
(* cancelled, and the process may die between any two steps.               *)
(***************************************************************************)
EXTENDS ReasonCodes, RunChecksShard

CONSTANTS
  AgentReasons,  \* the codes agents report in the model at hand
  Interval,      \* COORDINATOR_STOREPROOF_INTERVAL_MINUTES
  RetryBuffer,   \* storeProofRetryBuffer, 5 minutes
  RetryDelay     \* COORDINATOR_STOREPROOF_RETRY_DELAY_MINUTES

ASSUME StoreProofAssumption ==
  /\ AgentReasons \subseteq ReasonCode
  /\ Interval \in Nat \ {0}
  /\ RetryBuffer \in Nat
  /\ RetryDelay \in Nat

VARIABLES
  \* Persistent: providers.storage_contracts and providers.providers.
  rows,          \* the rows that exist
  reason,        \* sc.reason
  status,        \* p.status, the most frequent recent reason
  \* In memory of the coordinator process.
  sticky,        \* providerAgentSuccess
  cancelled,     \* the workers' context is cancelled (SIGTERM)
  shortSleep,    \* the last cycle asked for storeProofFailureInterval
  elapsed,       \* time since the cycle started
  \* Locals of one call of StoreProof.
  pc,
  contracts,     \* storageContracts
  available,     \* providers with a valid entry in availableProvidersIPs
  mainResults, mainAssignment,
  pending,       \* pendingKeys
  wakeAt,        \* sleepUntil
  retryResults, retryAssignment

dbVars == <<rows, reason, status>>
procVars == <<sticky, cancelled, shortSleep>>
passVars == <<mainResults, mainAssignment>>
retryVars == <<retryResults, retryAssignment>>
localVars == <<pc, contracts, available, mainResults, mainAssignment,
               pending, wakeAt, retryResults, retryAssignment>>
vars == <<rows, reason, status, sticky, cancelled, shortSleep, elapsed, pc,
          contracts, available, mainResults, mainAssignment, pending, wakeAt,
          retryResults, retryAssignment>>

-----------------------------------------------------------------------------
(* Shorthands *)

NoResults == [c \in Contracts |-> NoReason]
NoAssignment == [p \in Providers |-> NoAgent]

Deadline == Interval - RetryBuffer   \* retryDeadline, from the cycle's start

\* The ways a cycle with deferred fails reaches its final commit.
FinalPath == {"skip", "cancel", "late", "retry"}
CommitPC == [skip |-> "commitSkip", cancel |-> "commitCancel",
             late |-> "commitLate", retry |-> "commitRetry"]
StatusPC == [skip |-> "statusSkip", cancel |-> "statusCancel",
             late |-> "statusLate", retry |-> "statusRetry"]

PCs == {"sleep", "reject", "resolve", "main", "commitMain", "statusMain",
        "decide", "wait", "refresh", "retry", "retryExpired",
        "commitSkip", "commitCancel", "commitLate", "commitRetry",
        "statusSkip", "statusCancel", "statusLate", "statusRetry"}

TypeOK ==
  /\ rows \subseteq Contracts
  /\ reason \in [Contracts -> Reason]
  /\ status \in [Providers -> Reason]
  /\ sticky \in [Providers -> Agent]
  /\ cancelled \in BOOLEAN /\ shortSleep \in BOOLEAN
  /\ elapsed \in 0..Interval
  /\ pc \in PCs
  /\ contracts \subseteq Contracts
  /\ available \subseteq Providers
  /\ mainResults \in [Contracts -> Reason]
  /\ mainAssignment \in [Providers -> Agent]
  /\ pending \subseteq Contracts
  /\ wakeAt \in Int
  /\ retryResults \in [Contracts -> Reason]
  /\ retryAssignment \in [Providers -> Agent]

Init ==
  /\ rows = {}
  /\ reason = NoResults
  /\ status = [p \in Providers |-> NoReason]
  /\ sticky = NoAssignment
  /\ cancelled = FALSE
  /\ shortSleep = TRUE         \* the first cycle starts at once
  /\ elapsed = 0
  /\ pc = "sleep"
  /\ contracts = {} /\ available = {} /\ pending = {}
  /\ mainResults = NoResults /\ mainAssignment = NoAssignment
  /\ wakeAt = 0
  /\ retryResults = NoResults /\ retryAssignment = NoAssignment

\* The locals of StoreProof go out of scope.
DropLocals ==
  /\ pc' = "sleep"
  /\ contracts' = {} /\ available' = {} /\ pending' = {}
  /\ mainResults' = NoResults /\ mainAssignment' = NoAssignment
  /\ wakeAt' = 0
  /\ retryResults' = NoResults /\ retryAssignment' = NoAssignment

\* StoreProof returns storeProofFailureInterval (short) or remain().
Return(short) ==
  /\ DropLocals
  /\ shortSleep' = short
  /\ UNCHANGED <<sticky, cancelled, elapsed>>

-----------------------------------------------------------------------------
(* Database statements *)

GetStorageContracts == rows

\* A DELETE: a row that comes back later comes back without its reason.
UpdateRejectedStorageContracts(closed) ==
  /\ rows' = rows \ closed
  /\ reason' = [c \in Contracts |-> IF c \in closed THEN NoReason ELSE reason[c]]

\* UpdateContractProofsChecks: an UPDATE, so rows that are gone stay gone.
UpdateContractProofsChecks(commit, verdict) ==
  reason' = [c \in Contracts |->
               IF c \in commit \cap rows THEN verdict[c] ELSE reason[c]]

\* The rows of a provider that UpdateStatuses counts: judged, and within the
\* last 24 hours.  Rows this cycle wrote are; older ones may or may not be.
Recent(p, window) == {c \in window : c \in rows /\ ProviderOf[c] = p /\ reason[c] # NoReason}

\* Reasons that no other reason outnumbers.
Modes(S) ==
  LET count(r) == Cardinality({c \in S : reason[c] = r})
  IN  {reason[c] : c \in {d \in S : \A e \in S : count(reason[e]) <= count(reason[d])}}

\* UpdateStatuses: ties are broken arbitrarily (ROW_NUMBER over count), and a
\* provider without recent reasons keeps its status.
UpdateStatuses(written) ==
  \E window \in {w \in SUBSET Contracts : written \subseteq w} :
    status' \in {f \in [Providers -> {status[p] : p \in Providers}
                                       \union {reason[c] : c \in Contracts}] :
                   \A p \in Providers :
                     IF Recent(p, window) = {}
                     THEN f[p] = status[p]
                     ELSE f[p] \in Modes(Recent(p, window))}

-----------------------------------------------------------------------------
(* One RunChecks pass: runStoreProofChecks *)

\* Providers that get a batch: contracts to check and a resolved endpoint.
Batch(todo) == {p \in available : Bags(todo, p) # {}}

\* Mutant: a code of a newer agent is stored as it comes.
RowReasonsRaw == AgentReasons \union {"NotFound", "UNSPECIFIED"}

\* The codes an agent's row can turn into: reasonFromProto maps what it does
\* not know to NotFound.
RowReasons == AgentReasons \union {"NotFound"}

\* buildBagCheckResults
Results(todo, a, answered, verdict) ==
  [c \in Contracts |->
     CASE c \notin todo                                -> NoReason
       [] c \in todo /\ ProviderOf[c] \notin available -> "IPNotFound"
       [] c \in todo /\ ProviderOf[c] \in available    -> merged(c, a, answered, verdict)]

\* updateProviderAgentSuccess: the agent that proved a bag of p becomes sticky.
updateProviderAgentSuccess(todo, results, a) ==
  sticky' = [p \in Providers |->
               IF /\ a[p] # NoAgent
                  /\ \E c \in Bags(todo, p) : results[c] = "ValidStorageProof"
               THEN a[p] ELSE sticky[p]]

-----------------------------------------------------------------------------
(* The cycle *)

\* run() wakes the worker and GetStorageContracts succeeds.  The stale-first
\* endpoint refresh that follows only warns; its effects are not state here.
StartCycle ==
  /\ pc = "sleep" /\ ~cancelled
  /\ shortSleep \/ elapsed = Interval
  /\ elapsed' = 0
  /\ contracts' = GetStorageContracts
  /\ pc' = "reject"
  /\ UNCHANGED <<dbVars, procVars, available, passVars, pending, wakeAt, retryVars>>

StartCycleFails ==
  /\ pc = "sleep" /\ ~cancelled
  /\ shortSleep \/ elapsed = Interval
  /\ elapsed' = 0
  /\ shortSleep' = TRUE
  /\ UNCHANGED <<dbVars, sticky, cancelled, localVars>>

\* updateRejectedContracts: the chain no longer lists the provider, or lists
\* it as removed for lack of balance.  The rows are deleted.
updateRejectedContracts(closed) ==
  /\ pc = "reject"
  /\ closed \subseteq contracts
  /\ cancelled => closed = {}     \* a dead context only yields LiteServerError
  /\ UpdateRejectedStorageContracts(closed)
  /\ contracts' = contracts \ closed
  /\ pc' = "resolve"
  /\ UNCHANGED <<status, procVars, elapsed, available, passVars, pending, wakeAt, retryVars>>

\* updateProvidersIPs: a full endpoint refresh of the contracts' providers.
updateProvidersIPs(resolved) ==
  /\ pc = "resolve"
  /\ contracts # {} => ~cancelled
  /\ resolved \subseteq {ProviderOf[c] : c \in contracts}
  /\ available' = resolved
  /\ pc' = "main"
  /\ UNCHANGED <<dbVars, procVars, elapsed, contracts, passVars, pending, wakeAt, retryVars>>

\* One of the two calls above fails, or no agent answers the main pass.
AbortBeforeCommit ==
  /\ \/ pc \in {"reject", "resolve"} /\ contracts # {}
     \/ pc = "main" /\ (Endpoints = {} \/ Batch(contracts) # {})
  /\ Return(TRUE)
  /\ UNCHANGED dbVars

\* The main pass, at least one agent having answered.
RunMain ==
  /\ pc = "main"
  /\ \E a \in assignProvidersToAgents(contracts, Batch(contracts), sticky, NoAssignment) :
       \E answered \in Answers(a) :
         \E verdict \in [{c \in contracts : a[ProviderOf[c]] \in answered} -> RowReasons] :
           /\ mainResults' = Results(contracts, a, answered, verdict)
           /\ mainAssignment' = a
           /\ updateProviderAgentSuccess(contracts, mainResults', a)
  /\ pc' = "commitMain"
  /\ UNCHANGED <<dbVars, cancelled, shortSleep, elapsed, contracts, available,
                 pending, wakeAt, retryVars>>

\* No provider has a resolved endpoint: no agent is called.
RunMainUnresolved ==
  /\ pc = "main" /\ Endpoints # {} /\ Batch(contracts) = {}
  /\ mainResults' = Results(contracts, NoAssignment, {}, NoResults)
  /\ pc' = "commitMain"
  /\ UNCHANGED <<dbVars, procVars, elapsed, contracts, available, mainAssignment,
                 pending, wakeAt, retryVars>>

\* Mutant: the main pass publishes everything it found.
toCommitAll == contracts

\* selectMainProofsCommit: what may be public before the retry.
toCommit == {c \in contracts : ~isRetriableReason(mainResults[c])}

CommitMain ==
  /\ pc = "commitMain"
  /\ toCommit # {} => ~cancelled
  /\ UpdateContractProofsChecks(toCommit, mainResults)
  /\ pending' = contracts \ toCommit
  /\ pc' = "statusMain"
  /\ UNCHANGED <<rows, status, procVars, elapsed, contracts, available, passVars,
                 wakeAt, retryVars>>

CommitMainFails ==
  /\ pc = "commitMain" /\ toCommit # {}
  /\ Return(TRUE)
  /\ UNCHANGED dbVars

StatusMain ==
  /\ pc = "statusMain" /\ ~cancelled
  /\ UpdateStatuses(contracts \ pending)
  /\ pc' = "decide"
  /\ UNCHANGED <<rows, reason, procVars, elapsed, contracts, available, passVars,
                 pending, wakeAt, retryVars>>

StatusMainFails ==
  /\ pc = "statusMain"
  /\ Return(TRUE)
  /\ UNCHANGED dbVars

shouldRetry == pending # {} /\ RetryDelay > 0 /\ elapsed < Deadline

\* sleepUntil, clamped to retryDeadline.
ScheduleRetry ==
  /\ pc = "decide" /\ shouldRetry
  /\ wakeAt' = IF elapsed + RetryDelay > Deadline THEN Deadline ELSE elapsed + RetryDelay
  /\ pc' = "wait"
  /\ UNCHANGED <<dbVars, procVars, elapsed, contracts, available, passVars, pending, retryVars>>

SkipRetry ==
  /\ pc = "decide" /\ ~shouldRetry /\ pending # {}
  /\ pc' = CommitPC["skip"]
  /\ UNCHANGED <<dbVars, procVars, elapsed, contracts, available, passVars, pending,
                 wakeAt, retryVars>>

NothingDeferred ==
  /\ pc = "decide" /\ pending = {}
  /\ Return(FALSE)
  /\ UNCHANGED dbVars

\* Mutant: the wake-up time has to be hit exactly.
WaitElapsedExactly ==
  /\ pc = "wait" /\ elapsed = wakeAt
  /\ pc' = IF elapsed < Deadline THEN "refresh" ELSE CommitPC["late"]
  /\ UNCHANGED <<dbVars, procVars, elapsed, contracts, available, passVars, pending,
                 wakeAt, retryVars>>

\* waitUntil: the timer fires.
WaitElapsed ==
  /\ pc = "wait" /\ elapsed >= wakeAt
  /\ pc' = IF elapsed < Deadline THEN "refresh" ELSE CommitPC["late"]
  /\ UNCHANGED <<dbVars, procVars, elapsed, contracts, available, passVars, pending,
                 wakeAt, retryVars>>

\* waitUntil: the context is cancelled first.
WaitCancelled ==
  /\ pc = "wait" /\ cancelled
  /\ pc' = CommitPC["cancel"]
  /\ UNCHANGED <<dbVars, procVars, elapsed, contracts, available, passVars, pending,
                 wakeAt, retryVars>>

\* Force refresh of the pending providers (empty when it fails), merged into
\* availableProvidersIPs.  It runs under ctx, not under the retry deadline; a
\* context that is over by now fails every call of the retry pass.
refreshForRetry(refreshed) ==
  /\ pc = "refresh"
  /\ refreshed \subseteq {ProviderOf[c] : c \in pending}
  /\ available' = available \union refreshed
  /\ pc' = IF elapsed < Deadline /\ ~cancelled THEN "retry" ELSE "retryExpired"
  /\ UNCHANGED <<dbVars, procVars, elapsed, contracts, passVars, pending, wakeAt, retryVars>>

\* The retry pass over the pending contracts, on agents the main pass did not
\* use for them.  Answers that came before retryDeadline count.
RunRetry ==
  /\ pc = "retry"
  /\ \E a \in assignProvidersToAgents(pending, Batch(pending), sticky, mainAssignment) :
       \E answered \in Answers(a) :
         \E verdict \in [{c \in pending : a[ProviderOf[c]] \in answered} -> RowReasons] :
           /\ retryResults' = Results(pending, a, answered, verdict)
           /\ retryAssignment' = a
           /\ updateProviderAgentSuccess(pending, retryResults', a)
  /\ pc' = CommitPC["retry"]
  /\ UNCHANGED <<dbVars, cancelled, shortSleep, elapsed, contracts, available, passVars,
                 pending, wakeAt>>

RunRetryUnresolved ==
  /\ pc \in {"retry", "retryExpired"} /\ Batch(pending) = {}
  /\ retryResults' = Results(pending, NoAssignment, {}, NoResults)
  /\ pc' = CommitPC["retry"]
  /\ UNCHANGED <<dbVars, procVars, elapsed, contracts, available, passVars, pending,
                 wakeAt, retryAssignment>>

\* No agent answers the retry, or its context is over: retryResults = nil.
RunRetryFails ==
  /\ pc \in {"retry", "retryExpired"} /\ Batch(pending) # {}
  /\ pc' = CommitPC["retry"]
  /\ UNCHANGED <<dbVars, procVars, elapsed, contracts, available, passVars, pending,
                 wakeAt, retryVars>>

\* Mutant: what the retry found is ignored.
finalVerdictMain == mainResults

\* selectFinalProofsCommit: the retry's verdict when there is one.
finalVerdict == [c \in Contracts |->
  IF retryResults[c] # NoReason THEN retryResults[c] ELSE mainResults[c]]

\* The commit after a cancelled wait uses context.WithoutCancel.
CommitFinal(path) ==
  /\ pc = CommitPC[path]
  /\ path # "cancel" => ~cancelled
  /\ UpdateContractProofsChecks(pending, finalVerdict)
  /\ pc' = StatusPC[path]
  /\ UNCHANGED <<rows, status, procVars, elapsed, contracts, available, passVars,
                 pending, wakeAt, retryVars>>

\* After a cancelled wait the errors are only logged.
CommitFinalFails(path) ==
  /\ pc = CommitPC[path]
  /\ Return(path # "cancel")
  /\ UNCHANGED dbVars

\* Mutant: the statuses are not recomputed after the deferred commit.
StatusFinalSkipped(path) ==
  /\ pc = StatusPC[path]
  /\ Return(FALSE)
  /\ UNCHANGED dbVars

StatusFinal(path) ==
  /\ pc = StatusPC[path]
  /\ path # "cancel" => ~cancelled
  /\ UpdateStatuses(contracts)
  /\ Return(FALSE)
  /\ UNCHANGED <<rows, reason>>

StatusFinalFails(path) ==
  /\ pc = StatusPC[path]
  /\ Return(path # "cancel")
  /\ UNCHANGED dbVars

-----------------------------------------------------------------------------
(* The environment *)

\* Time passes.  The retry pass returns at retryDeadline at the latest.
Tick ==
  /\ elapsed < Interval
  /\ ~(pc = "retry" /\ elapsed >= Deadline)
  /\ elapsed' = elapsed + 1
  /\ UNCHANGED <<dbVars, procVars, localVars>>

\* CollectProvidersNewStorageContracts runs beside StoreProof: AddStorageContracts
\* inserts rows without a reason and leaves the reason of existing ones alone.
AddStorageContracts(c) ==
  /\ c \notin rows
  /\ rows' = rows \union {c}
  /\ UNCHANGED <<reason, status, procVars, elapsed, localVars>>

\* SIGTERM: main cancels the workers' context.
Cancel ==
  /\ ~cancelled
  /\ cancelled' = TRUE
  /\ UNCHANGED <<dbVars, sticky, shortSleep, elapsed, localVars>>

\* The process ends (main does not wait for the workers) and starts again.
Crash ==
  /\ DropLocals
  /\ sticky' = NoAssignment
  /\ cancelled' = FALSE
  /\ shortSleep' = TRUE
  /\ elapsed' = 0
  /\ UNCHANGED dbVars

-----------------------------------------------------------------------------

Worker ==
  \/ StartCycle \/ StartCycleFails
  \/ \E closed \in SUBSET contracts : updateRejectedContracts(closed)
  \/ \E resolved \in SUBSET Providers : updateProvidersIPs(resolved)
  \/ AbortBeforeCommit
  \/ RunMain \/ RunMainUnresolved
  \/ CommitMain \/ CommitMainFails
  \/ StatusMain \/ StatusMainFails
  \/ ScheduleRetry \/ SkipRetry \/ NothingDeferred
  \/ WaitElapsed \/ WaitCancelled
  \/ \E refreshed \in SUBSET Providers : refreshForRetry(refreshed)
  \/ RunRetry \/ RunRetryUnresolved \/ RunRetryFails
  \/ \E path \in FinalPath :
       \/ CommitFinal(path) \/ CommitFinalFails(path)
       \/ StatusFinal(path) \/ StatusFinalFails(path)

Environment ==
  \/ Tick
  \/ \E c \in Contracts : AddStorageContracts(c)
  \/ Cancel
  \/ Crash

Next == Worker \/ Environment

Spec == Init /\ [][Next]_vars

-----------------------------------------------------------------------------
(* Properties *)

\* The call returns without an error, everything it had to write written.
CycleCompletes ==
  /\ pc \notin {"sleep", "commitCancel"}
  /\ pc' = "sleep" /\ ~shortSleep'

\* A completed cycle leaves every bag it looked at with a public reason that one
\* of its two passes found, and never with a failure when one of them proved
\* the bag (selectMainProofsCommit, selectFinalProofsCommit, StoreProof).
VerdictsPublished ==
  [][CycleCompletes =>
       \A c \in contracts :
         /\ reason'[c] \in {mainResults[c], retryResults[c]} \ {NoReason}
         /\ "ValidStorageProof" \in {mainResults[c], retryResults[c]}
              => reason'[c] = "ValidStorageProof"]_vars

\* With a second agent configured, the retry of a provider never goes to the
\* agent its main pass used (assignProvidersToAgents, exclude).
RetryOnOtherAgent ==
  Cardinality(Endpoints) > 1 =>
    \A p \in Providers :
      retryAssignment[p] # NoAgent => retryAssignment[p] # mainAssignment[p]

\* Whenever the worker waits for the next cycle after a completed one, the
\* status of each provider is a most frequent reason among its judged bags
\* (UpdateStatuses after every commit of StoreProof).
StatusMatchesReasons ==
  pc = "sleep" /\ ~shortSleep /\ ~cancelled =>
    \A p \in Providers :
      LET judged == Recent(p, Contracts)
      IN  judged # {} => status[p] \in Modes(judged)

\* A cycle always comes to its end: no call, wait or retry keeps StoreProof
\* from returning (waitUntil, retryCtx).
CycleEnds == pc # "sleep" ~> pc = "sleep"

\* Where StoreProof is in the write policy.
PolicyPhase ==
  CASE pc = "sleep" -> "idle"
    [] pc \in {"reject", "resolve", "main", "commitMain"} -> "checking"
    [] pc \in {"statusSkip", "statusCancel", "statusLate", "statusRetry"} -> "settled"
    [] OTHER -> "deciding"

PolicyDeferred == IF PolicyPhase = "settled" THEN {} ELSE pending

\* The commit policy of deploy/README.md, as an abstract specification.
Policy == INSTANCE ProofCommit WITH phase <- PolicyPhase, deferred <- PolicyDeferred

\* StoreProof implements the write policy: definitive results at once, transient
\* failures only for bags the main pass deferred, all of them in one commit.
ImplementsPolicy == Policy!Spec
=============================================================================
