--------------------------- MODULE StoreProofProofs ---------------------------
(***************************************************************************)
(* Machine-checked proofs about StoreProof, for any number of contracts,   *)
(* providers and agents, any reasons the agents may report and any times:  *)
(* type correctness; the write policy, where a retry may go, and that      *)
(* every step of StoreProof is a step of ProofCommit; the statuses a       *)
(* completed cycle leaves; the pipeline events that go with public         *)
(* failures (StoreProofEvents); the loss of one agent (MCOneDown).          *)
(***************************************************************************)
EXTENDS StoreProofEvents, MCOneDown, TLAPS

-----------------------------------------------------------------------------
(* Facts about the operators *)

\* A pass of runStoreProofChecks turns whatever the agents answer into reasons:
\* a code for each bag it looked at, none for the others.
LEMMA ResultsAreReasons ==
  ASSUME NEW todo \in SUBSET Contracts, NEW a \in [Providers -> Agent],
         NEW answered,
         NEW verdict \in [{c \in todo : a[ProviderOf[c]] \in answered} -> RowReasons]
  PROVE  /\ Results(todo, a, answered, verdict) \in [Contracts -> Reason]
         /\ \A c \in todo : Results(todo, a, answered, verdict)[c] \in ReasonCode
         /\ \A c \in Contracts \ todo : Results(todo, a, answered, verdict)[c] = NoReason
  <1>1. RowReasons \subseteq ReasonCode
    BY StoreProofAssumption DEF RowReasons, ReasonCode
  <1>2. ASSUME NEW c \in todo, ProviderOf[c] \in available
        PROVE  Results(todo, a, answered, verdict)[c] \in ReasonCode
    <2>1. CASE a[ProviderOf[c]] \in answered
      <3>1. verdict[c] \in RowReasons  BY <2>1
      <3>2. Results(todo, a, answered, verdict)[c] = verdict[c]
        BY <1>2, <2>1 DEF Results, merged
      <3> QED BY <1>1, <3>1, <3>2
    <2>2. CASE a[ProviderOf[c]] \notin answered
      BY <1>2, <2>2 DEF Results, merged, ReasonCode
    <2> QED BY <2>1, <2>2
  <1>3. ASSUME NEW c \in todo, ProviderOf[c] \notin available
        PROVE  Results(todo, a, answered, verdict)[c] \in ReasonCode
    BY <1>3 DEF Results, merged, ReasonCode
  <1>4. ASSUME NEW c \in Contracts \ todo
        PROVE  Results(todo, a, answered, verdict)[c] = NoReason
    BY <1>4 DEF Results, merged
  <1>5. Results(todo, a, answered, verdict) = [c \in Contracts |-> Results(todo, a, answered, verdict)[c]]
    BY DEF Results, merged
  <1>6. \A c \in Contracts : Results(todo, a, answered, verdict)[c] \in Reason
    BY <1>2, <1>3, <1>4 DEF Reason
  <1> QED BY <1>2, <1>3, <1>4, <1>5, <1>6

\* The same when no agent is called.
LEMMA UnresolvedAreReasons ==
  ASSUME NEW todo \in SUBSET Contracts
  PROVE  /\ Results(todo, NoAssignment, {}, NoResults) \in [Contracts -> Reason]
         /\ \A c \in todo : Results(todo, NoAssignment, {}, NoResults)[c] \in ReasonCode
         /\ \A c \in Contracts \ todo : Results(todo, NoAssignment, {}, NoResults)[c] = NoReason
  <1>1. \A c \in todo : Results(todo, NoAssignment, {}, NoResults)[c] \in ReasonCode
    BY DEF Results, merged, ReasonCode
  <1>2. \A c \in Contracts \ todo : Results(todo, NoAssignment, {}, NoResults)[c] = NoReason
    BY DEF Results, merged
  <1>3. Results(todo, NoAssignment, {}, NoResults)
          = [c \in Contracts |-> Results(todo, NoAssignment, {}, NoResults)[c]]
    BY DEF Results, merged
  <1>4. \A c \in Contracts : Results(todo, NoAssignment, {}, NoResults)[c] \in Reason
    BY <1>1, <1>2 DEF Reason
  <1> QED BY <1>1, <1>2, <1>3, <1>4

\* assignProvidersToAgents only hands out configured agents, and with a second
\* one configured never the excluded one.
LEMMA AssignmentsAvoidExcluded ==
  ASSUME NEW todo, NEW batch, NEW stickyMap, NEW exclude,
         NEW a \in assignProvidersToAgents(todo, batch, stickyMap, exclude)
  PROVE  /\ a \in [Providers -> Agent]
         /\ Cardinality(Endpoints) > 1 =>
              \A p \in Providers : a[p] # NoAgent => a[p] # exclude[p]
  <1>1. a \in [Providers -> Agent]
    BY DEF assignProvidersToAgents
  <1>2. ASSUME Cardinality(Endpoints) > 1, NEW p \in Providers, a[p] # NoAgent
        PROVE  a[p] # exclude[p]
    <2>1. a[p] \in pickAgent(candidates(exclude[p]), loads(todo, a, p), stickyMap[p])
      BY <1>2 DEF assignProvidersToAgents
    <2>2. a[p] \in candidates(exclude[p])
      BY <2>1 DEF pickAgent
    <2> QED BY <1>2, <2>2 DEF candidates
  <1> QED BY <1>1, <1>2

\* UpdateStatuses leaves every provider with a reason as its status.
LEMMA StatusesAreReasons ==
  ASSUME TypeOK, NEW written, UpdateStatuses(written)
  PROVE  status' \in [Providers -> Reason]
  BY DEF TypeOK, UpdateStatuses

\* Writing verdicts that are reasons leaves reasons.
LEMMA CommitsAreReasons ==
  ASSUME TypeOK, NEW commit, NEW verdict \in [Contracts -> Reason],
         UpdateContractProofsChecks(commit, verdict)
  PROVE  reason' \in [Contracts -> Reason]
  BY DEF TypeOK, UpdateContractProofsChecks

\* What is left when the locals of a cycle go out of scope has its type.
LEMMA DroppedLocalsTyped ==
  ASSUME DropLocals
  PROVE  /\ pc' \in PCs /\ contracts' \subseteq Contracts
         /\ available' \subseteq Providers /\ pending' \subseteq Contracts
         /\ mainResults' \in [Contracts -> Reason] /\ retryResults' \in [Contracts -> Reason]
         /\ mainAssignment' \in [Providers -> Agent]
         /\ retryAssignment' \in [Providers -> Agent]
         /\ wakeAt' \in Int
  BY DEF DropLocals, PCs, NoResults, NoAssignment, Agent, Reason

-----------------------------------------------------------------------------
(* Type correctness *)

\* The tables and the worker's memory start out well typed.
LEMMA InitTyped == Init => TypeOK
<1> SUFFICES ASSUME Init PROVE TypeOK
  OBVIOUS
<1>1. 0 \in 0..Interval /\ 0 \in Int
  BY StoreProofAssumption
<1>2. NoAssignment \in [Providers -> Agent] /\ NoResults \in [Contracts -> Reason]
  BY DEF NoAssignment, Agent, NoResults, Reason
<1>3. status \in [Providers -> Reason]
  BY DEF Init, Reason
<1>4. cancelled \in BOOLEAN /\ shortSleep \in BOOLEAN
  BY DEF Init
<1> QED
  BY <1>1, <1>2, <1>3, <1>4 DEF Init, TypeOK, PCs

\* Every call, failure, cancellation and restart keeps the types.
LEMMA TypeStep ==
  ASSUME TypeOK, [Next]_vars
  PROVE  TypeOK'
<1>1. CASE StartCycle
  BY <1>1, StoreProofAssumption DEF TypeOK, StartCycle, GetStorageContracts, dbVars, procVars, passVars, retryVars, PCs
<1>2. CASE StartCycleFails
  BY <1>2, StoreProofAssumption DEF TypeOK, StartCycleFails, dbVars, localVars
<1>3. ASSUME NEW closed \in SUBSET contracts, updateRejectedContracts(closed) PROVE TypeOK'
  BY <1>3 DEF TypeOK, updateRejectedContracts, UpdateRejectedStorageContracts, procVars, passVars, retryVars, PCs, Reason
<1>4. ASSUME NEW resolved \in SUBSET Providers, updateProvidersIPs(resolved) PROVE TypeOK'
  BY <1>4 DEF TypeOK, updateProvidersIPs, dbVars, procVars, passVars, retryVars, PCs
<1>5. CASE AbortBeforeCommit
  BY <1>5, DroppedLocalsTyped DEF TypeOK, AbortBeforeCommit, Return, dbVars
<1>6. CASE RunMain
  <2>1. PICK a \in assignProvidersToAgents(contracts, Batch(contracts), sticky, NoAssignment) :
          \E answered \in Answers(a) :
            \E verdict \in [{c \in contracts : a[ProviderOf[c]] \in answered} -> RowReasons] :
              /\ mainResults' = Results(contracts, a, answered, verdict)
              /\ mainAssignment' = a
              /\ updateProviderAgentSuccess(contracts, mainResults', a)
    BY <1>6 DEF RunMain
  <2>2. a \in [Providers -> Agent]
    BY AssignmentsAvoidExcluded
  <2>3. mainResults' \in [Contracts -> Reason]
    <3>1. PICK answered \in Answers(a) :
            \E verdict \in [{c \in contracts : a[ProviderOf[c]] \in answered} -> RowReasons] :
              mainResults' = Results(contracts, a, answered, verdict)
      BY <2>1
    <3>2. PICK verdict \in [{c \in contracts : a[ProviderOf[c]] \in answered} -> RowReasons] :
            mainResults' = Results(contracts, a, answered, verdict)
      BY <3>1
    <3>3. contracts \in SUBSET Contracts
      BY DEF TypeOK
    <3>4. Results(contracts, a, answered, verdict) \in [Contracts -> Reason]
      BY <2>2, <3>3, ResultsAreReasons
    <3> QED BY <3>2, <3>4
  <2>4. sticky' \in [Providers -> Agent]
    BY <2>1, <2>2 DEF TypeOK, updateProviderAgentSuccess
  <2> QED
    BY <1>6, <2>1, <2>2, <2>3, <2>4 DEF TypeOK, RunMain, dbVars, retryVars, PCs
<1>7. CASE RunMainUnresolved
  BY <1>7, UnresolvedAreReasons
  DEF TypeOK, RunMainUnresolved, dbVars, procVars, retryVars, PCs
<1>8. CASE CommitMain
  BY <1>8, CommitsAreReasons
  DEF TypeOK, CommitMain, procVars, passVars, retryVars, PCs
<1>9. CASE CommitMainFails
  BY <1>9, DroppedLocalsTyped DEF TypeOK, CommitMainFails, Return, dbVars
<1>10. CASE StatusMain
  BY <1>10, StatusesAreReasons DEF TypeOK, StatusMain, procVars, passVars, retryVars, PCs
<1>11. CASE StatusMainFails
  BY <1>11, DroppedLocalsTyped DEF TypeOK, StatusMainFails, Return, dbVars
<1>12. CASE ScheduleRetry
  <2>1. wakeAt' \in Int
    BY <1>12, StoreProofAssumption DEF TypeOK, ScheduleRetry, Deadline
  <2> QED
    BY <1>12, <2>1 DEF TypeOK, ScheduleRetry, dbVars, procVars, passVars, retryVars, PCs
<1>13. CASE SkipRetry
  BY <1>13 DEF TypeOK, SkipRetry, dbVars, procVars, passVars, retryVars, PCs, CommitPC
<1>14. CASE NothingDeferred
  BY <1>14, DroppedLocalsTyped DEF TypeOK, NothingDeferred, Return, dbVars
<1>15. CASE WaitElapsed
  BY <1>15 DEF TypeOK, WaitElapsed, dbVars, procVars, passVars, retryVars, PCs, CommitPC
<1>16. CASE WaitCancelled
  BY <1>16 DEF TypeOK, WaitCancelled, dbVars, procVars, passVars, retryVars, PCs, CommitPC
<1>17. ASSUME NEW refreshed \in SUBSET Providers, refreshForRetry(refreshed) PROVE TypeOK'
  BY <1>17 DEF TypeOK, refreshForRetry, dbVars, procVars, passVars, retryVars, PCs
<1>18. CASE RunRetry
  <2>1. PICK a \in assignProvidersToAgents(pending, Batch(pending), sticky, mainAssignment) :
          \E answered \in Answers(a) :
            \E verdict \in [{c \in pending : a[ProviderOf[c]] \in answered} -> RowReasons] :
              /\ retryResults' = Results(pending, a, answered, verdict)
              /\ retryAssignment' = a
              /\ updateProviderAgentSuccess(pending, retryResults', a)
    BY <1>18 DEF RunRetry
  <2>2. a \in [Providers -> Agent]
    BY AssignmentsAvoidExcluded
  <2>3. retryResults' \in [Contracts -> Reason]
    <3>1. PICK answered \in Answers(a) :
            \E verdict \in [{c \in pending : a[ProviderOf[c]] \in answered} -> RowReasons] :
              retryResults' = Results(pending, a, answered, verdict)
      BY <2>1
    <3>2. PICK verdict \in [{c \in pending : a[ProviderOf[c]] \in answered} -> RowReasons] :
            retryResults' = Results(pending, a, answered, verdict)
      BY <3>1
    <3>3. pending \in SUBSET Contracts
      BY DEF TypeOK
    <3>4. Results(pending, a, answered, verdict) \in [Contracts -> Reason]
      BY <2>2, <3>3, ResultsAreReasons
    <3> QED BY <3>2, <3>4
  <2>4. sticky' \in [Providers -> Agent]
    BY <2>1, <2>2 DEF TypeOK, updateProviderAgentSuccess
  <2> QED
    BY <1>18, <2>1, <2>2, <2>3, <2>4 DEF TypeOK, RunRetry, dbVars, passVars, PCs, CommitPC
<1>19. CASE RunRetryUnresolved
  BY <1>19, UnresolvedAreReasons
  DEF TypeOK, RunRetryUnresolved, dbVars, procVars, passVars, PCs, CommitPC
<1>20. CASE RunRetryFails
  BY <1>20 DEF TypeOK, RunRetryFails, dbVars, procVars, passVars, retryVars, PCs, CommitPC
<1>21. ASSUME NEW path \in FinalPath, CommitFinal(path) PROVE TypeOK'
  <2>1. finalVerdict \in [Contracts -> Reason]
    BY DEF TypeOK, finalVerdict
  <2>2. reason' \in [Contracts -> Reason]
    BY <1>21, <2>1, CommitsAreReasons DEF CommitFinal
  <2> QED
    BY <1>21, <2>2
    DEF TypeOK, CommitFinal, procVars, passVars, retryVars, PCs, StatusPC, FinalPath
<1>22. ASSUME NEW path \in FinalPath, CommitFinalFails(path) PROVE TypeOK'
  BY <1>22, DroppedLocalsTyped DEF TypeOK, CommitFinalFails, Return, dbVars
<1>23. ASSUME NEW path \in FinalPath, StatusFinal(path) PROVE TypeOK'
  BY <1>23, DroppedLocalsTyped, StatusesAreReasons DEF TypeOK, StatusFinal, Return
<1>24. ASSUME NEW path \in FinalPath, StatusFinalFails(path) PROVE TypeOK'
  BY <1>24, DroppedLocalsTyped DEF TypeOK, StatusFinalFails, Return, dbVars
<1>25. CASE Tick
  BY <1>25, StoreProofAssumption DEF TypeOK, Tick, dbVars, procVars, localVars
<1>26. ASSUME NEW c \in Contracts, AddStorageContracts(c) PROVE TypeOK'
  BY <1>26 DEF TypeOK, AddStorageContracts, procVars, localVars
<1>27. CASE Cancel
  BY <1>27 DEF TypeOK, Cancel, dbVars, localVars
<1>28. CASE Crash
  <2>1. elapsed' \in 0..Interval
    BY <1>28, StoreProofAssumption DEF Crash
  <2>2. sticky' \in [Providers -> Agent]
    BY <1>28 DEF Crash, NoAssignment, Agent
  <2>3. cancelled' \in BOOLEAN /\ shortSleep' \in BOOLEAN
    BY <1>28 DEF Crash
  <2> QED
    BY <1>28, <2>1, <2>2, <2>3, DroppedLocalsTyped DEF TypeOK, Crash, dbVars
<1>29. CASE UNCHANGED vars
  BY <1>29 DEF TypeOK, vars
<1> QED
  BY <1>1, <1>2, <1>3, <1>4, <1>5, <1>6, <1>7, <1>8, <1>9, <1>10, <1>11, <1>12, <1>13,
     <1>14, <1>15, <1>16, <1>17, <1>18, <1>19, <1>20, <1>21, <1>22, <1>23, <1>24,
     <1>25, <1>26, <1>27, <1>28, <1>29
  DEF Next, Worker, Environment

\* Every variable of StoreProof keeps its type through every call, failure,
\* cancellation and restart; in particular only codes of constants.ReasonCode
\* ever reach storage_contracts.reason and providers.status.
THEOREM TypeCorrect == Spec => []TypeOK
<1>1. Init => TypeOK
  BY InitTyped
<1>2. TypeOK /\ [Next]_vars => TypeOK'
  BY TypeStep
<1> QED
  BY <1>1, <1>2, PTL DEF Spec

-----------------------------------------------------------------------------
(* The write policy: the invariant *)

\* Before the main pass has results; before its commit; after the last one.
Unchecked == {"sleep", "reject", "resolve", "main"}
Uncommitted == Unchecked \union {"commitMain"}
Settled == {"statusSkip", "statusCancel", "statusLate", "statusRetry"}

\* The rows a cycle works on still exist: only the cycle itself deletes rows.
ContractsExist == contracts \subseteq rows

\* The main pass judged every bag it was given.
MainJudged == pc \notin Unchecked => \A c \in contracts : mainResults[c] \in ReasonCode

\* The deferred bags are those whose failure may be transient.
PendingIsRetriable ==
  pending = IF pc \in Uncommitted THEN {}
            ELSE {c \in contracts : isRetriableReason(mainResults[c])}

\* The definitive outcomes are public after the first commit.
DefinitivePublic ==
  pc \notin Uncommitted => \A c \in contracts \ pending : reason[c] = mainResults[c]

\* The final verdicts are public after the second one.
DeferredPublic == pc \in Settled => \A c \in pending : reason[c] = finalVerdict[c]

\* Only a finished retry pass has results and an assignment, and it judged only
\* deferred bags.
RetryJudged ==
  /\ pc \notin {"commitRetry", "statusRetry"}
       => retryResults = NoResults /\ retryAssignment = NoAssignment
  /\ \A c \in Contracts : retryResults[c] # NoReason => c \in pending

CommitInv ==
  /\ TypeOK /\ ContractsExist /\ MainJudged /\ PendingIsRetriable
  /\ DefinitivePublic /\ DeferredPublic /\ RetryJudged /\ RetryOnOtherAgent
-----------------------------------------------------------------------------
(* The invariant is inductive *)

\* A cycle that ends, whichever way, leaves nothing to account for.
LEMMA ReturnKeepsCommitInv ==
  ASSUME DropLocals
  PROVE  /\ ContractsExist' /\ MainJudged' /\ PendingIsRetriable' /\ DefinitivePublic'
         /\ DeferredPublic' /\ RetryJudged' /\ RetryOnOtherAgent'
  <1>1. ContractsExist' /\ MainJudged' /\ PendingIsRetriable' /\ DefinitivePublic' /\ DeferredPublic'
    BY DEF DropLocals, ContractsExist, MainJudged, PendingIsRetriable, DefinitivePublic,
           DeferredPublic, Unchecked, Uncommitted, Settled
  <1>2. RetryJudged'
    BY DEF DropLocals, RetryJudged, NoResults
  <1>3. RetryOnOtherAgent'
    BY DEF DropLocals, RetryOnOtherAgent, NoAssignment
  <1> QED BY <1>1, <1>2, <1>3

\* Steps between the two commits that write neither reasons nor results.
LEMMA MovingOnKeepsCommitInv ==
  ASSUME CommitInv,
         UNCHANGED <<rows, reason, contracts, mainResults, mainAssignment, pending,
                     retryResults, retryAssignment>>,
         pc \notin Uncommitted, pc \notin {"commitRetry", "statusRetry"},
         pc' \notin Uncommitted, pc' \notin Settled
  PROVE  /\ ContractsExist' /\ MainJudged' /\ PendingIsRetriable' /\ DefinitivePublic'
         /\ DeferredPublic' /\ RetryJudged' /\ RetryOnOtherAgent'
  <1>1. pc \notin Unchecked /\ pc' \notin Unchecked
    BY DEF Uncommitted
  <1>2. ContractsExist' /\ MainJudged' /\ PendingIsRetriable' /\ DefinitivePublic'
    BY <1>1 DEF CommitInv, ContractsExist, MainJudged, PendingIsRetriable, DefinitivePublic
  <1>3. DeferredPublic'
    BY DEF DeferredPublic
  <1>4. RetryJudged' /\ RetryOnOtherAgent'
    BY DEF CommitInv, RetryJudged, RetryOnOtherAgent, NoResults, NoAssignment
  <1> QED BY <1>2, <1>3, <1>4

\* Steps that leave the cycle's locals and the reasons alone.
LEMMA ElsewhereKeepsCommitInv ==
  ASSUME CommitInv, rows \subseteq rows',
         UNCHANGED <<reason, pc, contracts, mainResults, mainAssignment, pending,
                     retryResults, retryAssignment>>
  PROVE  /\ ContractsExist' /\ MainJudged' /\ PendingIsRetriable' /\ DefinitivePublic'
         /\ DeferredPublic' /\ RetryJudged' /\ RetryOnOtherAgent'
  BY DEF CommitInv, ContractsExist, MainJudged, PendingIsRetriable, DefinitivePublic,
         DeferredPublic, RetryJudged, RetryOnOtherAgent, finalVerdict, NoResults, NoAssignment

\* No step of StoreProof or its environment breaks the invariant.
LEMMA CommitInvStep ==
  ASSUME CommitInv, TypeOK', [Next]_vars
  PROVE  CommitInv'
<1> USE DEF Unchecked, Uncommitted, Settled
<1> DEFINE Rest == /\ ContractsExist /\ MainJudged /\ PendingIsRetriable
                   /\ DefinitivePublic /\ DeferredPublic /\ RetryJudged /\ RetryOnOtherAgent
<1> SUFFICES Rest'
  BY DEF CommitInv
<1>1. CASE StartCycle
  BY <1>1 DEF CommitInv, StartCycle, GetStorageContracts, ContractsExist, MainJudged, PendingIsRetriable,
     DefinitivePublic, DeferredPublic, RetryJudged, RetryOnOtherAgent,
     dbVars, procVars, passVars, retryVars, NoResults, NoAssignment
<1>2. CASE StartCycleFails
  BY <1>2, ElsewhereKeepsCommitInv DEF StartCycleFails, dbVars, localVars
<1>3. ASSUME NEW closed \in SUBSET contracts, updateRejectedContracts(closed) PROVE Rest'
  BY <1>3 DEF CommitInv, updateRejectedContracts, UpdateRejectedStorageContracts, ContractsExist, MainJudged,
     PendingIsRetriable, DefinitivePublic, DeferredPublic, RetryJudged, RetryOnOtherAgent,
     procVars, passVars, retryVars, NoResults, NoAssignment
<1>4. ASSUME NEW resolved \in SUBSET Providers, updateProvidersIPs(resolved) PROVE Rest'
  BY <1>4 DEF CommitInv, updateProvidersIPs, ContractsExist, MainJudged, PendingIsRetriable,
     DefinitivePublic, DeferredPublic, RetryJudged, RetryOnOtherAgent,
     dbVars, procVars, passVars, retryVars, NoResults, NoAssignment
<1>5. CASE AbortBeforeCommit
  BY <1>5, ReturnKeepsCommitInv DEF AbortBeforeCommit, Return
<1>6. CASE RunMain
  <2>1. PICK a \in assignProvidersToAgents(contracts, Batch(contracts), sticky, NoAssignment) :
          \E answered \in Answers(a) :
            \E verdict \in [{c \in contracts : a[ProviderOf[c]] \in answered} -> RowReasons] :
              mainResults' = Results(contracts, a, answered, verdict)
    BY <1>6 DEF RunMain
  <2>2. a \in [Providers -> Agent]
    BY AssignmentsAvoidExcluded
  <2>3. \A c \in contracts : mainResults'[c] \in ReasonCode
    <3>1. contracts \in SUBSET Contracts
      BY DEF CommitInv, TypeOK
    <3>2. PICK answered \in Answers(a) :
            \E verdict \in [{c \in contracts : a[ProviderOf[c]] \in answered} -> RowReasons] :
              mainResults' = Results(contracts, a, answered, verdict)
      BY <2>1
    <3>3. PICK verdict \in [{c \in contracts : a[ProviderOf[c]] \in answered} -> RowReasons] :
            mainResults' = Results(contracts, a, answered, verdict)
      BY <3>2
    <3>4. \A c \in contracts : Results(contracts, a, answered, verdict)[c] \in ReasonCode
      BY <2>2, <3>1, ResultsAreReasons
    <3> QED BY <3>3, <3>4
  <2> QED
    BY <1>6, <2>3 DEF CommitInv, RunMain, ContractsExist, MainJudged, PendingIsRetriable,
       DefinitivePublic, DeferredPublic, RetryJudged, RetryOnOtherAgent,
       dbVars, retryVars, NoResults, NoAssignment
<1>7. CASE RunMainUnresolved
  <2>1. \A c \in contracts : mainResults'[c] \in ReasonCode
    BY <1>7, UnresolvedAreReasons DEF CommitInv, TypeOK, RunMainUnresolved
  <2> QED
    BY <1>7, <2>1 DEF CommitInv, RunMainUnresolved, ContractsExist, MainJudged,
       PendingIsRetriable, DefinitivePublic, DeferredPublic, RetryJudged, RetryOnOtherAgent,
       dbVars, procVars, retryVars, NoResults, NoAssignment
<1>8. CASE CommitMain
  <2>1. /\ pc = "commitMain" /\ pc' = "statusMain"
        /\ UNCHANGED <<rows, contracts, mainResults, mainAssignment, retryResults, retryAssignment>>
    BY <1>8 DEF CommitMain, passVars, retryVars
  <2>2. PendingIsRetriable'
    BY <1>8, <2>1 DEF CommitMain, PendingIsRetriable, toCommit
  <2>3. DefinitivePublic'
    <3>1. \A c \in contracts \ pending' : c \in toCommit \cap rows /\ c \in Contracts
      BY <1>8 DEF CommitMain, CommitInv, ContractsExist, TypeOK
    <3> QED
      BY <1>8, <2>1, <3>1 DEF CommitMain, UpdateContractProofsChecks, DefinitivePublic
  <2> QED
    BY <2>1, <2>2, <2>3 DEF CommitInv, ContractsExist, MainJudged, DeferredPublic,
       RetryJudged, RetryOnOtherAgent, NoResults, NoAssignment
<1>9. CASE CommitMainFails
  BY <1>9, ReturnKeepsCommitInv DEF CommitMainFails, Return
<1>10. CASE StatusMain
  BY <1>10, MovingOnKeepsCommitInv DEF StatusMain, passVars, retryVars
<1>11. CASE StatusMainFails
  BY <1>11, ReturnKeepsCommitInv DEF StatusMainFails, Return
<1>12. CASE ScheduleRetry
  BY <1>12, MovingOnKeepsCommitInv DEF ScheduleRetry, dbVars, passVars, retryVars
<1>13. CASE SkipRetry
  BY <1>13, MovingOnKeepsCommitInv DEF SkipRetry, dbVars, passVars, retryVars, CommitPC
<1>14. CASE NothingDeferred
  BY <1>14, ReturnKeepsCommitInv DEF NothingDeferred, Return
<1>15. CASE WaitElapsed
  BY <1>15, MovingOnKeepsCommitInv DEF WaitElapsed, dbVars, passVars, retryVars, CommitPC
<1>16. CASE WaitCancelled
  BY <1>16, MovingOnKeepsCommitInv DEF WaitCancelled, dbVars, passVars, retryVars, CommitPC
<1>17. ASSUME NEW refreshed \in SUBSET Providers, refreshForRetry(refreshed) PROVE Rest'
  BY <1>17, MovingOnKeepsCommitInv DEF refreshForRetry, dbVars, passVars, retryVars
<1>18. CASE RunRetry
  <2>1. PICK a \in assignProvidersToAgents(pending, Batch(pending), sticky, mainAssignment) :
          \E answered \in Answers(a) :
            \E verdict \in [{c \in pending : a[ProviderOf[c]] \in answered} -> RowReasons] :
              /\ retryResults' = Results(pending, a, answered, verdict)
              /\ retryAssignment' = a
    BY <1>18 DEF RunRetry
  <2>2. /\ a \in [Providers -> Agent]
        /\ Cardinality(Endpoints) > 1 =>
             \A p \in Providers : a[p] # NoAgent => a[p] # mainAssignment[p]
    BY AssignmentsAvoidExcluded
  <2>3. \A c \in Contracts \ pending : retryResults'[c] = NoReason
    <3>1. PICK answered \in Answers(a) :
            \E verdict \in [{c \in pending : a[ProviderOf[c]] \in answered} -> RowReasons] :
              retryResults' = Results(pending, a, answered, verdict)
      BY <2>1
    <3>2. PICK verdict \in [{c \in pending : a[ProviderOf[c]] \in answered} -> RowReasons] :
            retryResults' = Results(pending, a, answered, verdict)
      BY <3>1
    <3>3. pending \in SUBSET Contracts
      BY DEF CommitInv, TypeOK
    <3>4. \A c \in Contracts \ pending : Results(pending, a, answered, verdict)[c] = NoReason
      BY <2>2, <3>3, ResultsAreReasons
    <3> QED BY <3>2, <3>4
  <2>4. /\ pc = "retry" /\ pc' = "commitRetry"
        /\ UNCHANGED <<rows, reason, contracts, mainResults, mainAssignment, pending>>
    BY <1>18 DEF RunRetry, dbVars, passVars, CommitPC
  <2>5. RetryOnOtherAgent'
    BY <2>1, <2>2, <2>4 DEF RetryOnOtherAgent
  <2> QED
    BY <2>3, <2>4, <2>5 DEF CommitInv, ContractsExist, MainJudged, PendingIsRetriable,
       DefinitivePublic, DeferredPublic, RetryJudged
<1>19. CASE RunRetryUnresolved
  <2>1. \A c \in Contracts \ pending : retryResults'[c] = NoReason
    BY <1>19, UnresolvedAreReasons DEF CommitInv, TypeOK, RunRetryUnresolved
  <2>2. /\ pc \in {"retry", "retryExpired"} /\ pc' = "commitRetry"
        /\ UNCHANGED <<rows, reason, contracts, mainResults, mainAssignment, pending, retryAssignment>>
    BY <1>19 DEF RunRetryUnresolved, dbVars, passVars, CommitPC
  <2> QED
    BY <2>1, <2>2 DEF CommitInv, ContractsExist, MainJudged, PendingIsRetriable,
       DefinitivePublic, DeferredPublic, RetryJudged, RetryOnOtherAgent
<1>20. CASE RunRetryFails
  BY <1>20, MovingOnKeepsCommitInv DEF RunRetryFails, dbVars, passVars, retryVars, CommitPC
<1>21. ASSUME NEW path \in FinalPath, CommitFinal(path) PROVE Rest'
  <2>1. /\ pc \in {"commitSkip", "commitCancel", "commitLate", "commitRetry"}
        /\ pc' \in Settled /\ (pc' = "statusRetry" <=> pc = "commitRetry")
        /\ UNCHANGED <<rows, contracts, mainResults, mainAssignment, pending,
                       retryResults, retryAssignment>>
    BY <1>21 DEF CommitFinal, passVars, retryVars, FinalPath, CommitPC, StatusPC
  <2>2. pending \subseteq contracts
    BY <2>1 DEF CommitInv, PendingIsRetriable
  <2>3. /\ \A c \in pending : reason'[c] = finalVerdict[c]
        /\ \A c \in contracts \ pending : reason'[c] = reason[c]
    BY <1>21, <2>2
    DEF CommitFinal, UpdateContractProofsChecks, CommitInv, ContractsExist, TypeOK
  <2>4. DefinitivePublic' /\ DeferredPublic'
    BY <2>1, <2>3 DEF CommitInv, DefinitivePublic, DeferredPublic, finalVerdict
  <2> QED
    BY <2>1, <2>4 DEF CommitInv, ContractsExist, MainJudged, PendingIsRetriable,
       RetryJudged, RetryOnOtherAgent, NoResults, NoAssignment
<1>22. ASSUME NEW path \in FinalPath, CommitFinalFails(path) PROVE Rest'
  BY <1>22, ReturnKeepsCommitInv DEF CommitFinalFails, Return
<1>23. ASSUME NEW path \in FinalPath, StatusFinal(path) PROVE Rest'
  BY <1>23, ReturnKeepsCommitInv DEF StatusFinal, Return
<1>24. ASSUME NEW path \in FinalPath, StatusFinalFails(path) PROVE Rest'
  BY <1>24, ReturnKeepsCommitInv DEF StatusFinalFails, Return
<1>25. CASE Tick
  BY <1>25, ElsewhereKeepsCommitInv DEF Tick, dbVars, localVars
<1>26. ASSUME NEW c \in Contracts, AddStorageContracts(c) PROVE Rest'
  BY <1>26, ElsewhereKeepsCommitInv DEF AddStorageContracts, localVars
<1>27. CASE Cancel
  BY <1>27, ElsewhereKeepsCommitInv DEF Cancel, dbVars, localVars
<1>28. CASE Crash
  BY <1>28, ReturnKeepsCommitInv DEF Crash
<1>29. CASE UNCHANGED vars
  BY <1>29, ElsewhereKeepsCommitInv DEF vars
<1> QED
  BY <1>1, <1>2, <1>3, <1>4, <1>5, <1>6, <1>7, <1>8, <1>9, <1>10, <1>11, <1>12, <1>13,
     <1>14, <1>15, <1>16, <1>17, <1>18, <1>19, <1>20, <1>21, <1>22, <1>23, <1>24,
     <1>25, <1>26, <1>27, <1>28, <1>29
  DEF Next, Worker, Environment

\* Before the first cycle there is nothing to account for.
LEMMA InitCommitInv == Init => CommitInv
<1> SUFFICES ASSUME Init, TypeOK PROVE CommitInv
  BY InitTyped
<1>1. ContractsExist /\ MainJudged /\ PendingIsRetriable /\ DefinitivePublic /\ DeferredPublic
  BY DEF Init, ContractsExist, MainJudged, PendingIsRetriable, DefinitivePublic,
         DeferredPublic, Unchecked, Uncommitted, Settled
<1>2. RetryJudged /\ RetryOnOtherAgent
  BY DEF Init, RetryJudged, RetryOnOtherAgent, NoResults, NoAssignment
<1> QED BY <1>1, <1>2 DEF CommitInv

\* The invariant holds in every reachable state.
LEMMA CommitInvariant == Spec => []CommitInv
<1>1. Init => CommitInv
  BY InitCommitInv
<1>2. CommitInv /\ TypeOK' /\ [Next]_vars => CommitInv'
  BY CommitInvStep
<1> QED
  BY <1>1, <1>2, TypeCorrect, PTL DEF Spec

-----------------------------------------------------------------------------
(* The theorems *)

\* With a second agent configured, no retry goes back to the agent the main pass
\* used for the provider (runStoreProofChecks with excludeByProvider).
THEOREM RetriesMove == Spec => []RetryOnOtherAgent
  BY CommitInvariant, PTL DEF CommitInv

\* The only ways a cycle completes: nothing was deferred, or the statuses were
\* the last thing left to write.
LEMMA CompletingSteps ==
  ASSUME Next, CycleCompletes
  PROVE  NothingDeferred \/ \E path \in FinalPath : StatusFinal(path) \/ StatusFinalFails(path)
<1>1. pc \notin {"sleep", "commitCancel"} /\ pc' = "sleep" /\ ~shortSleep'
  BY DEF CycleCompletes
<1>2. CASE StartCycle \/ StartCycleFails \/ Tick \/ Cancel \/ \E c \in Contracts : AddStorageContracts(c)
  BY <1>1, <1>2 DEF StartCycle, StartCycleFails, Tick, Cancel, AddStorageContracts, localVars
<1>3. CASE \/ \E closed \in SUBSET contracts : updateRejectedContracts(closed)
           \/ \E resolved \in SUBSET Providers : updateProvidersIPs(resolved)
           \/ RunMain \/ RunMainUnresolved \/ CommitMain \/ StatusMain
  BY <1>1, <1>3 DEF updateRejectedContracts, updateProvidersIPs, RunMain, RunMainUnresolved,
     CommitMain, StatusMain
<1>4. CASE \/ ScheduleRetry \/ SkipRetry \/ WaitElapsed \/ WaitCancelled
           \/ \E refreshed \in SUBSET Providers : refreshForRetry(refreshed)
           \/ RunRetry \/ RunRetryUnresolved \/ RunRetryFails
  BY <1>1, <1>4 DEF ScheduleRetry, SkipRetry, WaitElapsed, WaitCancelled, refreshForRetry,
     RunRetry, RunRetryUnresolved, RunRetryFails, CommitPC
<1>5. CASE AbortBeforeCommit \/ CommitMainFails \/ StatusMainFails \/ Crash
  BY <1>1, <1>5 DEF AbortBeforeCommit, CommitMainFails, StatusMainFails, Crash, Return
<1>6. ASSUME NEW path \in FinalPath, CommitFinal(path) PROVE FALSE
  BY <1>1, <1>6 DEF CommitFinal, FinalPath, StatusPC
<1>7. ASSUME NEW path \in FinalPath, CommitFinalFails(path) PROVE FALSE
  <2>1. path # "cancel"
    BY <1>1, <1>7 DEF CommitFinalFails, CommitPC
  <2>2. shortSleep' = TRUE
    BY <1>7, <2>1 DEF CommitFinalFails, Return
  <2> QED BY <1>1, <2>2
<1> QED
  BY <1>2, <1>3, <1>4, <1>5, <1>6, <1>7 DEF Next, Worker, Environment

\* A completed cycle has published, for every bag it looked at, what one of its
\* passes found, and the proof if one of them found one (selectMainProofsCommit,
\* selectFinalProofsCommit and the order of StoreProof's commits).
THEOREM VerdictsArePublished == Spec => VerdictsPublished
<1> USE DEF Unchecked, Uncommitted, Settled
<1>1. ASSUME CommitInv, Next, CycleCompletes, NEW c \in contracts
      PROVE  /\ reason'[c] \in {mainResults[c], retryResults[c]} \ {NoReason}
             /\ "ValidStorageProof" \in {mainResults[c], retryResults[c]}
                  => reason'[c] = "ValidStorageProof"
  <2>1. reason' = reason /\ (pc \in Settled \/ (pc = "decide" /\ pending = {}))
    <3>1. CASE NothingDeferred
      BY <3>1 DEF NothingDeferred, dbVars
    <3>2. ASSUME NEW path \in FinalPath, StatusFinal(path) \/ StatusFinalFails(path)
          PROVE  reason' = reason /\ pc \in Settled
      <4>1. reason' = reason /\ pc = StatusPC[path]
        BY <3>2 DEF StatusFinal, StatusFinalFails, dbVars
      <4> QED BY <4>1 DEF FinalPath, StatusPC
    <3> QED BY <1>1, <3>1, <3>2, CompletingSteps DEF NothingDeferred
  <2>2. c \in Contracts /\ NoReason \notin ReasonCode /\ mainResults[c] \in ReasonCode
    BY <1>1, <2>1 DEF CommitInv, TypeOK, MainJudged, NoReason, ReasonCode
  <2>3. CASE c \in pending
    <3>1. reason[c] = finalVerdict[c]
      BY <2>1, <2>3, <1>1 DEF CommitInv, DeferredPublic
    <3>2. mainResults[c] # "ValidStorageProof"
      BY <2>1, <2>3, <1>1 DEF CommitInv, PendingIsRetriable, isRetriableReason
    <3> QED
      BY <2>1, <2>2, <3>1, <3>2 DEF finalVerdict, NoReason
  <2>4. CASE c \notin pending
    <3>1. reason[c] = mainResults[c] /\ retryResults[c] = NoReason
      BY <2>1, <2>2, <2>4, <1>1 DEF CommitInv, DefinitivePublic, RetryJudged
    <3> QED
      BY <2>1, <2>2, <3>1 DEF NoReason
  <2> QED BY <2>3, <2>4
<1>2. CommitInv /\ [Next]_vars =>
        [CycleCompletes =>
           \A c \in contracts :
             /\ reason'[c] \in {mainResults[c], retryResults[c]} \ {NoReason}
             /\ "ValidStorageProof" \in {mainResults[c], retryResults[c]}
                  => reason'[c] = "ValidStorageProof"]_vars
  BY <1>1
<1> QED
  BY <1>2, CommitInvariant, PTL DEF Spec, VerdictsPublished

-----------------------------------------------------------------------------
(* StoreProof implements ProofCommit *)

Checking == {"reject", "resolve", "main", "commitMain"}

\* The return of a cycle closes the round of the policy.
LEMMA ReturnCloses ==
  ASSUME DropLocals, UNCHANGED reason
  PROVE  Policy!Close
  <1>1. PolicyPhase' = "idle"
    BY DEF DropLocals, PolicyPhase
  <1>2. PolicyDeferred' = {}
    BY <1>1 DEF DropLocals, PolicyDeferred
  <1> QED BY <1>1, <1>2 DEF Policy!Close

\* Steps inside one phase that write no reason are invisible to the policy.
LEMMA SamePhaseStutters ==
  ASSUME UNCHANGED <<reason, pending>>,
         \/ pc' = pc
         \/ pc \in Checking /\ pc' \in Checking
         \/ /\ pc \notin Checking \union Settled \union {"sleep"}
            /\ pc' \notin Checking \union Settled \union {"sleep"}
  PROVE  UNCHANGED Policy!vars
  <1>1. PolicyPhase' = PolicyPhase
    <2>1. CASE pc' = pc
      BY <2>1 DEF PolicyPhase
    <2>2. CASE pc \in Checking /\ pc' \in Checking
      BY <2>2 DEF PolicyPhase, Checking
    <2>3. CASE /\ pc \notin Checking \union Settled \union {"sleep"}
               /\ pc' \notin Checking \union Settled \union {"sleep"}
      BY <2>3 DEF PolicyPhase, Checking, Settled
    <2> QED BY <2>1, <2>2, <2>3
  <1>2. PolicyDeferred' = PolicyDeferred
    BY <1>1 DEF PolicyDeferred
  <1> QED BY <1>1, <1>2 DEF Policy!vars

\* The commit after the main pass publishes definitive outcomes only, and none
\* for a bag it defers.
LEMMA CommitMainPublishes ==
  ASSUME CommitInv, CommitInv', CommitMain
  PROVE  Policy!PublishDefinitive
<1>1. PolicyPhase = "checking" /\ PolicyPhase' = "deciding"
  BY DEF CommitMain, PolicyPhase
<1>2. PolicyDeferred' = pending'
  BY <1>1 DEF PolicyDeferred
<1>3. pending' \subseteq Contracts /\ reason' \in [Contracts -> Reason]
  BY DEF CommitInv, TypeOK
<1>4. ASSUME NEW c \in Contracts, reason'[c] # reason[c]
      PROVE  c \notin pending' /\ reason'[c] \in ReasonCode /\ ~isRetriableReason(reason'[c])
  <2>1. c \in toCommit /\ reason'[c] = mainResults[c]
    BY <1>4 DEF CommitMain, UpdateContractProofsChecks
  <2>2. c \in contracts /\ ~isRetriableReason(mainResults[c])
    BY <2>1 DEF toCommit
  <2>3. mainResults[c] \in ReasonCode
    BY <2>2 DEF CommitInv, MainJudged, CommitMain, Unchecked
  <2> QED BY <2>1, <2>2, <2>3 DEF CommitMain
<1> QED
  BY <1>1, <1>2, <1>3, <1>4
  DEF Policy!PublishDefinitive, Policy!Definitive, Policy!ReasonCode, Policy!isRetriableReason,
      Policy!Reason, Policy!NoReason, Reason, NoReason, ReasonCode, isRetriableReason

\* The final commit publishes an outcome for every deferred bag, and nothing else.
LEMMA CommitFinalPublishes ==
  ASSUME CommitInv, CommitInv', NEW path \in FinalPath, CommitFinal(path)
  PROVE  Policy!PublishDeferred
<1>1. pc = CommitPC[path] /\ pc' = StatusPC[path]
  BY DEF CommitFinal
<1>2. pc \in {"commitSkip", "commitCancel", "commitLate", "commitRetry"} /\ pc' \in Settled
  BY <1>1 DEF FinalPath, CommitPC, StatusPC, Settled
<1>3. PolicyPhase = "deciding" /\ PolicyPhase' = "settled"
  BY <1>2 DEF PolicyPhase, Settled
<1>4. PolicyDeferred = pending /\ PolicyDeferred' = {}
  BY <1>3 DEF PolicyDeferred
<1>5. reason' \in [Contracts -> Reason]
  BY DEF CommitInv, TypeOK
<1>6. ASSUME NEW c \in Contracts, c \in pending PROVE reason'[c] \in ReasonCode
  <2>1. c \in contracts /\ c \in rows
    BY <1>2, <1>6 DEF CommitInv, PendingIsRetriable, ContractsExist, Uncommitted, Unchecked
  <2>2. reason'[c] = finalVerdict[c]
    BY <1>6, <2>1 DEF CommitFinal, UpdateContractProofsChecks
  <2>3. mainResults[c] \in ReasonCode
    BY <1>2, <2>1 DEF CommitInv, MainJudged, Unchecked
  <2>4. retryResults[c] \in ReasonCode \union {NoReason}
    BY DEF CommitInv, TypeOK, Reason
  <2> QED BY <2>2, <2>3, <2>4 DEF finalVerdict
<1>7. ASSUME NEW c \in Contracts, c \notin pending PROVE reason'[c] = reason[c]
  BY <1>7 DEF CommitFinal, UpdateContractProofsChecks
<1> QED
  BY <1>3, <1>4, <1>5, <1>6, <1>7
  DEF Policy!PublishDeferred, Policy!ReasonCode, Policy!Reason, Policy!NoReason,
      Reason, NoReason, ReasonCode

\* Every step of StoreProof is a step of the policy, or invisible to it.
LEMMA PolicyStep ==
  ASSUME CommitInv, CommitInv', [Next]_vars
  PROVE  [Policy!Next]_(Policy!vars)
<1> USE DEF Policy!Next, Checking, Settled
<1>1. CASE StartCycle
  <2>1. PolicyPhase = "idle" /\ PolicyPhase' = "checking" /\ UNCHANGED <<reason, pending>>
    BY <1>1 DEF StartCycle, PolicyPhase, dbVars
  <2> QED BY <2>1 DEF Policy!Begin, PolicyDeferred
<1>2. CASE StartCycleFails \/ Tick \/ Cancel \/ UNCHANGED vars \/ \E c \in Contracts : AddStorageContracts(c)
  BY <1>2, SamePhaseStutters
  DEF StartCycleFails, Tick, Cancel, AddStorageContracts, dbVars, localVars, vars
<1>3. ASSUME NEW closed \in SUBSET contracts, updateRejectedContracts(closed)
      PROVE  Policy!Forget
  <2>1. PolicyPhase = "checking" /\ PolicyPhase' = "checking" /\ pending' = pending
    BY <1>3 DEF updateRejectedContracts, PolicyPhase
  <2>2. reason' \in [Contracts -> Reason] /\ \A c \in Contracts : reason'[c] \in {reason[c], NoReason}
    BY <1>3 DEF updateRejectedContracts, UpdateRejectedStorageContracts, CommitInv, TypeOK
  <2> QED
    BY <2>1, <2>2
    DEF Policy!Forget, PolicyDeferred, Policy!Reason, Policy!ReasonCode, Policy!NoReason,
        Reason, ReasonCode, NoReason
<1>4. ASSUME NEW resolved \in SUBSET Providers, updateProvidersIPs(resolved)
      PROVE  UNCHANGED Policy!vars
  BY <1>4, SamePhaseStutters DEF updateProvidersIPs, dbVars
<1>5. CASE AbortBeforeCommit \/ CommitMainFails \/ StatusMainFails \/ NothingDeferred \/ Crash
  BY <1>5, ReturnCloses
  DEF AbortBeforeCommit, CommitMainFails, StatusMainFails, NothingDeferred, Crash, Return, dbVars
<1>6. CASE RunMain \/ RunMainUnresolved
  BY <1>6, SamePhaseStutters DEF RunMain, RunMainUnresolved, dbVars
<1>7. CASE CommitMain
  BY <1>7, CommitMainPublishes
<1>8. CASE StatusMain \/ ScheduleRetry \/ SkipRetry \/ WaitElapsed \/ WaitCancelled
  BY <1>8, SamePhaseStutters
  DEF StatusMain, ScheduleRetry, SkipRetry, WaitElapsed, WaitCancelled, dbVars, CommitPC
<1>9. ASSUME NEW refreshed \in SUBSET Providers, refreshForRetry(refreshed)
      PROVE  UNCHANGED Policy!vars
  BY <1>9, SamePhaseStutters DEF refreshForRetry, dbVars
<1>10. CASE RunRetry \/ RunRetryUnresolved \/ RunRetryFails
  BY <1>10, SamePhaseStutters
  DEF RunRetry, RunRetryUnresolved, RunRetryFails, dbVars, CommitPC
<1>11. ASSUME NEW path \in FinalPath, CommitFinal(path) PROVE Policy!PublishDeferred
  BY <1>11, CommitFinalPublishes
<1>12. ASSUME NEW path \in FinalPath,
              CommitFinalFails(path) \/ StatusFinal(path) \/ StatusFinalFails(path)
       PROVE  Policy!Close
  BY <1>12, ReturnCloses DEF CommitFinalFails, StatusFinal, StatusFinalFails, Return, dbVars
<1> QED
  BY <1>1, <1>2, <1>3, <1>4, <1>5, <1>6, <1>7, <1>8, <1>9, <1>10, <1>11, <1>12
  DEF Next, Worker, Environment

\* StoreProof implements the write policy: whatever fails, is cancelled or
\* crashes, a transient failure is published only for a bag the main pass
\* deferred, and all deferred bags are published in one commit.
THEOREM PolicyImplemented == Spec => ImplementsPolicy
<1>1. Init => Policy!Init
  <2> SUFFICES ASSUME Init PROVE Policy!Init
    OBVIOUS
  <2>1. PolicyPhase = "idle"
    BY DEF Init, PolicyPhase
  <2>2. PolicyDeferred = {}
    BY <2>1 DEF Init, PolicyDeferred
  <2> QED BY <2>1, <2>2 DEF Init, Policy!Init, NoResults, NoReason, Policy!NoReason
<1>2. CommitInv /\ CommitInv' /\ [Next]_vars => [Policy!Next]_(Policy!vars)
  BY PolicyStep
<1> QED
  BY <1>1, <1>2, CommitInvariant, PTL DEF Spec, ImplementsPolicy, Policy!Spec

-----------------------------------------------------------------------------
(* The statuses a completed cycle leaves *)

\* The status of each provider is a most frequent reason among its judged bags.
StatusCurrent ==
  \A p \in Providers :
    Recent(p, Contracts) # {} => status[p] \in Modes(Recent(p, Contracts))

\* Judged bags are rows, and during a cycle rows the cycle works on.
JudgedAreRows ==
  /\ \A c \in Contracts \ rows : reason[c] = NoReason
  /\ pc # "sleep" => \A c \in Contracts \ contracts : reason[c] = NoReason

\* What has to hold on the way to the end of a cycle: the statuses are current
\* when nothing was deferred, and only a cancelled worker takes the cancel path.
StatusInv ==
  /\ JudgedAreRows
  /\ pc \in {"commitCancel", "statusCancel"} => cancelled
  /\ pc = "decide" /\ pending = {} => StatusCurrent
  /\ StatusMatchesReasons

\* New rows have no reason yet, so they count for no status.
LEMMA RecentKept ==
  ASSUME JudgedAreRows, reason' = reason, rows \subseteq rows', NEW p
  PROVE  Recent(p, Contracts)' = Recent(p, Contracts)
  BY DEF JudgedAreRows, Recent

\* Statuses stay current while no reason, no status and no judged row changes.
LEMMA StatusCurrentKept ==
  ASSUME JudgedAreRows, StatusCurrent, UNCHANGED <<reason, status>>, rows \subseteq rows'
  PROVE  StatusCurrent'
<1> SUFFICES ASSUME NEW p \in Providers, Recent(p, Contracts)' # {}
             PROVE  status'[p] \in Modes(Recent(p, Contracts))'
  BY DEF StatusCurrent
<1>1. Recent(p, Contracts)' = Recent(p, Contracts)
  BY RecentKept
<1>2. status[p] \in Modes(Recent(p, Contracts))
  BY <1>1 DEF StatusCurrent
<1>3. Modes(Recent(p, Contracts))' = Modes(Recent(p, Contracts))
  BY <1>1 DEF Modes
<1> QED BY <1>2, <1>3

\* An UpdateStatuses whose window has every row of the cycle leaves every status
\* current: whichever older rows the window has, none of them is judged.
LEMMA UpdateMakesCurrent ==
  ASSUME JudgedAreRows, pc # "sleep", contracts \subseteq Contracts,
         UpdateStatuses(contracts), UNCHANGED <<rows, reason>>
  PROVE  StatusCurrent'
<1>1. PICK window \in SUBSET Contracts :
        /\ contracts \subseteq window
        /\ \A p \in Providers :
             IF Recent(p, window) = {} THEN status'[p] = status[p]
             ELSE status'[p] \in Modes(Recent(p, window))
  BY DEF UpdateStatuses
<1>2. \A p : Recent(p, window) = Recent(p, Contracts)
  BY <1>1 DEF JudgedAreRows, Recent
<1>3. \A p : Recent(p, Contracts)' = Recent(p, Contracts)
  BY DEF Recent
<1> SUFFICES ASSUME NEW p \in Providers, Recent(p, Contracts)' # {}
             PROVE  status'[p] \in Modes(Recent(p, Contracts))'
  BY DEF StatusCurrent
<1>4. status'[p] \in Modes(Recent(p, Contracts))
  BY <1>1, <1>2, <1>3
<1>5. Modes(Recent(p, Contracts))' = Modes(Recent(p, Contracts))
  BY <1>3 DEF Modes
<1> QED BY <1>4, <1>5

\* Only a cycle's own commits give rows a reason, and only rows it works on.
LEMMA JudgedAreRowsStep ==
  ASSUME CommitInv, JudgedAreRows, [Next]_vars
  PROVE  JudgedAreRows'
<1>1. CASE StartCycle
  BY <1>1 DEF StartCycle, GetStorageContracts, JudgedAreRows, dbVars
<1>2. ASSUME NEW closed \in SUBSET contracts, updateRejectedContracts(closed)
      PROVE  JudgedAreRows'
  BY <1>2 DEF updateRejectedContracts, UpdateRejectedStorageContracts, JudgedAreRows
<1>3. CASE CommitMain
  BY <1>3 DEF CommitMain, UpdateContractProofsChecks, toCommit, JudgedAreRows
<1>4. ASSUME NEW path \in FinalPath, CommitFinal(path) PROVE JudgedAreRows'
  <2>1. pc # "sleep" /\ pending \subseteq contracts
    BY <1>4 DEF CommitFinal, FinalPath, CommitPC, CommitInv, PendingIsRetriable
  <2> QED
    BY <1>4, <2>1 DEF CommitFinal, UpdateContractProofsChecks, JudgedAreRows
<1>5. ASSUME NEW c \in Contracts, AddStorageContracts(c) PROVE JudgedAreRows'
  BY <1>5 DEF AddStorageContracts, JudgedAreRows, localVars
<1>6. CASE \/ AbortBeforeCommit \/ CommitMainFails \/ StatusMainFails \/ NothingDeferred \/ Crash
           \/ \E path \in FinalPath :
                CommitFinalFails(path) \/ StatusFinal(path) \/ StatusFinalFails(path)
  BY <1>6 DEF AbortBeforeCommit, CommitMainFails, StatusMainFails, NothingDeferred, Crash,
     CommitFinalFails, StatusFinal, StatusFinalFails, Return, DropLocals, JudgedAreRows, dbVars
<1>7. CASE StartCycleFails \/ Tick \/ Cancel \/ UNCHANGED vars
  BY <1>7 DEF StartCycleFails, Tick, Cancel, vars, localVars, dbVars, JudgedAreRows
<1>8. CASE \/ \E resolved \in SUBSET Providers : updateProvidersIPs(resolved)
           \/ RunMain \/ RunMainUnresolved \/ StatusMain \/ ScheduleRetry \/ SkipRetry
           \/ WaitElapsed \/ WaitCancelled
           \/ \E refreshed \in SUBSET Providers : refreshForRetry(refreshed)
           \/ RunRetry \/ RunRetryUnresolved \/ RunRetryFails
  BY <1>8 DEF updateProvidersIPs, RunMain, RunMainUnresolved, StatusMain, ScheduleRetry,
     SkipRetry, WaitElapsed, WaitCancelled, refreshForRetry, RunRetry, RunRetryUnresolved,
     RunRetryFails, dbVars, JudgedAreRows
<1> QED
  BY <1>1, <1>2, <1>3, <1>4, <1>5, <1>6, <1>7, <1>8 DEF Next, Worker, Environment

\* A cycle that stops short asks for another one soon: nothing is promised then.
LEMMA ShortSleepPromisesNothing ==
  ASSUME DropLocals, shortSleep'
  PROVE  /\ pc' \notin {"commitCancel", "statusCancel"} /\ pc' # "decide"
         /\ StatusMatchesReasons'
  BY DEF DropLocals, StatusMatchesReasons

\* No step breaks the way to current statuses.
LEMMA StatusStep ==
  ASSUME CommitInv, StatusInv, [Next]_vars
  PROVE  StatusInv'
<1>1. JudgedAreRows'
  BY JudgedAreRowsStep DEF StatusInv
<1>2. StatusMatchesReasons <=> (pc = "sleep" /\ ~shortSleep /\ ~cancelled => StatusCurrent)
  BY DEF StatusMatchesReasons, StatusCurrent
<1>3. StatusMatchesReasons' <=> (pc' = "sleep" /\ ~shortSleep' /\ ~cancelled' => StatusCurrent')
  BY DEF StatusMatchesReasons, StatusCurrent
<1>4. contracts \subseteq Contracts
  BY DEF CommitInv, TypeOK
<1> SUFFICES /\ pc' \in {"commitCancel", "statusCancel"} => cancelled'
             /\ pc' = "decide" /\ pending' = {} => StatusCurrent'
             /\ pc' = "sleep" /\ ~shortSleep' /\ ~cancelled' => StatusCurrent'
  BY <1>1, <1>3 DEF StatusInv
<1>5. CASE StartCycle
  BY <1>5 DEF StartCycle
<1>6. CASE \/ \E closed \in SUBSET contracts : updateRejectedContracts(closed)
           \/ \E resolved \in SUBSET Providers : updateProvidersIPs(resolved)
           \/ RunMain \/ RunMainUnresolved \/ CommitMain \/ ScheduleRetry \/ SkipRetry
           \/ WaitElapsed
           \/ \E refreshed \in SUBSET Providers : refreshForRetry(refreshed)
           \/ RunRetry \/ RunRetryUnresolved \/ RunRetryFails
  BY <1>6 DEF updateRejectedContracts, updateProvidersIPs, RunMain, RunMainUnresolved,
     CommitMain, ScheduleRetry, SkipRetry, WaitElapsed, refreshForRetry, RunRetry,
     RunRetryUnresolved, RunRetryFails, CommitPC
<1>7. CASE WaitCancelled
  BY <1>7 DEF WaitCancelled, CommitPC, procVars
<1>8. CASE StatusMain
  BY <1>4, <1>8, UpdateMakesCurrent DEF StatusMain, StatusInv
<1>9. CASE AbortBeforeCommit \/ CommitMainFails \/ StatusMainFails \/ Crash
  BY <1>9, ShortSleepPromisesNothing
  DEF AbortBeforeCommit, CommitMainFails, StatusMainFails, Crash, Return, DropLocals
<1>10. CASE NothingDeferred
  BY <1>10, StatusCurrentKept DEF NothingDeferred, Return, DropLocals, dbVars, StatusInv
<1>11. ASSUME NEW path \in FinalPath, CommitFinal(path)
       PROVE  pc' \notin {"commitCancel", "decide", "sleep"} /\ (pc' = "statusCancel" => cancelled')
  BY <1>11 DEF CommitFinal, FinalPath, CommitPC, StatusPC, StatusInv, procVars
<1>12. ASSUME NEW path \in FinalPath, CommitFinalFails(path) \/ StatusFinalFails(path)
       PROVE  pc' = "sleep" /\ (shortSleep' \/ cancelled')
  <2>1. pc' = "sleep" /\ shortSleep' = (path # "cancel") /\ cancelled' = cancelled
    BY <1>12 DEF CommitFinalFails, StatusFinalFails, Return, DropLocals
  <2>2. path = "cancel" => cancelled
    BY <1>12 DEF CommitFinalFails, StatusFinalFails, CommitPC, StatusPC, StatusInv
  <2> QED BY <2>1, <2>2
<1>13. ASSUME NEW path \in FinalPath, StatusFinal(path)
       PROVE  pc' = "sleep" /\ StatusCurrent'
  <2>1. pc # "sleep"
    BY <1>13 DEF StatusFinal, FinalPath, StatusPC
  <2> QED
    BY <1>4, <1>13, <2>1, UpdateMakesCurrent DEF StatusFinal, Return, DropLocals, StatusInv
<1>14. CASE StartCycleFails
  BY <1>14 DEF StartCycleFails, localVars
<1>15. CASE Tick \/ Cancel \/ UNCHANGED vars \/ \E c \in Contracts : AddStorageContracts(c)
  <2>1. /\ UNCHANGED <<reason, status, pc, pending, shortSleep>> /\ rows \subseteq rows'
        /\ cancelled => cancelled'
    BY <1>15 DEF Tick, Cancel, AddStorageContracts, vars, dbVars, procVars, localVars
  <2>2. StatusCurrent => StatusCurrent'
    BY <2>1, StatusCurrentKept DEF StatusInv
  <2> QED BY <1>2, <2>1, <2>2 DEF StatusInv
<1> QED
  BY <1>5, <1>6, <1>7, <1>8, <1>9, <1>10, <1>11, <1>12, <1>13, <1>14, <1>15
  DEF Next, Worker, Environment

\* After a completed cycle the status of every provider is a most frequent reason
\* among all its judged bags, although UpdateStatuses only counts recent ones,
\* rows are added beside the cycle and every write may fail.
THEOREM StatusesMatch == Spec => []StatusMatchesReasons
<1>1. Init => StatusInv
  BY DEF Init, StatusInv, JudgedAreRows, StatusMatchesReasons, NoResults
<1>2. CommitInv /\ StatusInv /\ [Next]_vars => StatusInv'
  BY StatusStep
<1>3. StatusInv => StatusMatchesReasons
  BY DEF StatusInv
<1> QED
  BY <1>1, <1>2, <1>3, CommitInvariant, PTL DEF Spec

-----------------------------------------------------------------------------
(* A cycle ends: its wait is bounded, and its calls lead one way.           *)

\* The retry keeps clear of the next cycle.
RetryKeepsDeadline ==
  /\ pc = "wait" => wakeAt \in 1..Deadline
  /\ pc = "retry" => elapsed <= Deadline

\* Only ScheduleRetry starts to wait and only refreshForRetry starts the retry; both
\* compare the time with the deadline first.
LEMMA DeadlineStep ==
  ASSUME TypeOK, RetryKeepsDeadline, [Next]_vars
  PROVE  RetryKeepsDeadline'
<1>1. Deadline \in Int /\ RetryDelay \in Nat /\ elapsed \in Nat
  BY StoreProofAssumption DEF Deadline, TypeOK
<1>2. CASE pc' \notin {"wait", "retry"}
  BY <1>2 DEF RetryKeepsDeadline
<1>3. CASE ScheduleRetry
  <2>1. RetryDelay > 0 /\ elapsed < Deadline
    BY <1>3 DEF ScheduleRetry, shouldRetry
  <2>2. wakeAt' \in 1..Deadline
    BY <1>1, <1>3, <2>1 DEF ScheduleRetry
  <2> QED BY <1>3, <2>2 DEF ScheduleRetry, RetryKeepsDeadline, Deadline
<1>4. ASSUME NEW refreshed \in SUBSET Providers, refreshForRetry(refreshed)
      PROVE  RetryKeepsDeadline'
  BY <1>1, <1>4 DEF refreshForRetry, RetryKeepsDeadline, Deadline
<1>5. CASE Tick
  BY <1>1, <1>5 DEF Tick, localVars, RetryKeepsDeadline, Deadline
<1>6. CASE UNCHANGED <<pc, wakeAt, elapsed>>
  BY <1>6 DEF RetryKeepsDeadline, Deadline
<1>7. CASE Cancel \/ UNCHANGED vars \/ \E c \in Contracts : AddStorageContracts(c)
  BY <1>6, <1>7 DEF Cancel, AddStorageContracts, vars, localVars
<1>8. CASE \/ StartCycle \/ StartCycleFails
           \/ \E closed \in SUBSET contracts : updateRejectedContracts(closed)
           \/ \E resolved \in SUBSET Providers : updateProvidersIPs(resolved)
           \/ RunMain \/ RunMainUnresolved \/ CommitMain \/ StatusMain
  BY <1>2, <1>8 DEF StartCycle, StartCycleFails, localVars, updateRejectedContracts,
     updateProvidersIPs, RunMain, RunMainUnresolved, CommitMain, StatusMain
<1>9. CASE SkipRetry \/ WaitElapsed \/ WaitCancelled \/ RunRetry \/ RunRetryUnresolved \/ RunRetryFails
  BY <1>2, <1>9 DEF SkipRetry, WaitElapsed, WaitCancelled, RunRetry, RunRetryUnresolved,
     RunRetryFails, CommitPC
<1>10. CASE AbortBeforeCommit \/ CommitMainFails \/ StatusMainFails \/ NothingDeferred \/ Crash
  BY <1>2, <1>10 DEF AbortBeforeCommit, CommitMainFails, StatusMainFails, NothingDeferred, Crash,
     Return, DropLocals
<1>11. ASSUME NEW path \in FinalPath, CommitFinal(path) PROVE RetryKeepsDeadline'
  <2>1. pc' \notin {"wait", "retry"}
    BY <1>11 DEF CommitFinal, FinalPath, StatusPC
  <2> QED BY <1>2, <2>1
<1>12. ASSUME NEW path \in FinalPath,
              CommitFinalFails(path) \/ StatusFinal(path) \/ StatusFinalFails(path)
       PROVE  RetryKeepsDeadline'
  <2>1. pc' = "sleep"
    BY <1>12 DEF CommitFinalFails, StatusFinal, StatusFinalFails, Return, DropLocals
  <2> QED BY <1>2, <2>1
<1> QED
  BY <1>3, <1>4, <1>5, <1>7, <1>8, <1>9, <1>10, <1>11, <1>12 DEF Next, Worker, Environment

\* The retry is waited for until the retry deadline at the latest, which is inside
\* the cycle, and it never runs beyond it, for any interval, buffer and delay: a
\* delay longer than the interval and a buffer longer than the interval included
\* (sleepUntil, retryDeadline, waitUntil, retryCtx).
THEOREM RetryIsInTime == Spec => []RetryKeepsDeadline
<1>1. Init => RetryKeepsDeadline
  BY DEF Init, RetryKeepsDeadline
<1>2. TypeOK /\ RetryKeepsDeadline /\ [Next]_vars => RetryKeepsDeadline'
  BY DeadlineStep
<1> QED BY <1>1, <1>2, TypeCorrect, PTL DEF Spec

\* How many calls a cycle has left at most, by where it is.
CallsLeft(at) ==
  CASE at = "reject" -> 11 [] at = "resolve" -> 10 [] at = "main" -> 9 [] at = "commitMain" -> 8
    [] at = "statusMain" -> 7 [] at = "decide" -> 6 [] at = "wait" -> 5 [] at = "refresh" -> 4
    [] at \in {"retry", "retryExpired"} -> 3
    [] at \in {"commitSkip", "commitCancel", "commitLate", "commitRetry"} -> 2
    [] at \in {"statusSkip", "statusCancel", "statusLate", "statusRetry"} -> 1
    [] at = "sleep" -> 0

\* Every step of the worker leaves its cycle fewer calls, and nothing beside it
\* adds one.
CycleRunsDown ==
  pc # "sleep" => /\ CallsLeft(pc') \in Nat /\ CallsLeft(pc) \in Nat
                  /\ Worker => CallsLeft(pc') < CallsLeft(pc)
                  /\ CallsLeft(pc') <= CallsLeft(pc)

\* No cycle goes on for ever, whatever fails, is added, cancelled or restarted
\* meanwhile: it has eleven calls at most.  With RetryIsInTime, which bounds its only
\* wait, this is CycleEnds for every value of the constants, short of the rule that
\* fairness gives (StoreProof).
THEOREM CycleIsFinite == Spec => [][CycleRunsDown]_vars
<1>1. TypeOK /\ TypeOK' /\ [Next]_vars => [CycleRunsDown]_vars
  <2> SUFFICES ASSUME TypeOK, TypeOK', Next, pc # "sleep"
               PROVE  /\ CallsLeft(pc') \in Nat /\ CallsLeft(pc) \in Nat
                      /\ Worker => CallsLeft(pc') < CallsLeft(pc)
                      /\ CallsLeft(pc') <= CallsLeft(pc)
    BY DEF CycleRunsDown
  <2>1. \A at \in PCs : CallsLeft(at) \in Nat
    BY DEF PCs, CallsLeft
  <2>2. CallsLeft(pc') \in Nat /\ CallsLeft(pc) \in Nat
    BY <2>1 DEF TypeOK
  <2>3. ASSUME Worker PROVE CallsLeft(pc') < CallsLeft(pc)
    <3>1. CASE \/ StartCycle \/ StartCycleFails
               \/ \E closed \in SUBSET contracts : updateRejectedContracts(closed)
               \/ \E resolved \in SUBSET Providers : updateProvidersIPs(resolved)
               \/ RunMain \/ RunMainUnresolved \/ CommitMain \/ StatusMain
      BY <3>1 DEF StartCycle, StartCycleFails, updateRejectedContracts, updateProvidersIPs,
         RunMain, RunMainUnresolved, CommitMain, StatusMain, CallsLeft
    <3>2. CASE ScheduleRetry \/ SkipRetry \/ WaitElapsed \/ WaitCancelled
      BY <3>2 DEF ScheduleRetry, SkipRetry, WaitElapsed, WaitCancelled, CommitPC, CallsLeft
    <3>3. CASE \/ \E refreshed \in SUBSET Providers : refreshForRetry(refreshed)
               \/ RunRetry \/ RunRetryUnresolved \/ RunRetryFails
      BY <3>3 DEF refreshForRetry, RunRetry, RunRetryUnresolved, RunRetryFails, CommitPC, CallsLeft
    <3>4. ASSUME NEW path \in FinalPath, CommitFinal(path) PROVE CallsLeft(pc') < CallsLeft(pc)
      BY <3>4 DEF CommitFinal, FinalPath, CommitPC, StatusPC, CallsLeft
    <3>5. CASE pc' = "sleep"
      BY <3>5 DEF CallsLeft, TypeOK, PCs
    <3>6. CASE AbortBeforeCommit \/ CommitMainFails \/ StatusMainFails \/ NothingDeferred
      BY <3>5, <3>6 DEF AbortBeforeCommit, CommitMainFails, StatusMainFails, NothingDeferred,
         Return, DropLocals
    <3>7. ASSUME NEW path \in FinalPath,
                 CommitFinalFails(path) \/ StatusFinal(path) \/ StatusFinalFails(path)
          PROVE  CallsLeft(pc') < CallsLeft(pc)
      <4>1. pc' = "sleep"
        BY <3>7 DEF CommitFinalFails, StatusFinal, StatusFinalFails, Return, DropLocals
      <4> QED BY <3>5, <4>1
    <3> QED BY <2>3, <3>1, <3>2, <3>3, <3>4, <3>6, <3>7 DEF Worker
  <2>4. ASSUME Environment PROVE CallsLeft(pc') <= CallsLeft(pc)
    <3>1. CASE pc' = pc
      BY <2>2, <3>1
    <3>2. CASE Tick \/ Cancel \/ \E c \in Contracts : AddStorageContracts(c)
      BY <3>1, <3>2 DEF Tick, Cancel, AddStorageContracts, localVars
    <3>3. CASE Crash
      <4>1. pc' = "sleep"
        BY <3>3 DEF Crash, DropLocals
      <4>2. CallsLeft(pc') = 0
        BY <4>1 DEF CallsLeft
      <4> QED BY <2>2, <4>2
    <3> QED BY <2>4, <3>2, <3>3 DEF Environment
  <2> QED BY <2>2, <2>3, <2>4 DEF Next
<1> QED BY <1>1, TypeCorrect, PTL DEF Spec

-----------------------------------------------------------------------------
(* Pipeline events *)

EventKind == {"none", "ok", "error"}

\* The newest event row of the bag is an error, or it was lost.
ErrorOnRecord(c) == lastEvent[c] = "error" \/ c \in lost

\* A public failure is on record.
Covered(c) == IsErrorReason(reason[c]) => ErrorOnRecord(c)

\* The recorder between a pass and its flush: every failure of the pass is in the
\* buffer.  Elsewhere it is empty.
Recorded ==
  /\ pc \notin {"commitMain", "statusMain", "commitRetry", "statusRetry"} => bagEvents = NoEvents
  /\ pc \in {"commitMain", "statusMain"} =>
       \A c \in contracts : IsErrorReason(mainResults[c]) => bagEvents[c] = "error"
  /\ pc \in {"commitRetry", "statusRetry"} =>
       \A c \in Contracts :
         IF retryResults[c] = NoReason THEN bagEvents[c] = "none"
         ELSE IsErrorReason(retryResults[c]) => bagEvents[c] = "error"

\* Between the first flush and the last commit.
Deferring == {"decide", "wait", "refresh", "retry", "retryExpired",
              "commitSkip", "commitCancel", "commitLate", "commitRetry"}

\* After the first flush public failures are on record, and so are the deferred
\* ones that are not public yet; after the last commit the event of a failure is
\* a row or waits in the buffer for the last flush.
OnRecord ==
  /\ pc \in Deferring =>
       (\A c \in Contracts : Covered(c)) /\ (\A c \in pending : ErrorOnRecord(c))
  /\ pc \in Settled =>
       \A c \in Contracts :
         IsErrorReason(reason[c]) =>
           bagEvents[c] = "error" \/ (bagEvents[c] = "none" /\ ErrorOnRecord(c))
  /\ pc = "sleep" /\ ~shortSleep => \A c \in Contracts : Covered(c)

EventInv ==
  /\ bagEvents \in [Contracts -> EventKind] /\ lastEvent \in [Contracts -> EventKind]
  /\ Recorded /\ OnRecord

\* Composing the recorder adds no step to StoreProof.
LEMMA EventsStepIsStep ==
  ASSUME [EventsNext]_allVars
  PROVE  [Next]_vars
<1>1. CASE EventsStart \/ EventsRunMain \/ EventsRunRetry \/ EventsFlushMain
  BY <1>1 DEF EventsStart, EventsRunMain, EventsRunRetry, EventsFlushMain, Next, Worker
<1>2. CASE EventsFlushRetry \/ EventsReturn
  BY <1>2 DEF EventsFlushRetry, EventsReturn, Next, Worker, FinalPath
<1>3. CASE EventsOther
  BY <1>3 DEF EventsOther, Next, Worker
<1>4. CASE EventsTick \/ EventsAround \/ EventsCrash
  BY <1>4 DEF EventsTick, EventsAround, EventsCrash, Next, Environment
<1>5. CASE UNCHANGED allVars
  BY <1>5 DEF allVars
<1> QED
  BY <1>1, <1>2, <1>3, <1>4, <1>5 DEF EventsNext, EventsWorker

\* The recorder only watches: whatever it buffers, flushes or loses, the composition
\* behaves as StoreProof does, so all that is proved of StoreProof holds with it
\* (a failed Flush only warns).
THEOREM RecorderIsPassive == EventsSpec => Spec
<1>1. EventsInit => Init
  BY DEF EventsInit
<1>2. [EventsNext]_allVars => [Next]_vars
  BY EventsStepIsStep
<1> QED
  BY <1>1, <1>2, PTL DEF EventsSpec, Spec

\* In particular the invariant of the commits.
LEMMA EventsCommitInvariant == EventsSpec => []CommitInv
  BY RecorderIsPassive, CommitInvariant, PTL

\* Flush puts a buffered error on record, as a row or as a lost one, and changes
\* nothing for a bag without a buffered event.
LEMMA FlushRecords ==
  ASSUME EventInv, Flush, NEW c \in Contracts
  PROVE  /\ bagEvents[c] = "error" => ErrorOnRecord(c)'
         /\ bagEvents[c] = "none" => (ErrorOnRecord(c)' <=> ErrorOnRecord(c))
<1>1. CASE InsertBagPipelineEvents /\ lost' = lost \ Buffered
  BY <1>1 DEF InsertBagPipelineEvents, Buffered, ErrorOnRecord
<1>2. CASE lost' = lost \union Buffered /\ UNCHANGED lastEvent
  BY <1>2 DEF Buffered, ErrorOnRecord
<1> QED BY <1>1, <1>2 DEF Flush

\* The recorder's tables keep their types.
LEMMA EventsTyped ==
  ASSUME EventInv, [EventsNext]_allVars
  PROVE  bagEvents' \in [Contracts -> EventKind] /\ lastEvent' \in [Contracts -> EventKind]
<1> USE DEF EventInv, EventKind
<1>1. ASSUME Flush PROVE bagEvents' \in [Contracts -> EventKind] /\ lastEvent' \in [Contracts -> EventKind]
  BY <1>1 DEF Flush, InsertBagPipelineEvents, NoEvents
<1>2. ASSUME NEW todo, NEW results, Record(todo, results)
      PROVE  bagEvents' \in [Contracts -> EventKind]
  BY <1>2 DEF Record, RecordBagTransition
<1>3. CASE EventsFlushMain \/ EventsFlushRetry
  BY <1>1, <1>3 DEF EventsFlushMain, EventsFlushRetry
<1>4. CASE EventsRunMain \/ EventsRunRetry
  BY <1>2, <1>4 DEF EventsRunMain, EventsRunRetry
<1>5. CASE EventsStart \/ EventsReturn \/ EventsOther \/ EventsTick \/ EventsAround \/ UNCHANGED allVars
  BY <1>5 DEF EventsStart, EventsReturn, EventsOther, EventsTick, EventsAround, allVars, eventVars
<1>6. CASE EventsCrash
  BY <1>6 DEF EventsCrash, NoEvents
<1> QED
  BY <1>3, <1>4, <1>5, <1>6 DEF EventsNext, EventsWorker

\* Steps that leave the events, the reasons and the results alone, within a phase.
LEMMA QuietKeepsEvents ==
  ASSUME Recorded, OnRecord, UNCHANGED <<bagEvents, lastEvent, lost, reason, pc, contracts,
                                         pending, mainResults, retryResults, shortSleep>>
  PROVE  Recorded' /\ OnRecord'
<1>1. \A c : (Covered(c)' <=> Covered(c)) /\ (ErrorOnRecord(c)' <=> ErrorOnRecord(c))
  BY DEF Covered, ErrorOnRecord
<1>2. Recorded'
  BY DEF Recorded, NoEvents
<1>3. OnRecord'
  BY <1>1 DEF OnRecord, Deferring, Settled
<1> QED BY <1>2, <1>3

\* Steps on the way from the first flush to the last commit.
LEMMA DeferringKeepsEvents ==
  ASSUME Recorded, OnRecord, UNCHANGED <<bagEvents, lastEvent, lost, reason, pending>>,
         pc \in Deferring \ {"commitRetry"}, pc' \in Deferring,
         pc' = "commitRetry" => retryResults' = NoResults
  PROVE  Recorded' /\ OnRecord'
<1>1. \A c \in Contracts : (Covered(c)' <=> Covered(c)) /\ (ErrorOnRecord(c)' <=> ErrorOnRecord(c))
  BY DEF Covered, ErrorOnRecord
<1>2. \A c \in pending : ErrorOnRecord(c)'
  BY DEF ErrorOnRecord, OnRecord
<1>3. bagEvents' = NoEvents
  BY DEF Recorded, Deferring
<1>4. Recorded'
  BY <1>3 DEF Recorded, Deferring, NoEvents, NoResults
<1> QED BY <1>1, <1>2, <1>4 DEF OnRecord, Deferring, Settled

\* A cycle that returns early, or dies, leaves an empty recorder.
LEMMA ShortSleepKeepsEvents ==
  ASSUME DropLocals, shortSleep', bagEvents' = NoEvents
  PROVE  Recorded' /\ OnRecord'
  BY DEF DropLocals, Recorded, OnRecord, Deferring, Settled, NoEvents

\* A cycle that completes returns with every public failure on record.
LEMMA ReturnKeepsEvents ==
  ASSUME DropLocals, bagEvents' = NoEvents, \A c \in Contracts : Covered(c)'
  PROVE  Recorded' /\ OnRecord'
  BY DEF DropLocals, Recorded, OnRecord, Deferring, Settled, NoEvents

\* No step of the composition breaks the record.
LEMMA EventStep ==
  ASSUME CommitInv, CommitInv', JudgedAreRows, EventInv, [EventsNext]_allVars
  PROVE  EventInv'
<1> DEFINE Kept == Recorded' /\ OnRecord'
<1> SUFFICES Kept
  BY EventsTyped DEF EventInv
<1>1. Recorded /\ OnRecord
  BY DEF EventInv
<1>2. CASE EventsStart
  BY <1>1, <1>2 DEF EventsStart, StartCycle, Recorded, OnRecord, Deferring, Settled, NoEvents
<1>3. CASE EventsRunMain
  <2>1. pc = "main" /\ pc' = "commitMain" /\ contracts' = contracts /\ Record(contracts, mainResults')
    BY <1>3 DEF EventsRunMain, RunMain, RunMainUnresolved
  <2>2. \A c \in contracts : IsErrorReason(mainResults'[c]) => bagEvents'[c] = "error"
    BY <2>1 DEF Record, RecordBagTransition, CommitInv, TypeOK
  <2> QED
    BY <2>1, <2>2 DEF Recorded, OnRecord, Deferring, Settled
<1>4. CASE EventsRunRetry
  <2>1. /\ pc \in {"retry", "retryExpired"} /\ pc' = "commitRetry" /\ Record(pending, retryResults')
        /\ UNCHANGED <<lastEvent, lost, reason, pending>>
    BY <1>4 DEF EventsRunRetry, RunRetry, RunRetryUnresolved, CommitPC, dbVars
  <2>2. bagEvents = NoEvents
    BY <1>1, <2>1 DEF Recorded
  <2>3. ASSUME NEW c \in Contracts
        PROVE  IF retryResults'[c] = NoReason THEN bagEvents'[c] = "none"
               ELSE IsErrorReason(retryResults'[c]) => bagEvents'[c] = "error"
    <3>1. CASE c \in pending
      <4>1. retryResults'[c] # NoReason
        <5>1. ASSUME RunRetry PROVE retryResults'[c] \in ReasonCode
          <6>1. PICK a \in assignProvidersToAgents(pending, Batch(pending), sticky, mainAssignment) :
                  \E answered \in Answers(a) :
                    \E verdict \in [{d \in pending : a[ProviderOf[d]] \in answered} -> RowReasons] :
                      retryResults' = Results(pending, a, answered, verdict)
            BY <5>1 DEF RunRetry
          <6>2. a \in [Providers -> Agent] /\ pending \in SUBSET Contracts
            BY AssignmentsAvoidExcluded DEF CommitInv, TypeOK
          <6>3. PICK answered \in Answers(a) :
                  \E verdict \in [{d \in pending : a[ProviderOf[d]] \in answered} -> RowReasons] :
                    retryResults' = Results(pending, a, answered, verdict)
            BY <6>1
          <6>4. PICK verdict \in [{d \in pending : a[ProviderOf[d]] \in answered} -> RowReasons] :
                  retryResults' = Results(pending, a, answered, verdict)
            BY <6>3
          <6> QED BY <3>1, <6>2, <6>4, ResultsAreReasons
        <5>2. ASSUME RunRetryUnresolved PROVE retryResults'[c] \in ReasonCode
          BY <3>1, <5>2, UnresolvedAreReasons DEF RunRetryUnresolved, CommitInv, TypeOK
        <5> QED BY <1>4, <5>1, <5>2 DEF EventsRunRetry, ReasonCode, NoReason
      <4> QED BY <2>1, <3>1, <4>1 DEF Record, RecordBagTransition
    <3>2. CASE c \notin pending
      BY <2>1, <2>2, <3>2 DEF Record, CommitInv, RetryJudged, NoEvents
    <3> QED BY <3>1, <3>2
  <2>4. Recorded'
    BY <2>1, <2>3 DEF Recorded
  <2>5. OnRecord'
    BY <1>1, <2>1 DEF OnRecord, Covered, ErrorOnRecord, Deferring, Settled
  <2> QED BY <2>4, <2>5
<1>5. CASE EventsFlushMain
  <2>1. Flush /\ bagEvents' = NoEvents
    BY <1>5 DEF EventsFlushMain, Flush
  <2>2. CASE CommitMainFails \/ StatusMainFails
    BY <2>1, <2>2, ShortSleepKeepsEvents DEF CommitMainFails, StatusMainFails, Return
  <2>3. CASE StatusMain
    <3>1. /\ pc = "statusMain" /\ pc' = "decide"
          /\ UNCHANGED <<reason, contracts, pending, mainResults>>
      BY <2>3 DEF StatusMain, passVars
    <3>2. \A c \in pending : c \in contracts /\ bagEvents[c] = "error"
      BY <1>1, <3>1 DEF Recorded, CommitInv, PendingIsRetriable, Uncommitted, Unchecked,
         isRetriableReason, IsErrorReason, NoReason
    <3>3. \A c \in contracts : IsErrorReason(reason[c]) => bagEvents[c] = "error"
      BY <1>1, <3>1, <3>2 DEF Recorded, CommitInv, DefinitivePublic, Uncommitted, Unchecked
    <3>4. \A c \in pending : ErrorOnRecord(c)'
      BY <2>1, <3>2, FlushRecords DEF CommitInv, TypeOK
    <3>5. ASSUME NEW c \in Contracts PROVE Covered(c)'
      <4>1. CASE c \in contracts
        BY <2>1, <3>1, <3>3, <4>1, FlushRecords DEF Covered
      <4>2. CASE c \notin contracts
        BY <3>1, <4>2 DEF Covered, IsErrorReason, JudgedAreRows
      <4> QED BY <4>1, <4>2
    <3>6. Recorded'
      BY <2>1, <3>1 DEF Recorded
    <3> QED BY <3>1, <3>4, <3>5, <3>6 DEF OnRecord, Settled
  <2> QED BY <1>5, <2>2, <2>3 DEF EventsFlushMain
<1>6. CASE EventsFlushRetry
  <2>1. Flush /\ bagEvents' = NoEvents
    BY <1>6 DEF EventsFlushRetry, Flush
  <2>2. CASE CommitFinalFails("retry") \/ StatusFinalFails("retry")
    <3>1. DropLocals /\ shortSleep'
      BY <2>2 DEF CommitFinalFails, StatusFinalFails, Return
    <3> QED BY <2>1, <3>1, ShortSleepKeepsEvents
  <2>3. CASE StatusFinal("retry")
    <3>1. pc = "statusRetry" /\ reason' = reason /\ DropLocals
      BY <2>3 DEF StatusFinal, StatusPC, Return
    <3>2. \A c \in Contracts : Covered(c)'
      BY <1>1, <2>1, <3>1, FlushRecords DEF OnRecord, Covered, Settled
    <3> QED BY <2>1, <3>1, <3>2, ReturnKeepsEvents
  <2> QED BY <1>6, <2>2, <2>3 DEF EventsFlushRetry
<1>7. CASE EventsReturn
  <2>1. UNCHANGED <<bagEvents, lastEvent, lost, reason>>
    BY <1>7 DEF EventsReturn, AbortBeforeCommit, NothingDeferred, CommitFinalFails, StatusFinal,
       StatusFinalFails, dbVars
  <2>2. CASE AbortBeforeCommit
    <3>1. bagEvents = NoEvents
      BY <1>1, <2>2 DEF AbortBeforeCommit, Recorded
    <3> QED BY <2>1, <2>2, <3>1, ShortSleepKeepsEvents DEF AbortBeforeCommit, Return
  <2>3. CASE NothingDeferred
    <3>1. bagEvents = NoEvents /\ \A c \in Contracts : Covered(c)
      BY <1>1, <2>3 DEF NothingDeferred, Recorded, OnRecord, Deferring
    <3>2. \A c \in Contracts : Covered(c)'
      BY <2>1, <3>1 DEF Covered, ErrorOnRecord
    <3> QED BY <2>1, <2>3, <3>1, <3>2, ReturnKeepsEvents DEF NothingDeferred, Return
  <2>4. ASSUME NEW path \in FinalPath \ {"retry"},
               CommitFinalFails(path) \/ StatusFinal(path) \/ StatusFinalFails(path)
        PROVE  Kept
    <3>1. /\ DropLocals
          /\ pc \in {"commitSkip", "commitCancel", "commitLate", "statusSkip", "statusCancel", "statusLate"}
      BY <2>4 DEF CommitFinalFails, StatusFinal, StatusFinalFails, Return, FinalPath, CommitPC, StatusPC
    <3>2. bagEvents = NoEvents
      BY <1>1, <3>1 DEF Recorded
    <3>3. \A c \in Contracts : Covered(c)
      BY <1>1, <3>1, <3>2 DEF OnRecord, Covered, Deferring, Settled, NoEvents
    <3>4. \A c \in Contracts : Covered(c)'
      BY <2>1, <3>3 DEF Covered, ErrorOnRecord
    <3> QED BY <2>1, <3>1, <3>2, <3>4, ReturnKeepsEvents
  <2> QED BY <1>7, <2>2, <2>3, <2>4 DEF EventsReturn
<1>8. CASE EventsOther
  <2>1. UNCHANGED <<bagEvents, lastEvent, lost>>
    BY <1>8 DEF EventsOther, eventVars
  <2>2. CASE StartCycleFails
    <3>1. pc = "sleep" /\ pc' = "sleep" /\ shortSleep'
      BY <2>2 DEF StartCycleFails, localVars
    <3> QED
      BY <1>1, <2>1, <3>1 DEF Recorded, OnRecord, Deferring, Settled, NoEvents
  <2>3. CASE \/ \E closed \in SUBSET contracts : updateRejectedContracts(closed)
             \/ \E resolved \in SUBSET Providers : updateProvidersIPs(resolved)
    <3>1. pc \in {"reject", "resolve"} /\ pc' \in {"resolve", "main"}
      BY <2>3 DEF updateRejectedContracts, updateProvidersIPs
    <3> QED
      BY <1>1, <2>1, <3>1 DEF Recorded, OnRecord, Deferring, Settled, NoEvents
  <2>4. CASE CommitMain
    BY <1>1, <2>1, <2>4
    DEF CommitMain, passVars, Recorded, OnRecord, Deferring, Settled, NoEvents
  <2>5. CASE ScheduleRetry \/ SkipRetry \/ WaitElapsed \/ WaitCancelled
    <3>1. UNCHANGED <<reason, pending>> /\ pc \in {"decide", "wait"}
      BY <2>5 DEF ScheduleRetry, SkipRetry, WaitElapsed, WaitCancelled, dbVars
    <3>2. pc' \in {"wait", "commitSkip", "refresh", "commitLate", "commitCancel"}
      BY <2>5 DEF ScheduleRetry, SkipRetry, WaitElapsed, WaitCancelled, CommitPC
    <3> QED BY <1>1, <2>1, <3>1, <3>2, DeferringKeepsEvents DEF Deferring
  <2>6. CASE RunRetryFails \/ \E refreshed \in SUBSET Providers : refreshForRetry(refreshed)
    <3>1. UNCHANGED <<reason, pending, retryResults>> /\ pc \in {"refresh", "retry", "retryExpired"}
      BY <2>6 DEF RunRetryFails, refreshForRetry, dbVars, retryVars
    <3>2. pc' \in {"retry", "retryExpired", "commitRetry"}
      BY <2>6 DEF RunRetryFails, refreshForRetry, CommitPC
    <3>3. retryResults = NoResults
      BY <3>1 DEF CommitInv, RetryJudged
    <3> QED BY <1>1, <2>1, <3>1, <3>2, <3>3, DeferringKeepsEvents DEF Deferring
  <2>7. ASSUME NEW path \in FinalPath, CommitFinal(path) PROVE Kept
    <3>1. /\ pc \in {"commitSkip", "commitCancel", "commitLate", "commitRetry"}
          /\ pc' \in Settled /\ (pc' = "statusRetry" <=> pc = "commitRetry")
          /\ UNCHANGED <<contracts, mainResults, pending, retryResults>>
      BY <2>7 DEF CommitFinal, passVars, retryVars, FinalPath, CommitPC, StatusPC, Settled
    <3>2. Recorded'
      BY <1>1, <2>1, <3>1 DEF Recorded, Settled, NoEvents
    <3>3. ASSUME NEW c \in Contracts, IsErrorReason(reason'[c])
          PROVE  bagEvents[c] = "error" \/ (bagEvents[c] = "none" /\ ErrorOnRecord(c))
      <4>1. reason'[c] = IF c \in pending \cap rows THEN finalVerdict[c] ELSE reason[c]
        BY <2>7 DEF CommitFinal, UpdateContractProofsChecks
      <4>2. IF retryResults[c] = NoReason THEN bagEvents[c] = "none"
            ELSE IsErrorReason(retryResults[c]) => bagEvents[c] = "error"
        <5>1. CASE pc = "commitRetry"
          BY <1>1, <5>1 DEF Recorded
        <5>2. CASE pc # "commitRetry"
          BY <1>1, <3>1, <5>2 DEF Recorded, CommitInv, RetryJudged, NoEvents, NoResults
        <5> QED BY <5>1, <5>2
      <4>3. CASE c \in pending
        <5>1. c \in rows
          BY <3>1, <4>3 DEF CommitInv, ContractsExist, PendingIsRetriable
        <5>2. ErrorOnRecord(c)
          BY <1>1, <3>1, <4>3 DEF OnRecord, Deferring
        <5>3. reason'[c] = IF retryResults[c] # NoReason THEN retryResults[c] ELSE mainResults[c]
          BY <4>1, <4>3, <5>1 DEF finalVerdict
        <5> QED BY <3>3, <4>2, <5>2, <5>3
      <4>4. CASE c \notin pending
        <5>1. retryResults[c] = NoReason
          BY <4>4 DEF CommitInv, RetryJudged
        <5>2. Covered(c)
          BY <1>1, <3>1 DEF OnRecord, Deferring
        <5> QED BY <3>3, <4>1, <4>2, <4>4, <5>1, <5>2 DEF Covered
      <4> QED BY <4>3, <4>4
    <3>4. OnRecord'
      BY <2>1, <3>1, <3>3 DEF OnRecord, ErrorOnRecord, Deferring, Settled
    <3> QED BY <3>2, <3>4
  <2> QED BY <1>8, <2>2, <2>3, <2>4, <2>5, <2>6, <2>7 DEF EventsOther
<1>9. CASE EventsTick \/ EventsAround \/ UNCHANGED allVars
  BY <1>1, <1>9, QuietKeepsEvents
  DEF EventsTick, EventsAround, Tick, Cancel, AddStorageContracts, allVars, vars, eventVars,
      dbVars, procVars, localVars
<1>10. CASE EventsCrash
  BY <1>10, ShortSleepKeepsEvents DEF EventsCrash, Crash
<1> QED
  BY <1>2, <1>3, <1>4, <1>5, <1>6, <1>7, <1>8, <1>9, <1>10 DEF EventsNext, EventsWorker

\* A bag that is publicly failed after a completed cycle has an error as its newest
\* pipeline event, unless a failed insert or a crash lost it: the triage queries
\* miss no failure that Flush could write.
THEOREM ErrorsHaveEvents == EventsSpec => []ErrorHasEvent
<1>1. EventsInit => EventInv /\ JudgedAreRows
  BY DEF EventsInit, Init, EventInv, EventKind, NoEvents, Recorded, OnRecord, Deferring, Settled,
     JudgedAreRows, NoResults
<1>2. CommitInv /\ CommitInv' /\ EventInv /\ JudgedAreRows /\ [EventsNext]_allVars
        => (EventInv /\ JudgedAreRows)'
  BY EventStep, EventsStepIsStep, JudgedAreRowsStep
<1>3. CommitInv /\ EventInv => ErrorHasEvent
  BY DEF EventInv, OnRecord, Covered, ErrorOnRecord, ErrorHasEvent, CommitInv, TypeOK
<1> QED
  BY <1>1, <1>2, <1>3, EventsCommitInvariant, PTL DEF EventsSpec

-----------------------------------------------------------------------------
(* The loss of one agent *)

\* In a healthy world every provider of the cycle has an endpoint once they are
\* looked up.
AllResolved ==
  pc \notin {"sleep", "reject", "resolve"} => \A c \in contracts : ProviderOf[c] \in available

\* The main pass fails a bag only for the agent that is down.
MainProves ==
  pc \notin Unchecked =>
    \A c \in contracts :
      \/ mainResults[c] = "ValidStorageProof"
      \/ mainResults[c] = "NotFound" /\ mainAssignment[ProviderOf[c]] = down

\* The retry, on other agents, proves what is left, if it has the time.
RetryProves ==
  pc \in {"commitRetry", "statusRetry"} =>
    elapsed >= Deadline \/ \A c \in pending : retryResults[c] = "ValidStorageProof"

\* A cycle goes on without a retry only when there is none, or no time for it.
NoRetryInTime ==
  /\ pc = "commitSkip" => RetryDelay = 0 \/ elapsed >= Deadline
  /\ pc = "commitLate" => elapsed >= Deadline

HiddenInv == AllResolved /\ MainProves /\ RetryProves /\ NoRetryInTime

\* The providers of rows are providers.
LEMMA ProvidersOfRows ==
  ASSUME NEW S \in SUBSET Contracts
  PROVE  {ProviderOf[c] : c \in S} \in SUBSET Providers
  BY ShardAssumption

\* The healthy world is a part of StoreProof's.
LEMMA OneDownStepIsStep ==
  ASSUME TypeOK, [OneDownNext]_downVars
  PROVE  [Next]_vars
<1>1. CASE HealthyWorker
  <2>1. updateRejectedContracts({}) => Worker
    BY DEF Worker
  <2>2. updateProvidersIPs({ProviderOf[c] : c \in contracts}) => Worker
    BY ProvidersOfRows DEF Worker, TypeOK
  <2>3. refreshForRetry({ProviderOf[c] : c \in pending}) => Worker
    BY ProvidersOfRows DEF Worker, TypeOK
  <2>4. (\E path \in FinalPath \ {"cancel"} : CommitFinal(path) \/ StatusFinal(path)) => Worker
    BY DEF Worker
  <2>5. Worker
    BY <1>1, <2>1, <2>2, <2>3, <2>4 DEF HealthyWorker, Worker
  <2> QED BY <2>5 DEF Next
<1>2. CASE Tick \/ \E c \in Contracts : AddStorageContracts(c)
  BY <1>2 DEF Next, Environment
<1>3. CASE Outage \/ UNCHANGED downVars
  BY <1>3 DEF Outage, downVars
<1> QED
  BY <1>1, <1>2, <1>3 DEF OneDownNext

\* So what holds of StoreProof holds in the healthy world.
LEMMA OneDownCommitInvariant == OneDownSpec => []CommitInv
<1>1. OneDownInit => CommitInv
  <2> SUFFICES ASSUME Init PROVE CommitInv
    BY DEF OneDownInit
  <2> QED BY InitCommitInv
<1>2. CommitInv /\ [OneDownNext]_downVars => CommitInv'
  <2> SUFFICES ASSUME CommitInv, [OneDownNext]_downVars PROVE CommitInv'
    OBVIOUS
  <2>1. TypeOK /\ [Next]_vars
    BY OneDownStepIsStep DEF CommitInv
  <2> QED BY <2>1, TypeStep, CommitInvStep
<1> QED
  BY <1>1, <1>2, PTL DEF OneDownSpec

\* A world in which at most one agent is down is one of those StoreProof allows for.
THEOREM OneDownIsStoreProof == OneDownSpec => Spec
<1>1. OneDownInit => Init
  BY DEF OneDownInit
<1>2. CommitInv /\ [OneDownNext]_downVars => [Next]_vars
  <2> SUFFICES ASSUME CommitInv, [OneDownNext]_downVars PROVE [Next]_vars
    OBVIOUS
  <2>1. TypeOK
    BY DEF CommitInv
  <2> QED BY <2>1, OneDownStepIsStep
<1> QED
  BY <1>1, <1>2, OneDownCommitInvariant, PTL DEF OneDownSpec, Spec

\* A return leaves nothing to account for.
LEMMA ReturnKeepsHidden ==
  ASSUME HiddenInv, DropLocals
  PROVE  HiddenInv'
  BY DEF DropLocals, HiddenInv, AllResolved, MainProves, RetryProves, NoRetryInTime, Unchecked

\* An agent that is given a batch after an exclusion is another agent.
LEMMA BatchAvoidsExcluded ==
  ASSUME NEW todo, NEW batch, NEW stickyMap, NEW exclude, NEW p \in Providers, p \in batch,
         Cardinality(Endpoints) > 1,
         NEW a \in assignProvidersToAgents(todo, batch, stickyMap, exclude)
  PROVE  a[p] \in Endpoints /\ a[p] # exclude[p]
  <1>1. a[p] \in pickAgent(candidates(exclude[p]), loads(todo, a, p), stickyMap[p])
    BY DEF assignProvidersToAgents
  <1>2. a[p] \in candidates(exclude[p])
    BY <1>1 DEF pickAgent
  <1> QED BY <1>2 DEF candidates

\* Times can be compared.
LEMMA DeadlineIsInt == Deadline \in Int
  BY StoreProofAssumption DEF Deadline

\* With two agents or more, the retry of the healthy world proves what the main
\* pass deferred, or comes too late.
LEMMA HiddenStep ==
  ASSUME Cardinality(Endpoints) > 1, CommitInv, HiddenInv, [OneDownNext]_downVars
  PROVE  HiddenInv'
<1> USE DEF Unchecked
<1>1. CASE StartCycle
  BY <1>1 DEF StartCycle, HiddenInv, AllResolved, MainProves, RetryProves, NoRetryInTime
<1>2. CASE updateRejectedContracts({})
  BY <1>2 DEF updateRejectedContracts, HiddenInv, AllResolved, MainProves, RetryProves,
     NoRetryInTime
<1>3. CASE updateProvidersIPs({ProviderOf[c] : c \in contracts})
  BY <1>3 DEF updateProvidersIPs, HiddenInv, AllResolved, MainProves, RetryProves, NoRetryInTime
<1>4. CASE RunMain /\ Proves(contracts, mainAssignment', mainResults') /\ UNCHANGED down
  <2>1. pc = "main" /\ pc' = "commitMain" /\ UNCHANGED <<contracts, available>>
    BY <1>4 DEF RunMain
  <2>2. MainProves'
    BY <1>4, <2>1 DEF Proves, MainProves
  <2> QED
    BY <2>1, <2>2 DEF HiddenInv, AllResolved, RetryProves, NoRetryInTime
<1>5. CASE RunMainUnresolved
  <2>1. pc = "main" /\ pc' = "commitMain" /\ UNCHANGED <<contracts, available>>
    BY <1>5 DEF RunMainUnresolved
  <2>2. contracts = {}
    <3>1. \A c \in contracts : ProviderOf[c] \in available /\ c \in Bags(contracts, ProviderOf[c])
      BY <2>1 DEF HiddenInv, AllResolved, Bags
    <3> QED BY <1>5, <3>1 DEF RunMainUnresolved, Batch
  <2> QED
    BY <2>1, <2>2 DEF HiddenInv, AllResolved, MainProves, RetryProves, NoRetryInTime
<1>6. CASE AbortBeforeCommit \/ NothingDeferred \/ \E path \in FinalPath : StatusFinal(path)
  BY <1>6, ReturnKeepsHidden DEF AbortBeforeCommit, NothingDeferred, StatusFinal, Return
<1>7. CASE (CommitMain \/ StatusMain \/ ScheduleRetry \/ WaitElapsed) /\ UNCHANGED down
  <2>1. UNCHANGED <<elapsed, contracts, available, mainResults, mainAssignment>>
    BY <1>7 DEF CommitMain, StatusMain, ScheduleRetry, WaitElapsed, passVars
  <2>2. /\ pc \in {"commitMain", "statusMain", "decide", "wait"}
        /\ pc' \in {"statusMain", "decide", "wait", "refresh", "commitLate"}
        /\ pc' = "commitLate" => ~(elapsed < Deadline)
    BY <1>7 DEF CommitMain, StatusMain, ScheduleRetry, WaitElapsed, CommitPC
  <2>3. NoRetryInTime'
    BY <2>1, <2>2, DeadlineIsInt DEF NoRetryInTime, CommitInv, TypeOK
  <2> QED
    BY <1>7, <2>1, <2>2, <2>3 DEF HiddenInv, AllResolved, MainProves, RetryProves
<1>8. CASE SkipRetry /\ UNCHANGED down
  <2>1. /\ pc = "decide" /\ pc' = "commitSkip"
        /\ UNCHANGED <<elapsed, contracts, available, mainResults, mainAssignment>>
    BY <1>8 DEF SkipRetry, CommitPC, passVars
  <2>2. RetryDelay = 0 \/ elapsed >= Deadline
    BY <1>8, DeadlineIsInt, StoreProofAssumption DEF SkipRetry, shouldRetry, CommitInv, TypeOK
  <2> QED
    BY <1>8, <2>1, <2>2 DEF HiddenInv, AllResolved, MainProves, RetryProves, NoRetryInTime, Deadline
<1>9. CASE refreshForRetry({ProviderOf[c] : c \in pending}) /\ UNCHANGED down
  <2>1. UNCHANGED <<contracts, mainResults, mainAssignment>> /\ available \subseteq available'
    BY <1>9 DEF refreshForRetry, passVars
  <2>2. pc = "refresh" /\ pc' \in {"retry", "retryExpired"}
    BY <1>9 DEF refreshForRetry
  <2> QED
    BY <1>9, <2>1, <2>2 DEF HiddenInv, AllResolved, MainProves, RetryProves, NoRetryInTime
<1>10. CASE /\ RunRetry /\ UNCHANGED down
            /\ elapsed < Deadline => Proves(pending, retryAssignment', retryResults')
  <2>1. /\ pc = "retry" /\ pc' = "commitRetry"
        /\ UNCHANGED <<elapsed, contracts, available, pending, mainResults, mainAssignment>>
    BY <1>10 DEF RunRetry, passVars, CommitPC
  <2>2. retryAssignment' \in assignProvidersToAgents(pending, Batch(pending), sticky, mainAssignment)
    BY <1>10 DEF RunRetry
  <2>3. ASSUME elapsed < Deadline, NEW c \in pending PROVE retryResults'[c] = "ValidStorageProof"
    <3>1. c \in contracts /\ c \in Contracts /\ isRetriableReason(mainResults[c])
      BY <2>1 DEF CommitInv, TypeOK, PendingIsRetriable, Uncommitted
    <3>2. ProviderOf[c] \in Providers /\ ProviderOf[c] \in Batch(pending)
      BY <2>1, <3>1, ShardAssumption DEF HiddenInv, AllResolved, Batch, Bags, CommitInv, TypeOK
    <3>3. mainAssignment[ProviderOf[c]] = down
      BY <2>1, <3>1 DEF HiddenInv, MainProves, isRetriableReason
    <3>4. retryAssignment'[ProviderOf[c]] # down
      BY <2>2, <3>2, <3>3, BatchAvoidsExcluded
    <3> QED BY <1>10, <2>3, <3>4 DEF Proves
  <2>4. RetryProves'
    BY <2>1, <2>3, DeadlineIsInt DEF RetryProves, CommitInv, TypeOK
  <2> QED
    BY <1>10, <2>1, <2>4 DEF HiddenInv, AllResolved, MainProves, NoRetryInTime
<1>11. CASE RunRetryFails /\ elapsed >= Deadline /\ UNCHANGED down
  <2>1. /\ pc \in {"retry", "retryExpired"} /\ pc' = "commitRetry"
        /\ UNCHANGED <<elapsed, contracts, available, mainResults, mainAssignment>>
    BY <1>11 DEF RunRetryFails, CommitPC, passVars
  <2> QED
    BY <1>11, <2>1 DEF HiddenInv, AllResolved, MainProves, RetryProves, NoRetryInTime, Deadline
<1>12. ASSUME NEW path \in FinalPath \ {"cancel"}, CommitFinal(path), UNCHANGED down
       PROVE  HiddenInv'
  <2>1. /\ <<pc, pc'>> \in {<<"commitSkip", "statusSkip">>, <<"commitLate", "statusLate">>,
                           <<"commitRetry", "statusRetry">>}
        /\ UNCHANGED <<elapsed, contracts, available, pending, mainResults, mainAssignment,
                       retryResults>>
    BY <1>12 DEF CommitFinal, passVars, retryVars, FinalPath, CommitPC, StatusPC
  <2> QED
    BY <1>12, <2>1 DEF HiddenInv, AllResolved, MainProves, RetryProves, NoRetryInTime, Deadline
<1>13. CASE \/ (Tick \/ \E c \in Contracts : AddStorageContracts(c)) /\ UNCHANGED down
            \/ UNCHANGED downVars
  <2>1. UNCHANGED <<pc, contracts, available, pending, mainResults, mainAssignment, retryResults, down>>
    BY <1>13 DEF Tick, AddStorageContracts, downVars, vars, localVars
  <2>2. elapsed >= Deadline => elapsed' >= Deadline
    BY <1>13, DeadlineIsInt DEF Tick, AddStorageContracts, downVars, vars, CommitInv, TypeOK
  <2> QED
    BY <2>1, <2>2 DEF HiddenInv, AllResolved, MainProves, RetryProves, NoRetryInTime, Deadline
<1>14. CASE Outage
  BY <1>14 DEF Outage, vars, HiddenInv, AllResolved, MainProves, RetryProves, NoRetryInTime, Deadline
<1> QED
  BY <1>1, <1>2, <1>3, <1>4, <1>5, <1>6, <1>7, <1>8, <1>9, <1>10, <1>11, <1>12, <1>13, <1>14
  DEF OneDownNext, HealthyWorker

\* The only steps of the healthy world that write a reason are the two commits.
LEMMA OneDownWriters ==
  ASSUME [OneDownNext]_downVars, TypeOK
  PROVE  \/ UNCHANGED reason
         \/ CommitMain
         \/ \E path \in FinalPath \ {"cancel"} : CommitFinal(path)
<1>1. CASE HealthyWorker
  <2>1. updateRejectedContracts({}) => UNCHANGED reason
    BY DEF updateRejectedContracts, UpdateRejectedStorageContracts, TypeOK
  <2>2. (\E path \in FinalPath \ {"cancel"} : StatusFinal(path)) => UNCHANGED reason
    BY DEF StatusFinal
  <2>3. ASSUME \/ StartCycle \/ updateProvidersIPs({ProviderOf[c] : c \in contracts})
               \/ RunMain \/ RunMainUnresolved \/ AbortBeforeCommit
               \/ StatusMain \/ ScheduleRetry \/ SkipRetry \/ NothingDeferred \/ WaitElapsed
               \/ refreshForRetry({ProviderOf[c] : c \in pending}) \/ RunRetry \/ RunRetryFails
        PROVE  UNCHANGED reason
    BY <2>3 DEF StartCycle, updateProvidersIPs, RunMain, RunMainUnresolved, AbortBeforeCommit,
       StatusMain, ScheduleRetry, SkipRetry, NothingDeferred, WaitElapsed, refreshForRetry,
       RunRetry, RunRetryFails, dbVars
  <2> QED BY <1>1, <2>1, <2>2, <2>3 DEF HealthyWorker
<1>2. CASE Tick \/ (\E c \in Contracts : AddStorageContracts(c)) \/ Outage \/ UNCHANGED downVars
  BY <1>2 DEF Tick, AddStorageContracts, Outage, downVars, vars, dbVars
<1> QED BY <1>1, <1>2 DEF OneDownNext

\* With two agents or more, however many, and whatever the times, the loss of one
\* of them makes no bag publicly failed as long as there is a retry and the cycle
\* is before its deadline, and later on only bags of that agent which no other has
\* proved (selectMainProofsCommit, assignProvidersToAgents, sleepUntil,
\* selectFinalProofsCommit).
THEOREM OutageIsHidden == Cardinality(Endpoints) > 1 /\ OneDownSpec => OutageStaysHidden
<1> DEFINE Excused(c) == /\ RetryDelay = 0 \/ elapsed >= Deadline
                         /\ mainAssignment[ProviderOf[c]] = down
                         /\ retryResults[c] # "ValidStorageProof"
<1>1. OneDownInit => HiddenInv
  BY DEF OneDownInit, Init, HiddenInv, AllResolved, MainProves, RetryProves, NoRetryInTime, Unchecked
<1>2. ASSUME CommitInv, HiddenInv, [OneDownNext]_downVars, NEW c \in Contracts,
             reason'[c] \notin {reason[c], NoReason, "ValidStorageProof"}
      PROVE  Excused(c)
  <2>1. CASE CommitMain
    <3>1. pc = "commitMain"
      BY <2>1 DEF CommitMain
    <3>2. c \in toCommit /\ reason'[c] = mainResults[c]
      BY <1>2, <2>1 DEF CommitMain, UpdateContractProofsChecks
    <3>3. mainResults[c] = "ValidStorageProof"
      BY <1>2, <3>1, <3>2 DEF toCommit, HiddenInv, MainProves, isRetriableReason, Unchecked
    <3> QED BY <1>2, <3>2, <3>3
  <2>2. ASSUME NEW path \in FinalPath \ {"cancel"}, CommitFinal(path) PROVE Excused(c)
    <3>1. pc \in {"commitSkip", "commitLate", "commitRetry"}
      BY <2>2 DEF CommitFinal, CommitPC, FinalPath
    <3>2. c \in pending /\ reason'[c] = finalVerdict[c]
      BY <1>2, <2>2 DEF CommitFinal, UpdateContractProofsChecks
    <3>3. retryResults[c] # "ValidStorageProof"
      BY <1>2, <3>2 DEF finalVerdict, NoReason
    <3>4. c \in contracts /\ isRetriableReason(mainResults[c])
      BY <1>2, <3>1, <3>2 DEF CommitInv, PendingIsRetriable, Uncommitted, Unchecked
    <3>5. mainAssignment[ProviderOf[c]] = down
      BY <1>2, <3>1, <3>4 DEF HiddenInv, MainProves, isRetriableReason, Unchecked
    <3>6. RetryDelay = 0 \/ elapsed >= Deadline
      BY <1>2, <3>1, <3>2, <3>3 DEF HiddenInv, RetryProves, NoRetryInTime
    <3> QED BY <3>3, <3>5, <3>6
  <2>3. ~ UNCHANGED reason /\ TypeOK
    BY <1>2 DEF CommitInv
  <2> QED BY <1>2, <2>1, <2>2, <2>3, OneDownWriters
<1> SUFFICES ASSUME Cardinality(Endpoints) > 1 PROVE OneDownSpec => OutageStaysHidden
  OBVIOUS
<1>3. CommitInv /\ HiddenInv /\ [OneDownNext]_downVars => HiddenInv'
  BY HiddenStep
<1>4. CommitInv /\ HiddenInv /\ [OneDownNext]_downVars =>
        [\A c \in Contracts :
           reason'[c] \notin {reason[c], NoReason, "ValidStorageProof"} =>
             /\ RetryDelay = 0 \/ elapsed >= Deadline
             /\ mainAssignment[ProviderOf[c]] = down
             /\ retryResults[c] # "ValidStorageProof"]_downVars
  BY <1>2
<1> QED
  BY <1>1, <1>3, <1>4, OneDownCommitInvariant, PTL DEF OneDownSpec, OutageStaysHidden
=============================================================================
