------------------------- MODULE EndpointRefreshProofs -------------------------
(* Proofs about EndpointRefresh, for any providers, addresses and moves that *)
(* meet EndpointAssumption.                                                  *)
EXTENDS EndpointRefresh, TLAPS

SP == "StoreProof"

\* Types of what a call keeps.
CallType ==
  /\ pc \in [Workers -> {"none", "state", "resolve"}]
  /\ scope \in [Workers -> SUBSET Providers]
  /\ targets \in [Workers -> SUBSET Providers]
  /\ todo \in [Workers -> SUBSET Providers]
  /\ found \in [Workers -> [Providers -> MaybeEntry]]
  /\ notFound \in [Workers -> SUBSET Providers]
  /\ available \in [Workers -> [Providers -> MaybeEntry]]
  /\ resolvedForPersist \in [Workers -> [Providers -> MaybeEntry]]

\* Types of the recorder.
RecorderType ==
  /\ lastProviderStatus \in [Providers -> Statuses \union {"none"}]
  /\ providerEvents \in [Providers -> SUBSET Statuses]
  /\ known \subseteq Providers /\ unclean \subseteq Providers

\* StoreProof is inside a call only where it made one, and a call resolves
\* providers of its scope.
CallPlace ==
  /\ pc[SP] # "none" => spc \in {"stale", "main", "retry"}
  /\ pc[SP] = "resolve" => targets[SP] \subseteq scope[SP]

TypeInv == TypeOK /\ CallPlace

LEMMA SPIsWorker == SP \in Workers
BY DEF SP, Workers

LEMMA NoEntriesType == NoEntries \in [Providers -> MaybeEntry]
BY DEF NoEntries, MaybeEntry

\* Every published endpoint is an entry.
LEMMA HomeType == ASSUME TypeOK, NEW p \in Providers PROVE Homes[home[p]] \in Entry
BY EndpointAssumption DEF TypeOK

\* A return leaves the call's state typed.
LEMMA LeaveType ==
  ASSUME CallType, NEW w \in Workers, Leave(w) PROVE CallType'
BY NoEntriesType DEF CallType, Leave

\* StoreProof goes on somewhere.
LEMMA AfterReturnType ==
  ASSUME TypeInv, NEW w \in Workers, pc[w] # "none", NEW ok \in BOOLEAN, Leave(w), AfterReturn(w, ok)
  PROVE  /\ spc' \in {"idle", "stale", "reject", "main", "checks", "decide", "retry", "retryChecks", "done"}
         /\ CallPlace'
<1>1. CASE w = SP
  <2>1. spc \in {"stale", "main", "retry"}
    BY <1>1 DEF TypeInv, CallPlace
  <2>2. pc'[SP] = "none"
    BY <1>1 DEF Leave, TypeInv, TypeOK
  <2> QED BY <1>1, <2>1, <2>2 DEF AfterReturn, CallPlace, SP
<1>2. CASE w # SP
  BY <1>2 DEF Leave, AfterReturn, TypeInv, TypeOK, CallPlace, SP, Workers
<1> QED BY <1>1, <1>2

\* Entering a call keeps its types.
LEMMA EnterType ==
  ASSUME CallType, NEW w \in Workers, NEW S \in SUBSET Providers, Enter(w, S) PROVE CallType'
BY DEF CallType, Enter

\* The types split into parts that steps leave alone together.
LEMMA TypeParts ==
  TypeOK <=> /\ home \in [Providers -> 1..Len(Homes)]
             /\ row \in [Providers -> MaybeEntry] /\ updatedAt \in [Providers -> {"fresh", "old"}]
             /\ newest \in [Providers -> SUBSET Statuses]
             /\ lastKnownIPs \in [Providers -> MaybeEntry]
             /\ spc \in {"idle", "stale", "reject", "main", "checks", "decide", "retry", "retryChecks", "done"}
             /\ CallType /\ RecorderType
BY DEF TypeOK, CallType, RecorderType

\* Every step keeps the types and StoreProof's place.
LEMMA TypeStep == TypeInv /\ [Next]_vars => TypeInv'
<1> SUFFICES ASSUME TypeInv, [Next]_vars PROVE TypeInv'
  OBVIOUS
<1>t. TypeOK /\ CallType /\ RecorderType /\ CallPlace
  BY TypeParts DEF TypeInv
<1> DEFINE Same == UNCHANGED <<home, row, updatedAt, newest, lastKnownIPs, spc>>
<1>s. ASSUME Same, CallType', RecorderType' PROVE TypeOK'
  BY <1>s, <1>t DEF TypeOK, CallType, RecorderType
<1>1. ASSUME NEW w \in Workers, NoneStale(w) PROVE TypeInv'
  <2>1. CallType' /\ CallPlace' /\ spc' \in {"idle", "stale", "reject", "main", "checks", "decide", "retry", "retryChecks", "done"}
    BY <1>1, <1>t, LeaveType, AfterReturnType DEF NoneStale
  <2>2. RecorderType'
    BY <1>1, <1>t DEF NoneStale, recorderVars, RecorderType
  <2> QED BY <1>1, <1>t, <2>1, <2>2 DEF TypeOK, CallType, RecorderType, NoneStale, dbVars, TypeInv
<1>2. ASSUME NEW w \in Workers, EndpointStateFails(w) PROVE TypeInv'
  <2>1. CallType' /\ CallPlace' /\ spc' \in {"idle", "stale", "reject", "main", "checks", "decide", "retry", "retryChecks", "done"}
    BY <1>2, <1>t, LeaveType, AfterReturnType DEF EndpointStateFails
  <2>2. RecorderType'
    BY <1>2, <1>t DEF EndpointStateFails, RecorderType, CallType
  <2> QED BY <1>2, <1>t, <2>1, <2>2 DEF TypeOK, CallType, RecorderType, EndpointStateFails, dbVars, TypeInv
<1>3. ASSUME NEW w \in Workers, BeginResolve(w) PROVE CallType' /\ CallPlace'
  <2>1. refreshTargets(w) \subseteq scope[w] /\ scope[w] \subseteq Providers
    BY <1>t DEF refreshTargets, CallType
  <2>2. availableCached(w) \in [Providers -> MaybeEntry]
    BY <1>t DEF availableCached, TypeOK, MaybeEntry
  <2>3. CallType'
    BY <1>3, <1>t, <2>1, <2>2 DEF BeginResolve, CallType
  <2>4. CallPlace'
    BY <1>3, <1>t, <2>1 DEF BeginResolve, CallPlace, CallType, SP
  <2> QED BY <2>3, <2>4
<1>4. ASSUME NEW w \in Workers, Begin(w) PROVE TypeInv'
  <2>1. RecorderType'
    BY <1>4, <1>t DEF Begin, BeginResolve, LoadProviderStatuses, RecorderType
  <2> QED BY <1>4, <1>3, <1>s, <2>1 DEF Begin, BeginResolve, dbVars, TypeInv
<1>5. ASSUME NEW w \in Workers, BeginLoadFails(w) PROVE TypeInv'
  <2>1. RecorderType'
    BY <1>5, <1>t DEF BeginLoadFails, BeginResolve, RecorderType, refreshTargets, CallType
  <2> QED BY <1>5, <1>3, <1>s, <2>1 DEF BeginLoadFails, BeginResolve, dbVars, TypeInv
<1>6. ASSUME NEW w \in Workers, NEW p \in Providers, findProviderIPs(w, p) PROVE TypeInv'
  <2>1. Homes[home[p]] \in MaybeEntry
    BY <1>t, HomeType DEF MaybeEntry
  <2>2. CallType'
    BY <1>6, <1>t, <2>1 DEF findProviderIPs, CallType
  <2>3. RecorderType' /\ CallPlace'
    BY <1>6, <1>t DEF findProviderIPs, recorderVars, RecorderType, CallPlace
  <2> QED BY <1>6, <1>s, <2>2, <2>3 DEF findProviderIPs, dbVars, TypeInv
<1>7. ASSUME NEW w \in Workers, NEW p \in Providers, NEW e \in MaybeEntry, Resolved(w, p, e)
      PROVE  /\ available' \in [Workers -> [Providers -> MaybeEntry]]
             /\ resolvedForPersist' \in [Workers -> [Providers -> MaybeEntry]]
             /\ lastKnownIPs' \in [Providers -> MaybeEntry]
  BY <1>7, <1>t DEF Resolved, TypeOK
<1>8. ASSUME NEW w \in Workers, NEW p \in Providers, StoreResolved(w, p) PROVE TypeInv'
  <2>1. found[w][p] \in MaybeEntry /\ NoEntry \in MaybeEntry
    BY <1>t DEF CallType, MaybeEntry
  <2>2. /\ available' \in [Workers -> [Providers -> MaybeEntry]]
        /\ resolvedForPersist' \in [Workers -> [Providers -> MaybeEntry]]
        /\ lastKnownIPs' \in [Providers -> MaybeEntry]
    BY <1>8, <1>7, <2>1 DEF StoreResolved
  <2>3. CallType'
    BY <1>8, <1>t, <2>1, <2>2 DEF StoreResolved, CallType
  <2>4. RecorderType' /\ CallPlace'
    BY <1>8, <1>t DEF StoreResolved, recorderVars, RecorderType, CallPlace
  <2> QED BY <1>8, <1>t, <2>2, <2>3, <2>4 DEF TypeOK, CallType, RecorderType, StoreResolved, dbVars, TypeInv
<1>9. ASSUME NEW w \in Workers, NEW p \in Providers, ResolveFails(w, p) \/ ResolveInvalid(w, p) \/ OverlayFails(w, p)
      PROVE TypeInv'
  <2>1. CallType'
    <3>1. CASE ResolveFails(w, p)
      BY <3>1, <1>t DEF ResolveFails, CallType
    <3>2. CASE ResolveInvalid(w, p)
      BY <3>2, <1>t DEF ResolveInvalid, CallType
    <3>3. CASE OverlayFails(w, p)
      BY <3>3, <1>t DEF OverlayFails, CallType
    <3> QED BY <1>9, <3>1, <3>2, <3>3
  <2>2. RecorderType' /\ CallPlace'
    BY <1>9, <1>t DEF ResolveFails, ResolveInvalid, OverlayFails, recorderVars, RecorderType, CallPlace
  <2> QED BY <1>9, <1>s, <2>1, <2>2 DEF ResolveFails, ResolveInvalid, OverlayFails, dbVars, TypeInv
<1>10. ASSUME NEW w \in Workers, NEW p \in Providers, OverlayFinds(w, p) PROVE TypeInv'
  <2> DEFINE e == [available[w][p] EXCEPT !.stor = available[w][p].prov]
  <2>1. available[w][p] \in Entry
    BY <1>10, <1>t DEF OverlayFinds, overlayTodo, CallType, MaybeEntry
  <2>2. e \in MaybeEntry
    BY <2>1 DEF Entry, MaybeEntry
  <2> HIDE DEF e
  <2>3. Resolved(w, p, e)
    BY <1>10 DEF OverlayFinds, e
  <2>4. /\ available' \in [Workers -> [Providers -> MaybeEntry]]
        /\ resolvedForPersist' \in [Workers -> [Providers -> MaybeEntry]]
        /\ lastKnownIPs' \in [Providers -> MaybeEntry]
    BY <1>7, <2>2, <2>3
  <2>5. CallType'
    BY <1>10, <1>t, <2>4 DEF OverlayFinds, CallType
  <2>6. RecorderType' /\ CallPlace'
    BY <1>10, <1>t DEF OverlayFinds, recorderVars, RecorderType, CallPlace
  <2> QED BY <1>10, <1>t, <2>4, <2>5, <2>6 DEF TypeOK, CallType, RecorderType, OverlayFinds, dbVars, TypeInv
<1>11. ASSUME NEW w \in Workers, RecordIn(w) PROVE RecorderType'
  BY <1>11, <1>t DEF RecordIn, RecordProviderResolves, resolveEvent, resolveRecorded, recorderVars, RecorderType, CallType, Statuses
<1>12. ASSUME NEW w \in Workers, UpdateProvidersIPs(w) PROVE TypeInv'
  <2>1. CallType' /\ CallPlace' /\ spc' \in {"idle", "stale", "reject", "main", "checks", "decide", "retry", "retryChecks", "done"}
    BY <1>12, <1>t, LeaveType, AfterReturnType DEF UpdateProvidersIPs
  <2>2. RecorderType'
    BY <1>12, <1>11 DEF UpdateProvidersIPs
  <2>3. row' \in [Providers -> MaybeEntry] /\ updatedAt' \in [Providers -> {"fresh", "old"}]
    BY <1>12, <1>t DEF UpdateProvidersIPs, TypeOK
  <2> QED BY <1>12, <1>t, <2>1, <2>2, <2>3 DEF TypeOK, CallType, RecorderType, UpdateProvidersIPs, TypeInv
<1>13. ASSUME NEW w \in Workers, UpdateProvidersIPsFails(w) PROVE TypeInv'
  <2>1. CallType' /\ CallPlace' /\ spc' \in {"idle", "stale", "reject", "main", "checks", "decide", "retry", "retryChecks", "done"}
    BY <1>13, <1>t, LeaveType, AfterReturnType DEF UpdateProvidersIPsFails
  <2>2. RecorderType'
    BY <1>13, <1>11 DEF UpdateProvidersIPsFails
  <2> QED BY <1>13, <1>t, <2>1, <2>2 DEF TypeOK, CallType, RecorderType, UpdateProvidersIPsFails, dbVars, TypeInv
<1>14. CASE RefreshEndpointsFull
  <2>1. CallType'
    BY <1>14, <1>t, EnterType DEF RefreshEndpointsFull, Workers
  <2>2. CallPlace' /\ RecorderType'
    BY <1>14, <1>t DEF RefreshEndpointsFull, Enter, CallPlace, CallType, SP, Workers, recorderVars, RecorderType
  <2> QED BY <1>14, <1>s, <2>1, <2>2 DEF RefreshEndpointsFull, dbVars, TypeInv
<1>15. CASE StartStoreProof \/ StartRetry
  <2>1. CallType'
    BY <1>15, <1>t, EnterType, SPIsWorker DEF StartStoreProof, StartRetry, SP, CallType
  <2>2. CallPlace'
    BY <1>15, <1>t DEF StartStoreProof, StartRetry, Enter, CallPlace, CallType, SP, Workers
  <2>3. RecorderType'
    BY <1>15, <1>t DEF StartStoreProof, StartRetry, NewRecorder, NoStatuses, NoEvents, cached, RecorderType
  <2> QED BY <1>15, <1>t, <2>1, <2>2, <2>3 DEF TypeOK, CallType, RecorderType, StartStoreProof, StartRetry, dbVars, TypeInv
<1>16. CASE RejectContracts
  <2>1. CallType' /\ CallPlace' /\ spc' \in {"checks", "main"}
    <3>1. PICK S \in SUBSET scope[SP] :
             IF S = {} THEN /\ spc' = "checks"
                            /\ scope' = [scope EXCEPT !["StoreProof"] = {}]
                            /\ UNCHANGED <<pc, targets, todo, found, notFound, available, resolvedForPersist>>
             ELSE spc' = "main" /\ Enter("StoreProof", S)
      BY <1>16 DEF RejectContracts, SP
    <3>2. S \in SUBSET Providers
      BY <1>t, SPIsWorker DEF CallType
    <3>3. CASE S = {}
      BY <1>16, <1>t, <3>1, <3>3 DEF CallType, CallPlace, RejectContracts, SP, Workers
    <3>4. CASE S # {}
      <4>1. CallType'
        BY <1>t, <3>1, <3>2, <3>4, EnterType, SPIsWorker DEF SP
      <4> QED BY <1>t, <3>1, <3>4, <4>1 DEF Enter, CallPlace, CallType, SP, Workers
    <3> QED BY <3>3, <3>4
  <2>2. RecorderType'
    BY <1>16, <1>t DEF RejectContracts, recorderVars, RecorderType
  <2> QED BY <1>16, <1>t, <2>1, <2>2 DEF TypeOK, CallType, RecorderType, RejectContracts, dbVars, TypeInv
<1>17. CASE RejectFails
  BY <1>17, <1>t DEF RejectFails, dbVars, callVars, recorderVars, TypeInv, TypeOK, CallPlace
<1>18. CASE FlushRecorder \/ FlushRecorderFails
  <2>1. newest' \in [Providers -> SUBSET Statuses]
    BY <1>18, <1>t DEF FlushRecorder, FlushRecorderFails, FlushInserts, FlushFails, TypeOK
  <2>2. RecorderType'
    BY <1>18 DEF FlushRecorder, FlushRecorderFails, AfterChecks, DropRecorder, NoStatuses, NoEvents, RecorderType
  <2>3. CallType' /\ CallPlace'
    BY <1>18, <1>t DEF FlushRecorder, FlushRecorderFails, AfterChecks, callVars, CallType, CallPlace
  <2> QED BY <1>18, <1>t, <2>1, <2>2, <2>3 DEF TypeOK, CallType, RecorderType, FlushRecorder, FlushRecorderFails, AfterChecks, TypeInv
<1>19. CASE Return
  <2>1. RecorderType'
    BY <1>19 DEF Return, DropRecorder, NoStatuses, NoEvents, RecorderType
  <2>2. CallType' /\ CallPlace'
    BY <1>19, <1>t DEF Return, CallType, CallPlace, SP, Workers
  <2> QED BY <1>19, <1>t, <2>1, <2>2 DEF TypeOK, CallType, RecorderType, Return, dbVars, TypeInv
<1>20. CASE Move \/ Others
  <2>1. home' \in [Providers -> 1..Len(Homes)]
    <3>1. CASE Move
      <4>1. PICK p \in Providers : home[p] < Len(Homes) /\ home' = [home EXCEPT ![p] = @ + 1]
        BY <3>1 DEF Move
      <4>2. home[p] + 1 \in 1..Len(Homes)
        BY <4>1, <1>t, EndpointAssumption DEF TypeOK
      <4> QED BY <4>1, <4>2, <1>t DEF TypeOK
    <3>2. CASE Others
      BY <3>2, <1>t DEF Others, Age, UpdateProviders, CleanOldProviderPipelineEvents, TypeOK
    <3> QED BY <1>20, <3>1, <3>2
  <2>2. updatedAt' \in [Providers -> {"fresh", "old"}] /\ newest' \in [Providers -> SUBSET Statuses]
    <3>1. CASE Move
      BY <3>1, <1>t DEF Move, dbVars, TypeOK
    <3>2. CASE Age \/ UpdateProviders
      BY <3>2, <1>t DEF Age, UpdateProviders, TypeOK
    <3>3. CASE CleanOldProviderPipelineEvents
      BY <3>3, <1>t DEF CleanOldProviderPipelineEvents, TypeOK
    <3> QED BY <1>20, <3>1, <3>2, <3>3 DEF Others
  <2>3. UNCHANGED <<row, lastKnownIPs, spc, callVars, recorderVars>>
    BY <1>20 DEF Move, Others, Age, UpdateProviders, CleanOldProviderPipelineEvents, dbVars
  <2> QED BY <1>t, <2>1, <2>2, <2>3 DEF callVars, recorderVars, TypeInv, TypeOK, CallPlace
<1>21. CASE Restart
  <2>1. CallType' /\ CallPlace'
    BY <1>21, NoEntriesType, SPIsWorker DEF Restart, ForAllWorkers, CallType, CallPlace
  <2>2. RecorderType' /\ lastKnownIPs' \in [Providers -> MaybeEntry]
    BY <1>21, NoEntriesType DEF Restart, NoStatuses, NoEvents, RecorderType
  <2> QED BY <1>21, <1>t, <2>1, <2>2 DEF TypeOK, CallType, RecorderType, Restart, dbVars, TypeInv
<1>22. CASE UNCHANGED vars
  BY <1>22, <1>t DEF vars, dbVars, callVars, recorderVars, TypeInv, TypeOK, CallPlace
<1> QED
  BY <1>1, <1>2, <1>4, <1>5, <1>6, <1>8, <1>9, <1>10, <1>12, <1>13, <1>14, <1>15, <1>16,
     <1>17, <1>18, <1>19, <1>20, <1>21, <1>22
  DEF Next, Call, CallFails, StoreProof, StoreProofFails

\* The initial state has its types.
LEMMA TypeInit == Init => TypeInv
<1> SUFFICES ASSUME Init PROVE TypeInv
  OBVIOUS
<1>1. home \in [Providers -> 1..Len(Homes)]
  BY EndpointAssumption DEF Init
<1>2. CallType /\ CallPlace
  BY NoEntriesType, SPIsWorker DEF Init, ForAllWorkers, CallType, CallPlace
<1>3. RecorderType
  BY DEF Init, NoStatuses, NoEvents, RecorderType
<1> QED BY <1>1, <1>2, <1>3, NoEntriesType, TypeParts DEF Init, NoEvents, TypeInv

\* refreshProvidersEndpoints, its callers and its recorder keep their types.
THEOREM TypeCorrect == Spec => []TypeOK
<1>1. Spec => []TypeInv
  BY TypeInit, TypeStep, PTL DEF Spec
<1> QED BY <1>1, PTL DEF TypeInv

-----------------------------------------------------------------------------
\* An endpoint leaves the cache only with the process, which forgets known too.
KnownInv == KnownNeverFails /\ known \subseteq cached

\* A step that takes no endpoint from StoreProof's results or the cache, adds no
\* error and neither starts a call nor a recorder.
LEMMA KnownKept ==
  ASSUME TypeOK, KnownInv,
         known' = known, providerEvents' = providerEvents,
         pc'[SP] = "resolve" => pc[SP] = "resolve",
         pc[SP] = "resolve" => scope'[SP] \subseteq scope[SP],
         \A p \in Providers : available[SP][p] # NoEntry => available'[SP][p] # NoEntry \/ pc'[SP] # "resolve",
         \A p \in Providers : lastKnownIPs[p] # NoEntry => lastKnownIPs'[p] # NoEntry
  PROVE  KnownInv'
BY DEF TypeOK, KnownInv, KnownNeverFails, cached, SP

\* A recorder that has nothing, of providers in the cache.
LEMMA KnownFresh ==
  ASSUME providerEvents' = NoEvents, known' \subseteq Providers, known' \subseteq cached', pc'[SP] # "resolve" \/ known' = {}
  PROVE  KnownInv'
BY DEF KnownInv, KnownNeverFails, NoEvents, SP

\* A resolved endpoint is one.
LEMMA KnownResolved ==
  ASSUME TypeInv, KnownInv, NEW w \in Workers, NEW q \in Providers, NEW e \in Entry, Resolved(w, q, e),
         UNCHANGED <<known, providerEvents, pc, scope>>
  PROVE  KnownInv'
<1>1. e # NoEntry
  BY EndpointAssumption
<1>2. \A p \in Providers : available[SP][p] # NoEntry => available'[SP][p] # NoEntry
  BY <1>1, SPIsWorker DEF Resolved, TypeInv, TypeOK
<1>3. \A p \in Providers : lastKnownIPs[p] # NoEntry => lastKnownIPs'[p] # NoEntry
  BY <1>1 DEF Resolved, TypeInv, TypeOK
<1> QED BY <1>2, <1>3, KnownKept DEF TypeInv

\* The providers of a call that has its cached endpoints.
LEMMA KnownBegun ==
  ASSUME TypeInv, KnownInv, NEW w \in Workers, BeginResolve(w) PROVE KnownInv'
<1>1. CASE w = SP
  <2>1. available'[SP] = availableCached(SP) /\ scope'[SP] = scope[SP]
    BY <1>1, SPIsWorker DEF BeginResolve, TypeInv, TypeOK
  <2>2. \A p \in known : p \in scope[SP] => availableCached(SP)[p] # NoEntry
    BY DEF availableCached, KnownInv, cached, TypeInv, TypeOK
  <2> QED BY <1>1, <2>1, <2>2 DEF BeginResolve, KnownInv, KnownNeverFails, cached, SP
<1>2. CASE w # SP
  <2>1. pc'[SP] = pc[SP] /\ available'[SP] = available[SP] /\ scope' = scope
    BY <1>2, SPIsWorker DEF BeginResolve, TypeInv, TypeOK
  <2> QED BY <2>1, KnownKept DEF BeginResolve, TypeInv
<1> QED BY <1>1, <1>2

\* StoreProof leaves a call; RecordProviderResolve has no error for what is known.
LEMMA KnownRecorded ==
  ASSUME TypeInv, KnownInv, NEW w \in Workers, pc[w] = "resolve", RecordIn(w), Leave(w), UNCHANGED lastKnownIPs
  PROVE  KnownInv'
<1>1. CASE w = SP
  <2>1. pc'[SP] = "none"
    BY <1>1 DEF Leave, TypeInv, TypeOK
  <2>2. \A p \in known : "error" \notin providerEvents'[p]
    <3> SUFFICES ASSUME NEW p \in known PROVE "error" \notin providerEvents'[p]
      OBVIOUS
    <3>1. p \in Providers /\ "error" \notin providerEvents[p]
      BY DEF KnownInv, KnownNeverFails, TypeInv, TypeOK
    <3>2. p \in targets[SP] => available[SP][p] # NoEntry
      BY <1>1 DEF KnownInv, KnownNeverFails, TypeInv, CallPlace, SP
    <3> QED BY <1>1, <3>1, <3>2 DEF RecordIn, RecordProviderResolves, resolveEvent, resolveRecorded, SP
  <2>3. known' = known
    BY <1>1 DEF RecordIn, RecordProviderResolves, SP
  <2> QED BY <2>1, <2>2, <2>3 DEF KnownInv, KnownNeverFails, cached, SP
<1>2. CASE w # SP
  <2>1. pc'[SP] = pc[SP] /\ available'[SP] = available[SP] /\ scope'[SP] = scope[SP]
    BY <1>2, SPIsWorker DEF Leave, TypeInv, TypeOK
  <2> QED BY <1>2, <2>1, KnownKept DEF RecordIn, recorderVars, TypeInv, SP
<1> QED BY <1>1, <1>2

\* Every step keeps what is known usable.
LEMMA KnownStep == TypeInv /\ KnownInv /\ [Next]_vars => KnownInv'
<1> SUFFICES ASSUME TypeInv, KnownInv, [Next]_vars PROVE KnownInv'
  OBVIOUS
<1>t. TypeOK
  BY DEF TypeInv
<1>1. ASSUME NEW w \in Workers, NoneStale(w) \/ EndpointStateFails(w) PROVE KnownInv'
  <2>1. pc'[SP] = "none" \/ (pc'[SP] = pc[SP] /\ available'[SP] = available[SP] /\ scope'[SP] = scope[SP])
    BY <1>1, SPIsWorker DEF NoneStale, EndpointStateFails, Leave, TypeInv, TypeOK
  <2>2. pc[SP] = "resolve" => scope'[SP] \subseteq scope[SP]
    BY <1>1, SPIsWorker DEF NoneStale, EndpointStateFails, Leave, TypeInv, TypeOK
  <2> QED BY <1>1, <1>t, <2>1, <2>2, KnownKept DEF NoneStale, EndpointStateFails, recorderVars
<1>2. ASSUME NEW w \in Workers, Begin(w) \/ BeginLoadFails(w) PROVE KnownInv'
  BY <1>2, KnownBegun DEF Begin, BeginLoadFails
<1>3. ASSUME NEW w \in Workers, UpdateProvidersIPs(w) \/ UpdateProvidersIPsFails(w) PROVE KnownInv'
  BY <1>3, KnownRecorded DEF UpdateProvidersIPs, UpdateProvidersIPsFails
<1>4. ASSUME NEW w \in Workers, NEW p \in Providers,
             findProviderIPs(w, p) \/ ResolveFails(w, p) \/ ResolveInvalid(w, p) \/ OverlayFails(w, p)
      PROVE KnownInv'
  <2>1. UNCHANGED <<lastKnownIPs, pc, scope, available, recorderVars>>
    BY <1>4 DEF findProviderIPs, ResolveFails, ResolveInvalid, OverlayFails
  <2> QED BY <1>t, <2>1, KnownKept DEF recorderVars
<1>5. ASSUME NEW w \in Workers, NEW p \in Providers, StoreResolved(w, p) PROVE KnownInv'
  <2>1. found[w][p] \in Entry
    BY <1>5, <1>t DEF StoreResolved, TypeOK, MaybeEntry
  <2> QED BY <1>5, <2>1, KnownResolved DEF StoreResolved, recorderVars
<1>6. ASSUME NEW w \in Workers, NEW p \in Providers, OverlayFinds(w, p) PROVE KnownInv'
  <2> DEFINE e == [available[w][p] EXCEPT !.stor = available[w][p].prov]
  <2>1. available[w][p] \in Entry
    BY <1>6, <1>t DEF OverlayFinds, overlayTodo, TypeOK, MaybeEntry
  <2>2. e \in Entry
    BY <2>1 DEF Entry
  <2> HIDE DEF e
  <2>3. Resolved(w, p, e)
    BY <1>6 DEF OverlayFinds, e
  <2> QED BY <1>6, <2>2, <2>3, KnownResolved DEF OverlayFinds, recorderVars
<1>7. CASE RefreshEndpointsFull
  <2>1. pc'[SP] = pc[SP] /\ scope'[SP] = scope[SP]
    BY <1>7, <1>t, SPIsWorker DEF RefreshEndpointsFull, Enter, TypeOK, SP
  <2> QED BY <1>7, <1>t, <2>1, KnownKept DEF RefreshEndpointsFull, Enter, recorderVars
<1>8. CASE StartStoreProof \/ StartRetry
  <2>1. pc'[SP] = "state"
    BY <1>8, <1>t, SPIsWorker DEF StartStoreProof, StartRetry, Enter, TypeOK, SP
  <2>2. known' = cached /\ cached' = cached /\ providerEvents' = NoEvents
    BY <1>8 DEF StartStoreProof, StartRetry, NewRecorder, cached
  <2> QED BY <2>1, <2>2, KnownFresh DEF cached
<1>9. CASE RejectContracts
  <2>1. pc[SP] # "resolve" /\ pc'[SP] # "resolve"
    BY <1>9, SPIsWorker DEF RejectContracts, Enter, TypeInv, TypeOK, CallPlace, SP
  <2> QED BY <1>9, <1>t, <2>1, KnownKept DEF RejectContracts, recorderVars
<1>10. CASE FlushRecorder \/ FlushRecorderFails \/ Return \/ Restart
  <2>1. known' = {} /\ providerEvents' = NoEvents
    BY <1>10 DEF FlushRecorder, FlushRecorderFails, AfterChecks, Return, Restart, DropRecorder
  <2> QED BY <2>1, KnownFresh
<1>11. CASE RejectFails \/ Move \/ Others \/ UNCHANGED vars
  <2>1. UNCHANGED <<lastKnownIPs, callVars, recorderVars>>
    BY <1>11 DEF RejectFails, Move, Others, Age, UpdateProviders, CleanOldProviderPipelineEvents, vars
  <2> QED BY <1>t, <2>1, KnownKept DEF callVars, recorderVars
<1> QED
  BY <1>1, <1>2, <1>3, <1>4, <1>5, <1>6, <1>7, <1>8, <1>9, <1>10, <1>11
  DEF Next, Call, CallFails, StoreProof, StoreProofFails

\* A provider in the cache when StoreProof makes a recorder has an endpoint in
\* every call with it and never gets an error event (getLastKnownIP,
\* RecordProviderResolve).
THEOREM KnownIsUsable == Spec => []KnownNeverFails
<1>1. Init => KnownInv
  BY DEF Init, KnownInv, KnownNeverFails
<1>2. Spec => [](TypeInv /\ KnownInv)
  BY <1>1, TypeInit, TypeStep, KnownStep, PTL DEF Spec
<1> QED BY <1>2, PTL DEF KnownInv

-----------------------------------------------------------------------------
\* An error in the buffer is of a provider a call did not resolve.
ErrorsUnclean == \A p \in Providers : "error" \in providerEvents[p] => p \in unclean

\* In the call before the checks every provider is a target, and the recorder
\* knows of an error that is the newest event.
StatusesLoaded ==
  pc[SP] = "resolve" /\ spc \in {"main", "retry"} =>
    /\ targets[SP] = scope[SP]
    /\ \A p \in scope[SP] \ unclean : newest[p] = {"error"} => lastProviderStatus[p] = "error"

\* After that call the answer to such an error is in the buffer.
AnswerBuffered ==
  spc \in {"checks", "retryChecks"} =>
    \A p \in scope[SP] \ unclean : newest[p] = {"error"} => "ok" \in providerEvents[p]

ClearInv == ErrorsUnclean /\ StatusesLoaded /\ AnswerBuffered

\* A step that leaves StoreProof, its call and its recorder where they are and
\* makes no error the newest event.
LEMMA ClearKept ==
  ASSUME TypeOK, ClearInv, UNCHANGED <<spc, recorderVars>>,
         pc'[SP] = pc[SP], targets'[SP] = targets[SP], scope'[SP] = scope[SP],
         \A p \in Providers : newest'[p] = {"error"} => newest[p] = {"error"}
  PROVE  ClearInv'
<1> USE DEF recorderVars
<1>0. scope[SP] \subseteq Providers
  BY SPIsWorker DEF TypeOK
<1>1. ErrorsUnclean'
  BY DEF ClearInv, ErrorsUnclean
<1>2. StatusesLoaded'
  BY <1>0 DEF ClearInv, StatusesLoaded
<1>3. AnswerBuffered'
  BY <1>0 DEF ClearInv, AnswerBuffered
<1> QED BY <1>1, <1>2, <1>3 DEF ClearInv

\* A recorder that has nothing, outside of a call's lookups and of the checks.
LEMMA ClearFresh ==
  ASSUME providerEvents' = NoEvents, pc'[SP] # "resolve" \/ spc' \notin {"main", "retry"},
         spc' \notin {"checks", "retryChecks"}
  PROVE  ClearInv'
BY DEF ClearInv, ErrorsUnclean, StatusesLoaded, AnswerBuffered, NoEvents

\* StoreProof's lookups begin.
LEMMA ClearBegun ==
  ASSUME TypeInv, ClearInv, Begin(SP) \/ BeginLoadFails(SP) PROVE ClearInv'
<1>1. /\ targets'[SP] = refreshTargets(SP) /\ UNCHANGED <<scope, spc, newest, providerEvents>>
      /\ scope[SP] \subseteq Providers
  BY SPIsWorker DEF Begin, BeginLoadFails, BeginResolve, dbVars, TypeInv, TypeOK
<1>2. spc \in {"main", "retry"} => refreshTargets(SP) = scope[SP]
  BY DEF refreshTargets, staleOnly
<1>3. spc \in {"stale", "main", "retry"}
  BY DEF Begin, BeginLoadFails, BeginResolve, TypeInv, CallPlace
<1>4. spc \in {"main", "retry"} =>
        \A p \in scope[SP] \ unclean' : newest[p] = {"error"} => lastProviderStatus'[p] = "error"
  <2>1. CASE Begin(SP)
    <3>1. LoadProviderStatuses(refreshTargets(SP))
      BY <2>1 DEF Begin, SP
    <3> QED BY <1>1, <1>2, <3>1 DEF LoadProviderStatuses
  <2>2. CASE BeginLoadFails(SP)
    BY <1>2, <2>2 DEF BeginLoadFails
  <2> QED BY <2>1, <2>2
<1>5. unclean \subseteq unclean'
  BY DEF Begin, BeginLoadFails
<1> QED BY <1>1, <1>2, <1>3, <1>4, <1>5 DEF ClearInv, ErrorsUnclean, StatusesLoaded, AnswerBuffered

\* StoreProof's call ends with its results recorded.
LEMMA ClearRecorded ==
  ASSUME TypeInv, ClearInv, pc[SP] = "resolve", RecordIn(SP), Leave(SP),
         NEW ok \in BOOLEAN, AfterReturn(SP, ok), UNCHANGED newest
  PROVE  ClearInv'
<1>0. /\ pc'[SP] = "none" /\ scope' = scope /\ scope[SP] \subseteq Providers
      /\ RecordProviderResolves
  BY SPIsWorker DEF Leave, RecordIn, TypeInv, TypeOK, SP
<1>1. ErrorsUnclean'
  BY <1>0 DEF RecordProviderResolves, resolveEvent, ClearInv, ErrorsUnclean, SP
<1>2. StatusesLoaded'
  BY <1>0 DEF StatusesLoaded
<1>3. AnswerBuffered'
  <2> SUFFICES ASSUME spc' \in {"checks", "retryChecks"}, NEW p \in scope[SP] \ unclean', newest[p] = {"error"}
               PROVE  "ok" \in providerEvents'[p]
    BY <1>0 DEF AnswerBuffered
  <2>1. spc \in {"main", "retry"}
    BY DEF AfterReturn, SP
  <2>2. p \in Providers /\ p \notin unclean /\ p \in targets[SP]
    BY <1>0, <2>1 DEF RecordProviderResolves, ClearInv, StatusesLoaded, SP
  <2>3. lastProviderStatus[p] = "error"
    BY <2>1, <2>2 DEF ClearInv, StatusesLoaded
  <2>4. resolveRecorded(p)
    BY <1>0, <2>2 DEF RecordProviderResolves, SP
  <2> QED BY <1>0, <2>2, <2>3, <2>4 DEF RecordProviderResolves, resolveEvent, SP
<1> QED BY <1>1, <1>2, <1>3 DEF ClearInv

\* Every step keeps the buffer in line with the newest events.
LEMMA ClearStep == TypeInv /\ ClearInv /\ [Next]_vars => ClearInv'
<1> SUFFICES ASSUME TypeInv, ClearInv, [Next]_vars PROVE ClearInv'
  OBVIOUS
<1>t. TypeOK
  BY DEF TypeInv
<1>0. ASSUME NEW w \in Workers, w # SP, Call(w) \/ CallFails(w) PROVE ClearInv'
  <2>1. /\ pc'[SP] = pc[SP] /\ targets'[SP] = targets[SP] /\ scope'[SP] = scope[SP]
        /\ UNCHANGED <<spc, newest, recorderVars>>
    <3>1. CASE NoneStale(w) \/ EndpointStateFails(w)
      BY <1>0, <1>t, <3>1, SPIsWorker DEF NoneStale, EndpointStateFails, Leave, AfterReturn, dbVars, recorderVars, TypeOK, SP
    <3>2. CASE Begin(w) \/ BeginLoadFails(w)
      BY <1>0, <1>t, <3>2, SPIsWorker DEF Begin, BeginLoadFails, BeginResolve, dbVars, recorderVars, TypeOK, SP
    <3>3. CASE UpdateProvidersIPs(w) \/ UpdateProvidersIPsFails(w)
      BY <1>0, <1>t, <3>3, SPIsWorker DEF UpdateProvidersIPs, UpdateProvidersIPsFails, Leave, AfterReturn, RecordIn, dbVars, TypeOK, SP
    <3>4. ASSUME NEW p \in Providers,
                 \/ findProviderIPs(w, p) \/ StoreResolved(w, p) \/ ResolveFails(w, p) \/ ResolveInvalid(w, p)
                 \/ OverlayFinds(w, p) \/ OverlayFails(w, p)
          PROVE  UNCHANGED <<pc, targets, scope, spc, newest, recorderVars>>
      BY <3>4 DEF findProviderIPs, StoreResolved, ResolveFails, ResolveInvalid, OverlayFinds, OverlayFails, dbVars
    <3> QED BY <1>0, <3>1, <3>2, <3>3, <3>4 DEF Call, CallFails
  <2> QED BY <1>t, <2>1, ClearKept
<1>1. CASE NoneStale(SP) \/ EndpointStateFails(SP)
  <2>1. /\ pc'[SP] = "none" /\ scope' = scope /\ scope[SP] \subseteq Providers
        /\ UNCHANGED <<newest, providerEvents>> /\ unclean \subseteq unclean'
    BY <1>1, <1>t, SPIsWorker DEF NoneStale, EndpointStateFails, Leave, dbVars, recorderVars, TypeOK, SP
  <2>2. spc' \in {"checks", "retryChecks"} => scope[SP] \subseteq unclean'
    BY <1>1 DEF NoneStale, EndpointStateFails, AfterReturn, staleOnly, SP
  <2> QED BY <2>1, <2>2 DEF ClearInv, ErrorsUnclean, StatusesLoaded, AnswerBuffered
<1>2. CASE Begin(SP) \/ BeginLoadFails(SP)
  BY <1>2, ClearBegun
<1>3. CASE UpdateProvidersIPs(SP) \/ UpdateProvidersIPsFails(SP)
  BY <1>3, ClearRecorded DEF UpdateProvidersIPs, UpdateProvidersIPsFails, dbVars
<1>4. ASSUME NEW p \in Providers,
             \/ findProviderIPs(SP, p) \/ StoreResolved(SP, p) \/ ResolveFails(SP, p) \/ ResolveInvalid(SP, p)
             \/ OverlayFinds(SP, p) \/ OverlayFails(SP, p)
      PROVE ClearInv'
  <2>1. UNCHANGED <<pc, targets, scope, spc, newest, recorderVars>>
    BY <1>4 DEF findProviderIPs, StoreResolved, ResolveFails, ResolveInvalid, OverlayFinds, OverlayFails, dbVars
  <2> QED BY <1>t, <2>1, ClearKept
<1>5. CASE RefreshEndpointsFull
  <2>1. pc'[SP] = pc[SP] /\ scope'[SP] = scope[SP] /\ UNCHANGED <<targets, spc, newest, recorderVars>>
    BY <1>5, <1>t, SPIsWorker DEF RefreshEndpointsFull, Enter, dbVars, TypeOK, SP
  <2> QED BY <1>t, <2>1, ClearKept
<1>6. CASE StartStoreProof \/ StartRetry
  <2>1. pc'[SP] = "state" /\ providerEvents' = NoEvents /\ spc' \in {"stale", "retry"}
    BY <1>6, <1>t, SPIsWorker DEF StartStoreProof, StartRetry, Enter, NewRecorder, TypeOK, SP
  <2> QED BY <2>1, ClearFresh
<1>7. CASE RejectContracts
  <2>1. pc'[SP] # "resolve" /\ UNCHANGED recorderVars
    BY <1>7, <1>t, SPIsWorker DEF RejectContracts, Enter, TypeInv, CallPlace, TypeOK, SP
  <2>2. spc' = "main" \/ (spc' = "checks" /\ scope' = [scope EXCEPT ![SP] = {}])
    BY <1>7 DEF RejectContracts, SP
  <2>3. spc' = "checks" => scope'[SP] = {}
    BY <1>t, <2>2, SPIsWorker DEF TypeOK
  <2> QED BY <2>1, <2>2, <2>3 DEF ClearInv, ErrorsUnclean, StatusesLoaded, AnswerBuffered, recorderVars
<1>8. CASE RejectFails
  BY <1>8 DEF RejectFails, callVars, recorderVars, ClearInv, ErrorsUnclean, StatusesLoaded, AnswerBuffered
<1>9. CASE FlushRecorder \/ FlushRecorderFails \/ Return \/ Restart
  <2>1. providerEvents' = NoEvents /\ spc' \in {"idle", "decide", "done"}
    BY <1>9 DEF FlushRecorder, FlushRecorderFails, AfterChecks, Return, Restart, DropRecorder
  <2> QED BY <2>1, ClearFresh
<1>10. CASE Move \/ Others \/ UNCHANGED vars
  <2>1. UNCHANGED <<spc, callVars, recorderVars>>
    BY <1>10 DEF Move, Others, Age, UpdateProviders, CleanOldProviderPipelineEvents, vars
  <2>2. \A p \in Providers : newest'[p] = {"error"} => newest[p] = {"error"}
    <3>1. CASE CleanOldProviderPipelineEvents
      BY <3>1, <1>t DEF CleanOldProviderPipelineEvents, TypeOK
    <3>2. CASE UNCHANGED newest
      BY <3>2
    <3> QED BY <1>10, <3>1, <3>2 DEF Move, Others, Age, UpdateProviders, vars, dbVars
  <2> QED BY <1>t, <2>1, <2>2, ClearKept DEF callVars
<1> QED
  BY <1>0, <1>1, <1>2, <1>3, <1>4, <1>5, <1>6, <1>7, <1>8, <1>9, <1>10, SPIsWorker
  DEF Next, Call, CallFails, StoreProof, StoreProofFails

\* A cycle whose calls resolved a provider and loaded its last status leaves it
\* with no error as its newest event (LoadProviderStatuses,
\* RecordProviderResolve, Flush).
THEOREM CycleClears == Spec => CleanCycleClears
<1>1. Init => ClearInv
  BY DEF Init, ClearInv, ErrorsUnclean, StatusesLoaded, AnswerBuffered, NoEvents
<1>2. TypeInv /\ ClearInv /\ [Next]_vars => [ClearsResolved]_vars
  <2> SUFFICES ASSUME TypeInv, ClearInv, FlushRecorder PROVE \A p \in scope[SP] \ unclean : newest'[p] # {"error"}
    BY DEF ClearsResolved, SP
  <2> TAKE p \in scope[SP] \ unclean
  <2>1. p \in Providers
    BY SPIsWorker DEF TypeInv, TypeOK
  <2>2. "error" \notin providerEvents[p]
    BY <2>1 DEF ClearInv, ErrorsUnclean
  <2>3. newest[p] = {"error"} => "ok" \in providerEvents[p]
    BY DEF FlushRecorder, AfterChecks, ClearInv, AnswerBuffered
  <2> QED BY <2>1, <2>2, <2>3 DEF FlushRecorder, FlushInserts
<1>3. Spec => [](TypeInv /\ ClearInv)
  BY <1>1, TypeInit, TypeStep, ClearStep, PTL DEF Spec
<1> QED BY <1>2, <1>3, PTL DEF Spec, CleanCycleClears
=============================================================================
