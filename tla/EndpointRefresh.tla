---------------------------- MODULE EndpointRefresh ----------------------------
(***************************************************************************)
(* refreshProvidersEndpoints: where a provider and its storage daemon can  *)
(* be reached.  Two workers run it, StoreProof (stale providers first,     *)
(* then all, then those of a retry) and RefreshEndpointsFull, over one     *)
(* cache of last known endpoints and one table of providers.  StoreProof   *)
(* carries a recorder of provider events through its calls; the rows these *)
(* become are kept as the statuses of the newest insert per provider.      *)
(* An endpoint is an IP; ports and keys follow it.                         *)
(***************************************************************************)
EXTENDS Naturals, Sequences

CONSTANTS
  Providers,
  IPs,
  Homes,       \* the pairs of addresses a provider and its storage have one after the other
  NoEntry      \* no endpoint in the cache, the row or a result

Workers == {"StoreProof", "RefreshEndpointsFull"}
Entry == [prov : IPs, stor : IPs]

ASSUME EndpointAssumption == Homes \in Seq(Entry) /\ Homes # <<>> /\ NoEntry \notin Entry

MaybeEntry == Entry \union {NoEntry}
Statuses == {"ok", "error"}

VARIABLES
  home,                 \* the one of its Homes a provider publishes now
  row, updatedAt,       \* providers.providers: endpoint columns, and whether updated_at is within StaleTTL
  newest,               \* statuses of a provider's newest event rows
  lastKnownIPs,         \* the process's cache
  spc,                  \* where StoreProof is
  pc, scope, targets,   \* a worker's call: where it is, its providers, the ones to resolve
  todo, found,          \* targets not done, and what a lookup has returned for them
  notFound,             \* targets whose lookup failed
  available, resolvedForPersist,
  lastProviderStatus, providerEvents,  \* the recorder
  known,                \* history: providers in the cache when the recorder was made
  unclean               \* history: providers a call with this recorder did not resolve or load

dbVars == <<row, updatedAt, newest>>
callVars == <<pc, scope, targets, todo, found, notFound, available, resolvedForPersist>>
recorderVars == <<lastProviderStatus, providerEvents, known, unclean>>
vars == <<home, dbVars, lastKnownIPs, spc, callVars, recorderVars>>

NoEntries == [p \in Providers |-> NoEntry]
ForAllWorkers(x) == [w \in Workers |-> x]
cached == {p \in Providers : lastKnownIPs[p] # NoEntry}

\* One type invariant: endpoints, call state and recorder.
TypeOK ==
  /\ home \in [Providers -> 1..Len(Homes)]
  /\ row \in [Providers -> MaybeEntry]
  /\ updatedAt \in [Providers -> {"fresh", "old"}]
  /\ newest \in [Providers -> SUBSET Statuses]
  /\ lastKnownIPs \in [Providers -> MaybeEntry]
  /\ spc \in {"idle", "stale", "reject", "main", "checks", "decide", "retry", "retryChecks", "done"}
  /\ pc \in [Workers -> {"none", "state", "resolve"}]
  /\ scope \in [Workers -> SUBSET Providers]
  /\ targets \in [Workers -> SUBSET Providers]
  /\ todo \in [Workers -> SUBSET Providers]
  /\ found \in [Workers -> [Providers -> MaybeEntry]]
  /\ notFound \in [Workers -> SUBSET Providers]
  /\ available \in [Workers -> [Providers -> MaybeEntry]]
  /\ resolvedForPersist \in [Workers -> [Providers -> MaybeEntry]]
  /\ lastProviderStatus \in [Providers -> Statuses \union {"none"}]
  /\ providerEvents \in [Providers -> SUBSET Statuses]
  /\ known \subseteq Providers /\ unclean \subseteq Providers

NoStatuses == [p \in Providers |-> "none"]
NoEvents == [p \in Providers |-> {}]

Init ==
  /\ home = [p \in Providers |-> 1]
  /\ row = NoEntries
  /\ updatedAt = [p \in Providers |-> "old"]
  /\ newest = NoEvents
  /\ lastKnownIPs = NoEntries
  /\ spc = "idle" /\ pc = ForAllWorkers("none")
  /\ scope = ForAllWorkers({}) /\ targets = ForAllWorkers({})
  /\ todo = ForAllWorkers({}) /\ notFound = ForAllWorkers({})
  /\ found = ForAllWorkers(NoEntries)
  /\ available = ForAllWorkers(NoEntries)
  /\ resolvedForPersist = ForAllWorkers(NoEntries)
  /\ lastProviderStatus = NoStatuses /\ providerEvents = NoEvents
  /\ known = {} /\ unclean = {}

-----------------------------------------------------------------------------
(* The call.                                                               *)

\* refreshProvidersEndpoints is entered; without contracts it returns at once.
Enter(w, S) ==
  /\ pc' = [pc EXCEPT ![w] = "state"]
  /\ scope' = [scope EXCEPT ![w] = S]
  /\ UNCHANGED <<targets, todo, found, notFound, available, resolvedForPersist>>

\* What a call kept is gone when it returns.
Leave(w) ==
  /\ pc' = [pc EXCEPT ![w] = "none"]
  /\ targets' = [targets EXCEPT ![w] = {}]
  /\ todo' = [todo EXCEPT ![w] = {}]
  /\ found' = [found EXCEPT ![w] = NoEntries]
  /\ notFound' = [notFound EXCEPT ![w] = {}]
  /\ available' = [available EXCEPT ![w] = NoEntries]
  /\ resolvedForPersist' = [resolvedForPersist EXCEPT ![w] = NoEntries]
  /\ scope' = IF w = "StoreProof" THEN scope ELSE [scope EXCEPT ![w] = {}]

\* NewRecorder.
NewRecorder ==
  /\ lastProviderStatus' = NoStatuses /\ providerEvents' = NoEvents
  /\ known' = cached /\ unclean' = {}

\* Where StoreProof goes on when its call returns: an error of the stale-first
\* or the retry refresh is a warning, one of the main refresh ends the cycle,
\* and its recorder is never flushed.
AfterReturn(w, ok) ==
  \/ w # "StoreProof" /\ UNCHANGED spc
  \/ /\ w = "StoreProof"
     /\ \/ spc = "stale" /\ spc' = "reject"
        \/ spc = "main" /\ spc' = IF ok THEN "checks" ELSE "done"
        \/ spc = "retry" /\ spc' = "retryChecks"

staleOnly(w) == w = "StoreProof" /\ spc = "stale"

isEndpointStateStale(p) == row[p] = NoEntry \/ updatedAt[p] # "fresh"

refreshTargets(w) == {p \in scope[w] : staleOnly(w) => isEndpointStateStale(p)}

\* No provider is stale: the stale-first call returns.
NoneStale(w) ==
  /\ pc[w] = "state" /\ staleOnly(w) /\ refreshTargets(w) = {}
  /\ Leave(w) /\ AfterReturn(w, TRUE)
  /\ UNCHANGED <<home, dbVars, lastKnownIPs, recorderVars>>

EndpointStateFails(w) ==
  /\ pc[w] = "state"
  /\ Leave(w) /\ AfterReturn(w, FALSE)
  /\ unclean' = IF w = "StoreProof" /\ ~staleOnly(w) THEN unclean \union scope[w] ELSE unclean
  /\ UNCHANGED <<home, dbVars, lastKnownIPs, lastProviderStatus, providerEvents, known>>

\* Mutant: the call starts from nothing and waits for its own lookups.
availableEmpty(w) == NoEntries

\* What a call has before any lookup: the cached endpoints of its providers.
availableCached(w) == [p \in Providers |-> IF p \in scope[w] THEN lastKnownIPs[p] ELSE NoEntry]

\* GetProvidersEndpointState chooses the targets, and the cache is copied.  One
\* step: what changes between the two could as well have changed before or after.
BeginResolve(w) ==
  /\ pc[w] = "state" /\ (staleOnly(w) => refreshTargets(w) # {})
  /\ pc' = [pc EXCEPT ![w] = "resolve"]
  /\ targets' = [targets EXCEPT ![w] = refreshTargets(w)]
  /\ todo' = [todo EXCEPT ![w] = refreshTargets(w)]
  /\ available' = [available EXCEPT ![w] = availableCached(w)]
  /\ UNCHANGED <<home, dbVars, lastKnownIPs, spc, scope, found, notFound,
                 resolvedForPersist, providerEvents, known>>

\* LoadProviderStatuses: the recorder's map is replaced by the newest status of
\* each target.  Rows of one insert have one created_at, and the query takes any.
LoadProviderStatuses(T) ==
  \E s \in [Providers -> Statuses \union {"none"}] :
    /\ \A p \in Providers :
         IF p \in T /\ newest[p] # {} THEN s[p] \in newest[p] ELSE s[p] = "none"
    /\ lastProviderStatus' = s

Begin(w) ==
  /\ BeginResolve(w)
  /\ IF w = "StoreProof" THEN LoadProviderStatuses(refreshTargets(w)) ELSE UNCHANGED lastProviderStatus
  /\ UNCHANGED unclean

\* A failed load is a warning: the recorder keeps the map it has.
BeginLoadFails(w) ==
  /\ w = "StoreProof" /\ BeginResolve(w)
  /\ unclean' = unclean \union refreshTargets(w)
  /\ UNCHANGED lastProviderStatus

\* findProviderIPs has returned what the provider and the DHT say now; the
\* goroutine has not taken the lock yet.
findProviderIPs(w, p) ==
  /\ pc[w] = "resolve" /\ p \in todo[w] /\ found[w][p] = NoEntry
  /\ found' = [found EXCEPT ![w][p] = Homes[home[p]]]
  /\ UNCHANGED <<home, dbVars, lastKnownIPs, spc, pc, scope, targets, todo, notFound,
                 available, resolvedForPersist, recorderVars>>

\* A resolved endpoint goes into the results, the batch to save and the cache.
Resolved(w, p, e) ==
  /\ available' = [available EXCEPT ![w][p] = e]
  /\ resolvedForPersist' = [resolvedForPersist EXCEPT ![w][p] = e]
  /\ lastKnownIPs' = [lastKnownIPs EXCEPT ![p] = e]

StoreResolved(w, p) ==
  /\ pc[w] = "resolve" /\ p \in todo[w] /\ found[w][p] # NoEntry
  /\ Resolved(w, p, found[w][p])
  /\ todo' = [todo EXCEPT ![w] = @ \ {p}]
  /\ found' = [found EXCEPT ![w][p] = NoEntry]
  /\ UNCHANGED <<home, dbVars, spc, pc, scope, targets, notFound, recorderVars>>

\* The lookup failed; half a result is dropped.
ResolveFails(w, p) ==
  /\ pc[w] = "resolve" /\ p \in todo[w] /\ found[w][p] = NoEntry
  /\ todo' = [todo EXCEPT ![w] = @ \ {p}]
  /\ notFound' = [notFound EXCEPT ![w] = @ \union {p}]
  /\ UNCHANGED <<home, dbVars, lastKnownIPs, spc, pc, scope, targets, found, available,
                 resolvedForPersist, recorderVars>>

\* The lookup returned an endpoint that is not usable (no port, no key): no
\* error, no result, and no overlay search either.
ResolveInvalid(w, p) ==
  /\ pc[w] = "resolve" /\ p \in todo[w] /\ found[w][p] = NoEntry
  /\ todo' = [todo EXCEPT ![w] = @ \ {p}]
  /\ UNCHANGED <<home, dbVars, lastKnownIPs, spc, pc, scope, targets, found, notFound,
                 available, resolvedForPersist, recorderVars>>

\* Failed lookups the overlay search can help: only a cached endpoint has the
\* provider IP it compares with.
overlayTodo(w) == {p \in notFound[w] : available[w][p] # NoEntry}

\* findStorageIPOverlay: a peer of one of the provider's bags has that IP.
OverlayFinds(w, p) ==
  /\ pc[w] = "resolve" /\ todo[w] = {} /\ p \in overlayTodo(w)
  /\ Resolved(w, p, [available[w][p] EXCEPT !.stor = available[w][p].prov])
  /\ notFound' = [notFound EXCEPT ![w] = @ \ {p}]
  /\ UNCHANGED <<home, dbVars, spc, pc, scope, targets, todo, found, recorderVars>>

OverlayFails(w, p) ==
  /\ pc[w] = "resolve" /\ todo[w] = {} /\ p \in overlayTodo(w)
  /\ notFound' = [notFound EXCEPT ![w] = @ \ {p}]
  /\ UNCHANGED <<home, dbVars, lastKnownIPs, spc, pc, scope, targets, todo, found,
                 available, resolvedForPersist, recorderVars>>

\* What RecordProviderResolve is told about a target.
resolveRecorded(p) == available["StoreProof"][p] # NoEntry

\* Mutant: a success is recorded only when this recorder saw the failure.
resolveEventOwn(p) ==
  IF ~resolveRecorded(p) THEN {"error"}
  ELSE IF "error" \in providerEvents[p] THEN {"ok"} ELSE {}

\* RecordProviderResolve: every failure is an event, a success only after one.
resolveEvent(p) ==
  IF ~resolveRecorded(p) THEN {"error"}
  ELSE IF lastProviderStatus[p] = "error" THEN {"ok"} ELSE {}

RecordProviderResolves ==
  LET of(p) == IF p \in targets["StoreProof"] THEN resolveEvent(p) ELSE {}
  IN /\ providerEvents' = [p \in Providers |-> providerEvents[p] \union of(p)]
     /\ lastProviderStatus' = [p \in Providers |->
          IF "error" \in of(p) THEN "error" ELSE IF "ok" \in of(p) THEN "ok" ELSE lastProviderStatus[p]]
     /\ unclean' = unclean \union {p \in targets["StoreProof"] : ~resolveRecorded(p)}
     /\ UNCHANGED known

RecordIn(w) == IF w = "StoreProof" THEN RecordProviderResolves ELSE UNCHANGED recorderVars

\* Mutant: only rows that have an endpoint are updated.
ipsExisting(w) == {p \in Providers : resolvedForPersist[w][p] # NoEntry /\ row[p] # NoEntry}

\* The rows to save.
ips(w) == {p \in Providers : resolvedForPersist[w][p] # NoEntry}

\* UpdateProvidersIPs in one statement; the call returns.
UpdateProvidersIPs(w) ==
  /\ pc[w] = "resolve" /\ todo[w] = {} /\ overlayTodo(w) = {}
  /\ RecordIn(w)
  /\ row' = [p \in Providers |-> IF p \in ips(w) THEN resolvedForPersist[w][p] ELSE row[p]]
  /\ updatedAt' = [p \in Providers |-> IF p \in ips(w) THEN "fresh" ELSE updatedAt[p]]
  /\ Leave(w) /\ AfterReturn(w, TRUE)
  /\ UNCHANGED <<home, newest, lastKnownIPs>>

\* The statement fails: the cache has the endpoints, the table has not.
UpdateProvidersIPsFails(w) ==
  /\ pc[w] = "resolve" /\ todo[w] = {} /\ overlayTodo(w) = {}
  /\ ips(w) # {}
  /\ RecordIn(w)
  /\ Leave(w) /\ AfterReturn(w, FALSE)
  /\ UNCHANGED <<home, dbVars, lastKnownIPs>>

-----------------------------------------------------------------------------
(* The workers.                                                            *)

\* RefreshEndpointsFull wakes up and reads the contracts.
RefreshEndpointsFull ==
  /\ pc["RefreshEndpointsFull"] = "none"
  /\ \E S \in SUBSET Providers \ {{}} : Enter("RefreshEndpointsFull", S)
  /\ UNCHANGED <<home, dbVars, lastKnownIPs, spc, recorderVars>>

\* StoreProof makes a recorder, reads the contracts and starts the stale-first pass.
StartStoreProof ==
  /\ spc = "idle" /\ spc' = "stale"
  /\ NewRecorder
  /\ \E S \in SUBSET Providers \ {{}} : Enter("StoreProof", S)
  /\ UNCHANGED <<home, dbVars, lastKnownIPs>>

\* updateRejectedContracts may drop providers; without any the refresh returns at once.
RejectContracts ==
  /\ spc = "reject"
  /\ \E S \in SUBSET scope["StoreProof"] :
       IF S = {} THEN /\ spc' = "checks"
                      /\ scope' = [scope EXCEPT !["StoreProof"] = {}]
                      /\ UNCHANGED <<pc, targets, todo, found, notFound, available, resolvedForPersist>>
       ELSE spc' = "main" /\ Enter("StoreProof", S)
  /\ UNCHANGED <<home, dbVars, lastKnownIPs, recorderVars>>

\* A failed updateRejectedContracts ends the cycle.
RejectFails ==
  /\ spc = "reject" /\ spc' = "done"
  /\ UNCHANGED <<home, dbVars, lastKnownIPs, callVars, recorderVars>>

\* Flush: one insert, so one created_at, or nothing when it fails.
FlushInserts ==
  newest' = [p \in Providers |-> IF providerEvents[p] # {} THEN providerEvents[p] ELSE newest[p]]

FlushFails == providerEvents # NoEvents /\ UNCHANGED newest

\* The recorder is not used again.
DropRecorder ==
  /\ lastProviderStatus' = NoStatuses /\ providerEvents' = NoEvents
  /\ known' = {} /\ unclean' = {}

\* The checks and the writes of a pass are over, in one way or another, and its
\* recorder is flushed.  After a failed write of the main pass there is no retry.
AfterChecks ==
  /\ \/ spc = "checks" /\ spc' \in {"decide", "done"}
     \/ spc = "retryChecks" /\ spc' = "done"
  /\ DropRecorder
  /\ UNCHANGED <<home, row, updatedAt, lastKnownIPs, callVars>>

FlushRecorder == AfterChecks /\ FlushInserts
FlushRecorderFails == AfterChecks /\ FlushFails

\* The retry refreshes the providers of pending bags with a recorder of its own.
StartRetry ==
  /\ spc = "decide" /\ spc' = "retry"
  /\ NewRecorder
  /\ \E S \in SUBSET scope["StoreProof"] \ {{}} : Enter("StoreProof", S)
  /\ UNCHANGED <<home, dbVars, lastKnownIPs>>

\* StoreProof returns: from "decide" when nothing is pending, no time is left or
\* the wait was cancelled.  A recorder that was not flushed is lost.
Return ==
  /\ spc \in {"decide", "done"} /\ spc' = "idle"
  /\ DropRecorder
  /\ scope' = [scope EXCEPT !["StoreProof"] = {}]
  /\ UNCHANGED <<home, dbVars, lastKnownIPs, pc, targets, todo, found, notFound,
                 available, resolvedForPersist>>

-----------------------------------------------------------------------------
(* The others.                                                             *)

\* A provider comes back with other addresses.
Move ==
  /\ \E p \in Providers : home[p] < Len(Homes) /\ home' = [home EXCEPT ![p] = @ + 1]
  /\ UNCHANGED <<dbVars, lastKnownIPs, spc, callVars, recorderVars>>

\* StaleTTL passes since updated_at.
Age ==
  /\ \E p \in Providers : updatedAt[p] = "fresh" /\ updatedAt' = [updatedAt EXCEPT ![p] = "old"]
  /\ UNCHANGED <<home, row, newest, lastKnownIPs, spc, callVars, recorderVars>>

\* UpdateProviders saves a provider's rates and sets the same updated_at.
UpdateProviders ==
  /\ \E p \in Providers : updatedAt' = [updatedAt EXCEPT ![p] = "fresh"]
  /\ UNCHANGED <<home, row, newest, lastKnownIPs, spc, callVars, recorderVars>>

\* The cleaner removes old events: the newest ones go last, and together.
CleanOldProviderPipelineEvents ==
  /\ \E p \in Providers : newest[p] # {} /\ newest' = [newest EXCEPT ![p] = {}]
  /\ UNCHANGED <<home, row, updatedAt, lastKnownIPs, spc, callVars, recorderVars>>

\* The process is restarted: the cache and everything in flight are gone.
Restart ==
  /\ lastKnownIPs' = NoEntries
  /\ spc' = "idle" /\ pc' = ForAllWorkers("none")
  /\ scope' = ForAllWorkers({}) /\ targets' = ForAllWorkers({})
  /\ todo' = ForAllWorkers({}) /\ notFound' = ForAllWorkers({})
  /\ found' = ForAllWorkers(NoEntries)
  /\ available' = ForAllWorkers(NoEntries)
  /\ resolvedForPersist' = ForAllWorkers(NoEntries)
  /\ lastProviderStatus' = NoStatuses /\ providerEvents' = NoEvents
  /\ known' = {} /\ unclean' = {}
  /\ UNCHANGED <<home, dbVars>>

-----------------------------------------------------------------------------
\* A call goes on as it should; it fails.
Call(w) ==
  \/ NoneStale(w) \/ Begin(w) \/ UpdateProvidersIPs(w)
  \/ \E p \in Providers : findProviderIPs(w, p) \/ StoreResolved(w, p)

CallFails(w) ==
  \/ EndpointStateFails(w) \/ BeginLoadFails(w) \/ UpdateProvidersIPsFails(w)
  \/ \E p \in Providers : \/ ResolveFails(w, p) \/ ResolveInvalid(w, p)
                          \/ OverlayFinds(w, p) \/ OverlayFails(w, p)

StoreProof ==
  StartStoreProof \/ RejectContracts \/ FlushRecorder \/ StartRetry \/ Return

StoreProofFails == RejectFails \/ FlushRecorderFails

Others == Age \/ UpdateProviders \/ CleanOldProviderPipelineEvents

Next ==
  \/ \E w \in Workers : Call(w) \/ CallFails(w)
  \/ StoreProof \/ StoreProofFails \/ RefreshEndpointsFull
  \/ Others \/ Move \/ Restart

Spec == Init /\ [][Next]_vars

\* Each worker's loop goes on: lookups have timeouts, SQL statements have none but
\* are taken to return in the end, and the loop waits a bounded time between runs.
StoreProofStep == Call("StoreProof") \/ CallFails("StoreProof") \/ StoreProof \/ StoreProofFails
FullStep == \/ Call("RefreshEndpointsFull") \/ CallFails("RefreshEndpointsFull")
            \/ RefreshEndpointsFull
FairSpec == Spec /\ WF_vars(StoreProofStep) /\ WF_vars(FullStep)

-----------------------------------------------------------------------------
(* Properties.                                                             *)

\* A provider that was in the cache when a recorder was made has an endpoint in
\* every call with that recorder, and no error event, whatever its lookups
\* return and whatever the other worker does to the cache meanwhile.
KnownNeverFails ==
  \A p \in known :
    /\ pc["StoreProof"] = "resolve" /\ p \in scope["StoreProof"] => available["StoreProof"][p] # NoEntry
    /\ "error" \notin providerEvents[p]

\* A flush leaves no provider with nothing but an error as its newest event if
\* every call with the recorder resolved it and knew its last status.
ClearsResolved ==
  FlushRecorder =>
    \A p \in scope["StoreProof"] \ unclean : newest'[p] # {"error"}
CleanCycleClears == [][ClearsResolved]_vars

\* Steps of a time without faults in which every provider keeps its contracts.
Regular ==
  \/ \E w \in Workers : Call(w)
  \/ StoreProof /\ (spc \in {"idle", "reject"} => scope'["StoreProof"] = Providers)
  \/ RefreshEndpointsFull \/ Others

\* Once lookups and writes succeed and providers stay where they are, cache and
\* table hold the published endpoints, whichever worker wrote them last and
\* however fresh UpdateProviders keeps the rows; no further error is recorded; and
\* an error does not stay the only newest event of a provider, whatever stale
\* statuses or lost flushes did.  An error and an ok of one insert may stay: they
\* have one created_at, LoadProviderStatuses reads either as the last, and when it
\* reads the ok nothing is recorded that would follow them.
EndpointsConverge ==
  <>[][Regular]_vars =>
    <>[](\A p \in Providers : /\ row[p] = Homes[home[p]] /\ lastKnownIPs[p] = Homes[home[p]]
                               /\ newest[p] # {"error"} /\ "error" \notin providerEvents[p])
=============================================================================
