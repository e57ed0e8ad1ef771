--------------------------- MODULE StoreProofEvents ---------------------------
(***************************************************************************)
(* StoreProof composed with its pipeline-event recorder: the bag events a  *)
(* pass records, the buffer they wait in, and the rows of                  *)
(* bag_pipeline_events they end up in when a Flush succeeds.  Only the     *)
(* newest event of a bag is kept: the triage queries look at nothing else. *)
(* The provider events of the endpoint refresh are not part of this model. *)
(***************************************************************************)
EXTENDS StoreProof

VARIABLES
  prior,       \* rel.Reason: the public reason when the cycle read the rows
  bagEvents,   \* the recorder's buffer
  lastEvent,   \* status of the newest event row of each bag
  lost         \* history: bags whose newest event was dropped before it was a row

eventVars == <<prior, bagEvents, lastEvent, lost>>
allVars == <<vars, eventVars>>

NoEvents == [c \in Contracts |-> "none"]

IsErrorReason(r) == r \notin {NoReason, "ValidStorageProof"}

EventsInit ==
  /\ Init
  /\ prior = NoResults
  /\ bagEvents = NoEvents /\ lastEvent = NoEvents
  /\ lost = {}

\* RecordBagTransition: every error is recorded, a success only when the row
\* the cycle read had an error.
RecordBagTransition(prev, new) ==
  IF IsErrorReason(new) THEN "error" ELSE IF IsErrorReason(prev) THEN "ok" ELSE "none"

Record(todo, results) ==
  bagEvents' = [c \in Contracts |->
                  IF c \in todo THEN RecordBagTransition(prior[c], results[c]) ELSE bagEvents[c]]

Buffered == {c \in Contracts : bagEvents[c] # "none"}

\* Mutant: the buffer is cleared before the insert.
FlushEmpty == bagEvents' = NoEvents /\ UNCHANGED <<lastEvent, lost>>

\* One insert; without events there is no call.
InsertBagPipelineEvents ==
  /\ Buffered # {} => ~cancelled
  /\ lastEvent' = [c \in Contracts |-> IF c \in Buffered THEN bagEvents[c] ELSE lastEvent[c]]

\* Flush: when the insert fails the events are dropped with a warning.
Flush ==
  /\ bagEvents' = NoEvents
  /\ \/ InsertBagPipelineEvents /\ lost' = lost \ Buffered
     \/ /\ Buffered # {}
        /\ lost' = lost \union Buffered
        /\ UNCHANGED lastEvent

\* StoreProof's steps with what each does to the recorder.
EventsStart == StartCycle /\ prior' = reason /\ UNCHANGED <<bagEvents, lastEvent, lost>>

EventsRunMain ==
  /\ RunMain \/ RunMainUnresolved
  /\ Record(contracts, mainResults')
  /\ UNCHANGED <<prior, lastEvent, lost>>

EventsRunRetry ==
  /\ RunRetry \/ RunRetryUnresolved
  /\ Record(pending, retryResults')
  /\ UNCHANGED <<prior, lastEvent, lost>>

EventsFlushMain ==
  /\ CommitMainFails \/ StatusMain \/ StatusMainFails
  /\ Flush
  /\ prior' = IF pc' = "sleep" THEN NoResults ELSE prior

EventsFlushRetry ==
  /\ CommitFinalFails("retry") \/ StatusFinal("retry") \/ StatusFinalFails("retry")
  /\ Flush
  /\ prior' = NoResults

\* Returns that leave no event behind: the recorder is empty there.
EventsReturn ==
  /\ \/ AbortBeforeCommit \/ NothingDeferred
     \/ \E path \in FinalPath \ {"retry"} :
          CommitFinalFails(path) \/ StatusFinal(path) \/ StatusFinalFails(path)
  /\ prior' = NoResults
  /\ UNCHANGED <<bagEvents, lastEvent, lost>>

EventsOther ==
  /\ \/ StartCycleFails
     \/ \E closed \in SUBSET contracts : updateRejectedContracts(closed)
     \/ \E resolved \in SUBSET Providers : updateProvidersIPs(resolved)
     \/ CommitMain
     \/ ScheduleRetry \/ SkipRetry \/ WaitElapsed \/ WaitCancelled
     \/ \E refreshed \in SUBSET Providers : refreshForRetry(refreshed)
     \/ RunRetryFails
     \/ \E path \in FinalPath : CommitFinal(path)
  /\ UNCHANGED eventVars

EventsTick == Tick /\ UNCHANGED eventVars

EventsAround ==
  /\ Cancel \/ \E c \in Contracts : AddStorageContracts(c)
  /\ UNCHANGED eventVars

EventsCrash ==
  /\ Crash
  /\ prior' = NoResults
  /\ bagEvents' = NoEvents
  /\ lost' = lost \union Buffered
  /\ UNCHANGED lastEvent

EventsWorker ==
  \/ EventsStart \/ EventsRunMain \/ EventsRunRetry
  \/ EventsFlushMain \/ EventsFlushRetry \/ EventsReturn
  \/ EventsOther

EventsNext == EventsWorker \/ EventsTick \/ EventsAround \/ EventsCrash

EventsSpec == EventsInit /\ [][EventsNext]_allVars

\* The fairness of StoreProof: the worker's goroutine runs and time passes.
EventsFairSpec == EventsSpec /\ WF_allVars(EventsWorker) /\ WF_allVars(EventsTick)

-----------------------------------------------------------------------------
(* Properties *)

\* After a completed cycle every bag that is publicly failed has an error as its
\* newest pipeline event, unless a failed insert or a crash lost that event
\* (RecordBagTransition, Flush and the order of the writes in StoreProof).
ErrorHasEvent ==
  pc = "sleep" /\ ~shortSleep =>
    \A c \in rows \ lost : IsErrorReason(reason[c]) => lastEvent[c] = "error"
=============================================================================
