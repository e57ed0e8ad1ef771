---------------------------- MODULE ProviderCheck ----------------------------
(***************************************************************************)
(* The agent's check of one provider (checkProviderFiles): a dispatcher    *)
(* hands bags to a few workers, which share one ADNL peer behind a gate    *)
(* (peerGate), the time of its last answer (peerPingState) and a tally of  *)
(* failures that skips the rest of a provider that seems dead.             *)
(*                                                                         *)
(* The failure codes of checkPiece are abstracted to "Failed": the tally   *)
(* tells only successes and failures apart.  The slot of the GetPiece call *)
(* is PieceLimit's; here a worker gets it sooner or later.                 *)
(***************************************************************************)
EXTENDS Integers, FiniteSets

CONSTANTS
  Count,        \* len(contracts)
  Workers       \* the bag workers: at most MaxConcurrentBags and at most Count

ASSUME ProviderCheckAssumption ==
  /\ Count \in Nat \ {0}
  /\ IsFiniteSet(Workers) /\ Workers # {}

\* skipFailureThresholdPercent = 20 of the contracts (float32 rounds to the same).
threshold == (Count * 20) \div 100

VARIABLES
  dpc, next,               \* the dispatcher and the bag it is at
  pc, job, ok, connClosed, \* the workers' locals
  results,
  failsInARow, stopped,    \* failureTally
  inflight, dirty,         \* peerGate
  pingFresh,               \* peerPingState: an answer within pingCacheTTL
  connUp, epoch,           \* the peer's connection, and how often it was rebuilt
  startedAt,               \* history: the epoch in which a worker's check began
  ctxDone                  \* the job's deadline has passed

tallyVars == <<failsInARow, stopped>>
gateVars == <<inflight, dirty, epoch, startedAt>>
localVars == <<job, ok, connClosed>>
vars == <<dpc, next, pc, job, ok, connClosed, results, failsInARow, stopped, inflight,
          dirty, pingFresh, connUp, epoch, startedAt, ctxDone>>

Bags == 1..Count
WorkerPCs == {"idle", "start", "ping", "info", "slot", "piece", "end", "record", "exit"}

\* Between gate.begin and gate.end.
InCheck == {w \in Workers : pc[w] \in {"ping", "info", "slot", "piece", "end"}}

TypeOK ==
  /\ dpc \in {"setup", "look", "offer", "closed", "done"}
  /\ next \in 1..Count + 1
  /\ pc \in [Workers -> WorkerPCs]
  /\ job \in [Workers -> Bags]
  /\ ok \in [Workers -> BOOLEAN] /\ connClosed \in [Workers -> BOOLEAN]
  /\ results \in [Bags -> {"none", "ValidStorageProof", "Failed", "UnavailableProvider"}]
  /\ failsInARow \in Nat /\ stopped \in BOOLEAN
  /\ inflight \in Nat /\ dirty \in BOOLEAN
  /\ pingFresh \in BOOLEAN /\ connUp \in BOOLEAN /\ ctxDone \in BOOLEAN
  /\ epoch \in Nat /\ startedAt \in [Workers -> Nat]

Init ==
  /\ dpc = "setup" /\ next = 1
  /\ pc = [w \in Workers |-> "idle"]
  /\ job = [w \in Workers |-> 1]
  /\ ok = [w \in Workers |-> FALSE] /\ connClosed = [w \in Workers |-> FALSE]
  /\ results = [i \in Bags |-> "none"]
  /\ failsInARow = 0 /\ stopped = FALSE
  /\ inflight = 0 /\ dirty = FALSE
  /\ pingFresh = TRUE /\ connUp = TRUE
  /\ epoch = 0 /\ startedAt = [w \in Workers |-> 0]
  /\ ctxDone = FALSE

Goto(w, to) == pc' = [pc EXCEPT ![w] = to]

-----------------------------------------------------------------------------
(* checkProviderFiles: the dispatcher *)

\* No gateway, no peer, or no answer to the first ping: all bags fail alike.
SetupFails ==
  /\ dpc = "setup"
  /\ results' = [i \in Bags |-> "Failed"]
  /\ dpc' = "done"
  /\ UNCHANGED <<next, pc, localVars, tallyVars, gateVars, pingFresh, connUp, ctxDone>>

Setup ==
  /\ dpc = "setup" /\ ~ctxDone
  /\ dpc' = "look"
  /\ UNCHANGED <<next, pc, localVars, results, tallyVars, gateVars, pingFresh, connUp, ctxDone>>

\* Mutant: a skipped bag gets no result.
DispatchSkipSilent ==
  /\ dpc = "look" /\ next <= Count /\ stopped
  /\ next' = next + 1
  /\ UNCHANGED <<dpc, pc, localVars, results, tallyVars, gateVars, pingFresh, connUp, ctxDone>>

\* The tally has stopped: recordSkip.
DispatchSkip ==
  /\ dpc = "look" /\ next <= Count /\ stopped
  /\ results' = [results EXCEPT ![next] = "UnavailableProvider"]
  /\ next' = next + 1
  /\ UNCHANGED <<dpc, pc, localVars, tallyVars, gateVars, pingFresh, connUp, ctxDone>>

DispatchOffer ==
  /\ dpc = "look" /\ next <= Count /\ ~stopped
  /\ dpc' = "offer"
  /\ UNCHANGED <<next, pc, localVars, results, tallyVars, gateVars, pingFresh, connUp, ctxDone>>

\* The unbuffered channel jobs: the dispatcher meets a worker that is ready.
Hand(w) ==
  /\ dpc = "offer" /\ pc[w] = "idle"
  /\ job' = [job EXCEPT ![w] = next]
  /\ Goto(w, "start")
  /\ next' = next + 1
  /\ dpc' = "look"
  /\ UNCHANGED <<ok, connClosed, results, tallyVars, gateVars, pingFresh, connUp, ctxDone>>

\* close(jobs)
CloseJobs ==
  /\ dpc = "look" /\ next = Count + 1
  /\ dpc' = "closed"
  /\ UNCHANGED <<next, pc, localVars, results, tallyVars, gateVars, pingFresh, connUp, ctxDone>>

\* wg.Wait returns.
Return ==
  /\ dpc = "closed" /\ \A w \in Workers : pc[w] = "exit"
  /\ dpc' = "done"
  /\ UNCHANGED <<next, pc, localVars, results, tallyVars, gateVars, pingFresh, connUp, ctxDone>>

-----------------------------------------------------------------------------
(* A worker *)

Skip(w) ==
  /\ pc[w] = "start" /\ stopped
  /\ results' = [results EXCEPT ![job[w]] = "UnavailableProvider"]
  /\ Goto(w, "idle")
  /\ UNCHANGED <<dpc, next, localVars, tallyVars, gateVars, pingFresh, connUp, ctxDone>>

\* Mutant: the worker does not look at the tally again.
BeginAnyway(w) ==
  /\ pc[w] = "start"
  /\ inflight' = inflight + 1
  /\ startedAt' = [startedAt EXCEPT ![w] = epoch]
  /\ connClosed' = [connClosed EXCEPT ![w] = FALSE]
  /\ Goto(w, IF pingFresh THEN "info" ELSE "ping")
  /\ UNCHANGED <<dpc, next, job, ok, results, tallyVars, dirty, epoch, pingFresh, connUp, ctxDone>>

\* The tally is asked, the gate entered (begin) and the ping state looked up.
Begin(w) ==
  /\ pc[w] = "start" /\ ~stopped
  /\ LET rebuild == dirty /\ inflight = 0
     IN  /\ epoch' = IF rebuild THEN epoch + 1 ELSE epoch
         /\ dirty' = (dirty /\ ~rebuild)
         /\ connUp' = (connUp \/ rebuild)
  /\ inflight' = inflight + 1
  /\ startedAt' = [startedAt EXCEPT ![w] = epoch']
  /\ connClosed' = [connClosed EXCEPT ![w] = FALSE]
  /\ Goto(w, IF pingFresh THEN "info" ELSE "ping")
  /\ UNCHANGED <<dpc, next, job, ok, results, tallyVars, pingFresh, ctxDone>>

\* A query fails: it timed out, or the connection is closed.
QueryFails(w, closed) ==
  /\ closed => ~connUp
  /\ ok' = [ok EXCEPT ![w] = FALSE]
  /\ connClosed' = [connClosed EXCEPT ![w] = closed]
  /\ pingFresh' = FALSE
  /\ Goto(w, "end")

\* A failure that says nothing about the connection: a wrong answer, no slot.
FailsQuietly(w) ==
  /\ ok' = [ok EXCEPT ![w] = FALSE]
  /\ Goto(w, "end")
  /\ UNCHANGED <<connClosed, pingFresh>>

Ping(w) ==
  /\ pc[w] = "ping"
  /\ \/ \E closed \in BOOLEAN : QueryFails(w, closed)
     \/ /\ connUp /\ ~ctxDone
        /\ pingFresh' = TRUE
        /\ Goto(w, "info")
        /\ UNCHANGED <<ok, connClosed>>
  /\ UNCHANGED <<dpc, next, job, results, tallyVars, gateVars, connUp, ctxDone>>

\* The torrent info: bag id, overlay, header and sizes are validated.
Info(w) ==
  /\ pc[w] = "info"
  /\ \/ \E closed \in BOOLEAN : QueryFails(w, closed)
     \/ FailsQuietly(w)
     \/ /\ connUp /\ ~ctxDone
        /\ Goto(w, "slot")
        /\ UNCHANGED <<ok, connClosed, pingFresh>>
  /\ UNCHANGED <<dpc, next, job, results, tallyVars, gateVars, connUp, ctxDone>>

\* Mutant: the wait for a slot does not notice the end of the job.
SlotForever(w) ==
  /\ pc[w] = "slot"
  /\ ~ctxDone /\ Goto(w, "piece") /\ UNCHANGED <<ok, connClosed, pingFresh>>
  /\ UNCHANGED <<dpc, next, job, results, tallyVars, gateVars, connUp, ctxDone>>

\* pieces.acquire: a slot, or the end of the job.
Slot(w) ==
  /\ pc[w] = "slot"
  /\ \/ ctxDone /\ FailsQuietly(w)
     \/ ~ctxDone /\ Goto(w, "piece") /\ UNCHANGED <<ok, connClosed, pingFresh>>
  /\ UNCHANGED <<dpc, next, job, results, tallyVars, gateVars, connUp, ctxDone>>

\* The piece and its proof.
Piece(w) ==
  /\ pc[w] = "piece"
  /\ \/ \E closed \in BOOLEAN : QueryFails(w, closed)
     \/ connUp /\ ~ctxDone /\ FailsQuietly(w)
     \/ /\ connUp /\ ~ctxDone
        /\ ok' = [ok EXCEPT ![w] = TRUE]
        /\ pingFresh' = TRUE
        /\ Goto(w, "end")
        /\ UNCHANGED connClosed
  /\ UNCHANGED <<dpc, next, job, results, tallyVars, gateVars, connUp, ctxDone>>

\* Mutant: a closed connection is rebuilt at once.
EndAtOnce(w) ==
  /\ pc[w] = "end"
  /\ inflight' = inflight - 1
  /\ epoch' = IF connClosed[w] THEN epoch + 1 ELSE epoch
  /\ connUp' = (connUp \/ connClosed[w])
  /\ Goto(w, "record")
  /\ UNCHANGED <<dpc, next, localVars, results, tallyVars, dirty, startedAt, pingFresh, ctxDone>>

\* Mutant: the rebuild is left to the next begin.
EndLazy(w) ==
  /\ pc[w] = "end"
  /\ inflight' = inflight - 1
  /\ dirty' = (dirty \/ connClosed[w])
  /\ Goto(w, "record")
  /\ UNCHANGED <<dpc, next, localVars, results, tallyVars, epoch, connUp, startedAt,
                 pingFresh, ctxDone>>

\* gate.end, deferred by checkPiece.
End(w) ==
  /\ pc[w] = "end"
  /\ inflight' = IF inflight > 0 THEN inflight - 1 ELSE inflight
  /\ LET closed == dirty \/ connClosed[w]
         rebuild == closed /\ inflight' = 0
     IN  /\ epoch' = IF rebuild THEN epoch + 1 ELSE epoch
         /\ dirty' = (closed /\ ~rebuild)
         /\ connUp' = (connUp \/ rebuild)
  /\ Goto(w, "record")
  /\ UNCHANGED <<dpc, next, localVars, results, tallyVars, startedAt, pingFresh, ctxDone>>

\* Mutant: the tally stops one failure early.
RecordEarly(w) ==
  /\ pc[w] = "record"
  /\ results' = [results EXCEPT ![job[w]] = IF ok[w] THEN "ValidStorageProof" ELSE "Failed"]
  /\ failsInARow' = IF ok[w] THEN 0 ELSE failsInARow + 1
  /\ stopped' = (stopped \/ (~ok[w] /\ failsInARow' >= threshold))
  /\ Goto(w, "idle")
  /\ UNCHANGED <<dpc, next, localVars, gateVars, pingFresh, connUp, ctxDone>>

\* The result, and tally.record.
Record(w) ==
  /\ pc[w] = "record"
  /\ results' = [results EXCEPT ![job[w]] = IF ok[w] THEN "ValidStorageProof" ELSE "Failed"]
  /\ failsInARow' = IF ok[w] THEN 0 ELSE failsInARow + 1
  /\ stopped' = (stopped \/ (~ok[w] /\ failsInARow' > threshold))
  /\ Goto(w, "idle")
  /\ UNCHANGED <<dpc, next, localVars, gateVars, pingFresh, connUp, ctxDone>>

\* The range over jobs ends.
Exit(w) ==
  /\ dpc = "closed" /\ pc[w] = "idle"
  /\ Goto(w, "exit")
  /\ UNCHANGED <<dpc, next, localVars, results, tallyVars, gateVars, pingFresh, connUp, ctxDone>>

-----------------------------------------------------------------------------
(* The provider, the network and the clock *)

ConnCloses ==
  /\ connUp /\ dpc # "done"
  /\ connUp' = FALSE
  /\ UNCHANGED <<dpc, next, pc, localVars, results, tallyVars, gateVars, pingFresh, ctxDone>>

PingExpires ==
  /\ pingFresh /\ dpc # "done"
  /\ pingFresh' = FALSE
  /\ UNCHANGED <<dpc, next, pc, localVars, results, tallyVars, gateVars, connUp, ctxDone>>

JobEnds ==
  /\ ~ctxDone /\ dpc # "done"
  /\ ctxDone' = TRUE
  /\ UNCHANGED <<dpc, next, pc, localVars, results, tallyVars, gateVars, pingFresh, connUp>>

Dispatcher == SetupFails \/ Setup \/ DispatchSkip \/ DispatchOffer \/ CloseJobs \/ Return

Worker(w) ==
  \/ Hand(w) \/ Skip(w) \/ Begin(w) \/ Ping(w) \/ Info(w) \/ Slot(w) \/ Piece(w)
  \/ End(w) \/ Record(w) \/ Exit(w)

Next ==
  \/ Dispatcher
  \/ \E w \in Workers : Worker(w)
  \/ ConnCloses \/ PingExpires \/ JobEnds

\* Every query of a check has a deadline of its own, and goroutines that can run do.
Fairness == WF_vars(Dispatcher) /\ \A w \in Workers : WF_vars(Worker(w))

Spec == Init /\ [][Next]_vars
FairSpec == Spec /\ Fairness

-----------------------------------------------------------------------------
(* Properties *)

\* session.go: "keeps Reinit off the peer while any check on it is still running".
\* No check spans a rebuild of the connection (peerGate.begin, end).
ChecksKeepConnection == \A w \in InCheck : startedAt[w] = epoch

\* A connection known to be closed is kept only for the sake of running checks:
\* the last of them rebuilds it (peerGate.end).
RebuiltWhenQuiet == dirty => InCheck # {}

\* Once the tally has stopped, at most the checks already under way still fail:
\* one per worker beyond the threshold (stoppedNow, asked by dispatcher and
\* workers at different times).
StopIsPrompt == failsInARow <= threshold + Cardinality(Workers)

\* Bags are only skipped on a provider that has really failed more than the
\* threshold of its checks (failureTally.record, recordSkip).
SkipJustified ==
  (\E i \in Bags : results[i] = "UnavailableProvider") =>
    Cardinality({i \in Bags : results[i] = "Failed"}) > threshold

\* When checkProviderFiles returns, every contract of the batch has a result,
\* written by the dispatcher or by the worker it was handed to.
AllAnswered == dpc = "done" => \A i \in Bags : results[i] # "none"

\* The check of a provider comes to its end whatever fails: the dispatcher and
\* the workers never wait for one another in vain (jobs, close, wg.Wait).
Finishes == <>(dpc = "done")
=============================================================================
