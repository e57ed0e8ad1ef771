-------------------------- MODULE ProviderCheckProofs --------------------------
(***************************************************************************)
(* For any number of bags and workers: no check of a provider spans a      *)
(* rebuild of its connection, a connection known to be closed is never     *)
(* left idle, no bag of the batch is left without a result, bags are only  *)
(* skipped after enough real failures, and soon after them, and the check  *)
(* can neither be stuck nor go on for ever.                                *)
(***************************************************************************)
EXTENDS ProviderCheck, FiniteSetTheorems, TLAPS

\* The dispatcher only offers bags that exist.
OfferInRange == dpc = "offer" => next <= Count

\* Type correctness needs the range of the dispatcher's offer.
TypeInv == TypeOK /\ OfferInRange

\* A failed query leaves the worker's locals and the ping state well typed.
LEMMA QueryFailsTyped ==
  ASSUME TypeOK, NEW w \in Workers, NEW closed \in BOOLEAN, QueryFails(w, closed)
  PROVE  /\ ok' \in [Workers -> BOOLEAN] /\ connClosed' \in [Workers -> BOOLEAN]
         /\ pingFresh' \in BOOLEAN /\ pc' \in [Workers -> WorkerPCs]
<1>1. ok' \in [Workers -> BOOLEAN] /\ connClosed' \in [Workers -> BOOLEAN]
  BY DEF TypeOK, QueryFails
<1>2. pingFresh' \in BOOLEAN
  BY DEF QueryFails
<1>3. pc' \in [Workers -> WorkerPCs]
  BY DEF TypeOK, QueryFails, Goto, WorkerPCs
<1> QED BY <1>1, <1>2, <1>3

\* The dispatcher's range and the types together are inductive.
LEMMA TypeInvariant == Spec => []TypeInv
<1>1. Init => TypeInv
  <2> SUFFICES ASSUME Init PROVE TypeInv
    OBVIOUS
  <2>1. /\ stopped \in BOOLEAN /\ dirty \in BOOLEAN /\ pingFresh \in BOOLEAN
        /\ connUp \in BOOLEAN /\ ctxDone \in BOOLEAN
        /\ ok \in [Workers -> BOOLEAN] /\ connClosed \in [Workers -> BOOLEAN]
    BY DEF Init
  <2>2. /\ next \in 1..Count + 1 /\ job \in [Workers -> Bags]
        /\ pc \in [Workers -> WorkerPCs] /\ startedAt \in [Workers -> Nat]
    BY ProviderCheckAssumption DEF Init, WorkerPCs, Bags
  <2> QED
    BY <2>1, <2>2 DEF Init, TypeInv, TypeOK, OfferInRange
<1>2. TypeInv /\ [Next]_vars => TypeInv'
  <2> SUFFICES ASSUME TypeInv, [Next]_vars PROVE TypeInv'
    OBVIOUS
  <2> USE ProviderCheckAssumption
      DEF TypeInv, TypeOK, OfferInRange, WorkerPCs, Bags, Goto, localVars, tallyVars, gateVars
  <2>1. CASE SetupFails \/ Setup \/ CloseJobs \/ Return
    BY <2>1 DEF SetupFails, Setup, CloseJobs, Return
  <2>2. CASE DispatchSkip \/ DispatchOffer
    BY <2>2 DEF DispatchSkip, DispatchOffer
  <2>3. ASSUME NEW w \in Workers, Hand(w) PROVE TypeInv'
    BY <2>3 DEF Hand
  <2>4. ASSUME NEW w \in Workers, Skip(w) \/ Exit(w) PROVE TypeInv'
    <3>1. CASE Skip(w)  BY <3>1 DEF Skip
    <3>2. CASE Exit(w)  BY <3>2 DEF Exit
    <3> QED BY <2>4, <3>1, <3>2
  <2>5. ASSUME NEW w \in Workers, Begin(w) PROVE TypeInv'
    <3>1. dirty' \in BOOLEAN /\ connUp' \in BOOLEAN
      BY <2>5 DEF Begin
    <3>2. epoch' \in Nat
      BY <2>5 DEF Begin
    <3> QED BY <2>5, <3>1, <3>2 DEF Begin
  <2>6. ASSUME NEW w \in Workers, Ping(w) \/ Info(w) \/ Slot(w) \/ Piece(w) PROVE TypeInv'
    <3>1. CASE Ping(w)
      <4>1. /\ ok' \in [Workers -> BOOLEAN] /\ connClosed' \in [Workers -> BOOLEAN]
            /\ pingFresh' \in BOOLEAN /\ pc' \in [Workers -> WorkerPCs]
        BY <3>1, QueryFailsTyped DEF Ping
      <4>2. UNCHANGED <<dpc, next, job, results, tallyVars, gateVars, connUp, ctxDone>>
        BY <3>1 DEF Ping
      <4> QED BY <4>1, <4>2
    <3>2. CASE Info(w)
      <4>1. /\ ok' \in [Workers -> BOOLEAN] /\ connClosed' \in [Workers -> BOOLEAN]
            /\ pingFresh' \in BOOLEAN /\ pc' \in [Workers -> WorkerPCs]
        BY <3>2, QueryFailsTyped DEF Info, FailsQuietly
      <4>2. UNCHANGED <<dpc, next, job, results, tallyVars, gateVars, connUp, ctxDone>>
        BY <3>2 DEF Info
      <4> QED BY <4>1, <4>2
    <3>3. CASE Slot(w)
      BY <2>6, <3>3 DEF Slot, FailsQuietly
    <3>4. CASE Piece(w)
      <4>1. /\ ok' \in [Workers -> BOOLEAN] /\ connClosed' \in [Workers -> BOOLEAN]
            /\ pingFresh' \in BOOLEAN /\ pc' \in [Workers -> WorkerPCs]
        BY <3>4, QueryFailsTyped DEF Piece, FailsQuietly
      <4>2. UNCHANGED <<dpc, next, job, results, tallyVars, gateVars, connUp, ctxDone>>
        BY <3>4 DEF Piece
      <4> QED BY <4>1, <4>2
    <3> QED BY <2>6, <3>1, <3>2, <3>3, <3>4
  <2>7. ASSUME NEW w \in Workers, End(w) PROVE TypeInv'
    <3>1. dirty' \in BOOLEAN /\ connUp' \in BOOLEAN
      BY <2>7 DEF End
    <3>2. epoch' \in Nat /\ inflight' \in Nat
      BY <2>7 DEF End
    <3> QED BY <2>7, <3>1, <3>2 DEF End
  <2>8. ASSUME NEW w \in Workers, Record(w) PROVE TypeInv'
    BY <2>8 DEF Record
  <2>9. CASE ConnCloses \/ PingExpires \/ JobEnds
    BY <2>9 DEF ConnCloses, PingExpires, JobEnds
  <2>10. CASE UNCHANGED vars
    BY <2>10 DEF vars
  <2> QED
    BY <2>1, <2>2, <2>3, <2>4, <2>5, <2>6, <2>7, <2>8, <2>9, <2>10 DEF Next, Dispatcher, Worker
<1> QED
  BY <1>1, <1>2, PTL DEF Spec

\* Every variable keeps its type; in particular no worker is handed a bag
\* beyond the last one.
THEOREM TypeCorrect == Spec => []TypeOK
  BY TypeInvariant, PTL DEF TypeInv

-----------------------------------------------------------------------------
(* The gate *)

\* The checks under way are finitely many, so they can be counted.
LEMMA InCheckFinite == IsFiniteSet(InCheck)
  BY ProviderCheckAssumption, FS_Subset DEF InCheck

\* What keeps Reinit off: inflight counts the running checks, so the last one to
\* end sees zero, and nobody else does.
GateInv ==
  /\ inflight = Cardinality(InCheck)
  /\ ChecksKeepConnection
  /\ RebuiltWhenQuiet

\* Steps that neither enter nor leave the gate.
LEMMA OutsideGate ==
  ASSUME GateInv, InCheck' = InCheck, UNCHANGED gateVars
  PROVE  GateInv'
  BY DEF GateInv, gateVars, ChecksKeepConnection, RebuiltWhenQuiet

\* No step of the dispatcher, a worker or the network breaks the gate.
LEMMA GateStep ==
  ASSUME TypeOK, GateInv, [Next]_vars
  PROVE  GateInv'
<1> USE DEF TypeOK, WorkerPCs, Goto
<1>1. CASE Dispatcher \/ ConnCloses \/ PingExpires \/ JobEnds \/ UNCHANGED vars
  <2>1. InCheck' = InCheck /\ UNCHANGED gateVars
    BY <1>1 DEF Dispatcher, SetupFails, Setup, DispatchSkip, DispatchOffer, CloseJobs, Return,
       ConnCloses, PingExpires, JobEnds, InCheck, gateVars, vars
  <2> QED BY <2>1, OutsideGate
<1>2. ASSUME NEW w \in Workers, Hand(w) \/ Skip(w) \/ Record(w) \/ Exit(w) PROVE GateInv'
  <2>1. InCheck' = InCheck /\ UNCHANGED gateVars
    BY <1>2 DEF Hand, Skip, Record, Exit, InCheck, gateVars
  <2> QED BY <2>1, OutsideGate
<1>3. ASSUME NEW w \in Workers, Ping(w) \/ Info(w) \/ Slot(w) \/ Piece(w) PROVE GateInv'
  <2>1. InCheck' = InCheck /\ UNCHANGED gateVars
    BY <1>3 DEF Ping, Info, Slot, Piece, QueryFails, FailsQuietly, InCheck, gateVars
  <2> QED BY <2>1, OutsideGate
<1>4. ASSUME NEW w \in Workers, Begin(w) PROVE GateInv'
  <2>1. InCheck' = InCheck \union {w} /\ w \notin InCheck
    BY <1>4 DEF Begin, InCheck
  <2>2. inflight' = Cardinality(InCheck')
    BY <1>4, <2>1, InCheckFinite, FS_AddElement DEF Begin, GateInv
  <2>3. dirty => inflight # 0
    BY InCheckFinite, FS_EmptySet DEF GateInv, RebuiltWhenQuiet
  <2>4. epoch' = epoch
    BY <1>4, <2>3 DEF Begin
  <2>5. ChecksKeepConnection'
    BY <1>4, <2>1, <2>4 DEF Begin, GateInv, ChecksKeepConnection
  <2> QED BY <2>1, <2>2, <2>5 DEF GateInv, RebuiltWhenQuiet
<1>5. ASSUME NEW w \in Workers, End(w) PROVE GateInv'
  <2>1. InCheck' = InCheck \ {w} /\ w \in InCheck
    BY <1>5 DEF End, InCheck
  <2>2. Cardinality(InCheck') = Cardinality(InCheck) - 1
    BY <2>1, InCheckFinite, FS_RemoveElement
  <2>3. inflight > 0
    BY <2>1, InCheckFinite, FS_EmptySet DEF GateInv
  <2>4. inflight' = Cardinality(InCheck')
    BY <1>5, <2>2, <2>3 DEF End, GateInv
  <2>5. inflight' = 0 <=> InCheck' = {}
    <3>1. IsFiniteSet(InCheck')
      BY <2>1, InCheckFinite, FS_Subset
    <3> QED BY <2>4, <3>1, FS_EmptySet
  <2>6. ChecksKeepConnection'
    <3>1. CASE inflight' = 0
      BY <2>5, <3>1 DEF ChecksKeepConnection
    <3>2. CASE inflight' # 0
      BY <1>5, <2>1, <3>2 DEF End, GateInv, ChecksKeepConnection
    <3> QED BY <3>1, <3>2
  <2>7. RebuiltWhenQuiet'
    BY <1>5, <2>5 DEF End, RebuiltWhenQuiet
  <2> QED BY <2>4, <2>6, <2>7 DEF GateInv
<1> QED
  BY <1>1, <1>2, <1>3, <1>4, <1>5 DEF Next, Worker

\* The gate's invariant holds in every reachable state.
LEMMA GateInvariant == Spec => []GateInv
<1>1. Init => GateInv
  <2> SUFFICES ASSUME Init PROVE GateInv
    OBVIOUS
  <2>1. InCheck = {}
    BY DEF Init, InCheck
  <2> QED
    BY <2>1, FS_EmptySet DEF Init, GateInv, ChecksKeepConnection, RebuiltWhenQuiet
<1>2. TypeOK /\ GateInv /\ [Next]_vars => GateInv'
  BY GateStep
<1> QED
  BY <1>1, <1>2, TypeCorrect, PTL DEF Spec

\* peerGate keeps Reinit off the peer while any check on it is still running,
\* for any number of bag workers.
THEOREM ReinitKeptOff == Spec => []ChecksKeepConnection
  BY GateInvariant, PTL DEF GateInv

\* A closed connection is rebuilt as soon as the last check on it has ended.
THEOREM ClosedIsRebuilt == Spec => []RebuiltWhenQuiet
  BY GateInvariant, PTL DEF GateInv

-----------------------------------------------------------------------------
(* Every bag is answered *)

Busy(w) == pc[w] \in {"start", "ping", "info", "slot", "piece", "end", "record"}

\* Bag i has a result, or a worker that owes it one.
Cared(i) == results[i] # "none" \/ \E w \in Workers : Busy(w) /\ job[w] = i

\* The dispatcher has seen to every bag it has passed; it closes jobs after the
\* last bag and returns after the last worker has left.
AnswerInv ==
  /\ dpc # "done" => \A i \in Bags : i < next => Cared(i)
  /\ dpc = "setup" => next = 1
  /\ dpc = "closed" => next = Count + 1
  /\ AllAnswered

\* A step that passes no bag, takes no result back and relieves no worker.
LEMMA StillCared ==
  ASSUME AnswerInv, UNCHANGED <<next, dpc>>,
         \A i \in Bags : Cared(i) => Cared(i)',
         dpc = "done" => results' = results
  PROVE  AnswerInv'
  BY DEF AnswerInv, AllAnswered

\* Every contract of the batch has a result when checkProviderFiles returns.
THEOREM BatchAnswered == Spec => []AllAnswered
<1>1. Init => AnswerInv
  BY DEF Init, AnswerInv, AllAnswered, Bags
<1>2. TypeInv /\ AnswerInv /\ [Next]_vars => AnswerInv'
  <2> SUFFICES ASSUME TypeInv, AnswerInv, [Next]_vars PROVE AnswerInv'
    OBVIOUS
  <2> USE DEF TypeInv, TypeOK, localVars
  <2>1. CASE SetupFails
    BY <2>1 DEF SetupFails, AnswerInv, AllAnswered
  <2>2. CASE Setup \/ DispatchOffer \/ CloseJobs
    <3>1. \A i \in Bags : Cared(i)' <=> Cared(i)
      BY <2>2 DEF Setup, DispatchOffer, CloseJobs, Cared, Busy
    <3> QED
      BY <2>2, <3>1 DEF Setup, DispatchOffer, CloseJobs, AnswerInv, AllAnswered
  <2>3. CASE DispatchSkip
    <3>1. \A i \in Bags : Cared(i) => Cared(i)'
      BY <2>3 DEF DispatchSkip, Cared, Busy
    <3>2. \A i \in Bags : i = next => Cared(i)'
      BY <2>3 DEF DispatchSkip, Cared
    <3>3. \A i \in Bags : i < next' => i < next \/ i = next
      BY <2>3, ProviderCheckAssumption DEF DispatchSkip, Bags
    <3>4. \A i \in Bags : i < next' => Cared(i)'
      BY <2>3, <3>1, <3>2, <3>3 DEF DispatchSkip, AnswerInv
    <3> QED
      BY <2>3, <3>4 DEF DispatchSkip, AnswerInv, AllAnswered
  <2>4. CASE Return
    <3>1. \A i \in Bags : i < next
      BY <2>4, ProviderCheckAssumption DEF Return, AnswerInv, Bags
    <3>2. \A i \in Bags : results[i] # "none"
      BY <2>4, <3>1 DEF Return, AnswerInv, Cared, Busy
    <3> QED
      BY <2>4, <3>2 DEF Return, AnswerInv, AllAnswered
  <2>5. ASSUME NEW w \in Workers, Hand(w) PROVE AnswerInv'
    <3>1. \A i \in Bags : Cared(i) => Cared(i)'
      BY <2>5 DEF Hand, Goto, Cared, Busy, WorkerPCs
    <3>2. \A i \in Bags : i = next => Cared(i)'
      BY <2>5 DEF Hand, Goto, Cared, Busy
    <3>3. \A i \in Bags : i < next' => i < next \/ i = next
      BY <2>5, ProviderCheckAssumption DEF Hand, Bags
    <3>4. \A i \in Bags : i < next' => Cared(i)'
      BY <2>5, <3>1, <3>2, <3>3 DEF Hand, AnswerInv
    <3> QED
      BY <2>5, <3>4 DEF Hand, AnswerInv, AllAnswered
  <2>6. ASSUME NEW w \in Workers, Skip(w) \/ Record(w) PROVE AnswerInv'
    <3>1. results' \in [Bags -> {"none", "ValidStorageProof", "Failed", "UnavailableProvider"}]
      BY <2>6 DEF Skip, Record
    <3>2. results'[job[w]] # "none" /\ \A i \in Bags : i # job[w] => results'[i] = results[i]
      BY <2>6 DEF Skip, Record
    <3>3. \A v \in Workers : v # w => pc'[v] = pc[v]
      BY <2>6 DEF Skip, Record, Goto
    <3>4. \A i \in Bags : Cared(i) => Cared(i)'
      BY <2>6, <3>2, <3>3 DEF Skip, Record, Cared, Busy
    <3>5. UNCHANGED <<next, dpc>>
      BY <2>6 DEF Skip, Record
    <3> QED BY <3>2, <3>4, <3>5 DEF AnswerInv, AllAnswered
  <2>7. ASSUME NEW w \in Workers, Begin(w) \/ End(w) \/ Exit(w) PROVE AnswerInv'
    <3>1. \A v \in Workers : Busy(v) => Busy(v)'
      BY <2>7 DEF Begin, End, Exit, Goto, Busy
    <3>2. UNCHANGED <<next, dpc, results, job>>
      BY <2>7 DEF Begin, End, Exit
    <3> QED BY <3>1, <3>2, StillCared DEF Cared
  <2>8. ASSUME NEW w \in Workers, Ping(w) \/ Info(w) \/ Slot(w) \/ Piece(w) PROVE AnswerInv'
    <3>1. \A v \in Workers : Busy(v) => Busy(v)'
      BY <2>8 DEF Ping, Info, Slot, Piece, QueryFails, FailsQuietly, Goto, Busy
    <3>2. UNCHANGED <<next, dpc, results, job>>
      BY <2>8 DEF Ping, Info, Slot, Piece
    <3> QED BY <3>1, <3>2, StillCared DEF Cared
  <2>9. CASE ConnCloses \/ PingExpires \/ JobEnds \/ UNCHANGED vars
    <3>1. UNCHANGED <<next, dpc, results, job, pc>>
      BY <2>9 DEF ConnCloses, PingExpires, JobEnds, vars
    <3> QED BY <3>1, StillCared DEF Cared, Busy
  <2> QED
    BY <2>1, <2>2, <2>3, <2>4, <2>5, <2>6, <2>7, <2>8, <2>9 DEF Next, Dispatcher, Worker
<1>3. AnswerInv => AllAnswered
  BY DEF AnswerInv
<1> QED
  BY <1>1, <1>2, <1>3, TypeInvariant, PTL DEF Spec

-----------------------------------------------------------------------------
(* The tally stops in time *)

\* The workers whose check still ends in tally.record.
Running == {w \in Workers : pc[w] \in {"ping", "info", "slot", "piece", "end", "record"}}

\* Before the tally stops the row of failures is within the threshold; from then
\* on it can only grow by the checks that were under way.
StopInv ==
  IF stopped THEN failsInARow + Cardinality(Running) <= threshold + Cardinality(Workers)
             ELSE failsInARow <= threshold

\* The row of failures and its bounds are numbers.
LEMMA TallyNumbers ==
  /\ threshold \in Nat
  /\ Cardinality(Workers) \in Nat
  /\ IsFiniteSet(Running) /\ Cardinality(Running) \in Nat
  /\ Cardinality(Running) <= Cardinality(Workers)
<1>1. threshold \in Nat
  BY ProviderCheckAssumption DEF threshold
<1>2. Running \in SUBSET Workers
  BY DEF Running
<1> QED BY <1>1, <1>2, ProviderCheckAssumption, FS_Subset, FS_CardinalityType

\* No step breaks the bound: a check that begins finds the tally running, and one
\* that is recorded leaves one fewer to come.
LEMMA StopStep ==
  ASSUME TypeOK, StopInv, [Next]_vars
  PROVE  StopInv'
<1> USE DEF TypeOK, WorkerPCs, Goto
<1>1. ASSUME Running' = Running, UNCHANGED tallyVars PROVE StopInv'
  BY <1>1 DEF StopInv, tallyVars, threshold
<1>2. CASE Dispatcher \/ ConnCloses \/ PingExpires \/ JobEnds \/ UNCHANGED vars
  <2>1. Running' = Running /\ UNCHANGED tallyVars
    BY <1>2 DEF Dispatcher, SetupFails, Setup, DispatchSkip, DispatchOffer, CloseJobs, Return,
       ConnCloses, PingExpires, JobEnds, Running, tallyVars, vars
  <2> QED BY <1>1, <2>1
<1>3. ASSUME NEW w \in Workers, Hand(w) \/ Skip(w) \/ End(w) \/ Exit(w) PROVE StopInv'
  <2>1. Running' = Running /\ UNCHANGED tallyVars
    BY <1>3 DEF Hand, Skip, End, Exit, Running, tallyVars
  <2> QED BY <1>1, <2>1
<1>4. ASSUME NEW w \in Workers, Ping(w) \/ Info(w) \/ Slot(w) \/ Piece(w) PROVE StopInv'
  <2>1. Running' = Running /\ UNCHANGED tallyVars
    BY <1>4 DEF Ping, Info, Slot, Piece, QueryFails, FailsQuietly, Running, tallyVars
  <2> QED BY <1>1, <2>1
<1>5. ASSUME NEW w \in Workers, Begin(w) PROVE StopInv'
  BY <1>5 DEF Begin, StopInv, tallyVars, threshold
<1>6. ASSUME NEW w \in Workers, Record(w) PROVE StopInv'
  <2>1. w \in Running /\ Running' = Running \ {w}
    BY <1>6 DEF Record, Running
  <2>2. Cardinality(Running') = Cardinality(Running) - 1
    BY <2>1, TallyNumbers, FS_RemoveElement
  <2>3. failsInARow' = 0 \/ failsInARow' = failsInARow + 1
    BY <1>6 DEF Record
  <2>4. CASE stopped
    <3>1. stopped'
      BY <1>6, <2>4 DEF Record
    <3>2. failsInARow' + Cardinality(Running') <= threshold + Cardinality(Workers)
      BY <2>2, <2>3, <2>4, TallyNumbers DEF StopInv
    <3> QED BY <3>1, <3>2 DEF StopInv, threshold
  <2>5. CASE ~stopped
    <3>1. stopped' => failsInARow' + Cardinality(Running') <= threshold + Cardinality(Workers)
      BY <2>2, <2>3, <2>5, TallyNumbers DEF StopInv
    <3>2. ~stopped' => failsInARow' <= threshold
      <4>1. CASE ok[w]
        BY <1>6, <4>1, TallyNumbers DEF Record
      <4>2. CASE ~ok[w]
        <5>1. stopped' <=> stopped \/ failsInARow' > threshold
          BY <1>6, <4>2 DEF Record
        <5>2. failsInARow' \in Nat
          BY <2>3
        <5> QED BY <5>1, <5>2, TallyNumbers
      <4> QED BY <4>1, <4>2
    <3> QED BY <3>1, <3>2 DEF StopInv, threshold
  <2> QED BY <2>4, <2>5
<1> QED
  BY <1>2, <1>3, <1>4, <1>5, <1>6 DEF Next, Worker

\* A stopped tally sees at most one more failure per worker, for any number of
\* bags and workers (stoppedNow is asked outside the lock that record takes).
THEOREM TallyStopsInTime == Spec => []StopIsPrompt
<1>1. Init => StopInv
  BY TallyNumbers DEF Init, StopInv
<1>2. TypeOK /\ StopInv /\ [Next]_vars => StopInv'
  BY StopStep
<1>3. TypeOK /\ StopInv => StopIsPrompt
  BY TallyNumbers DEF TypeOK, StopInv, StopIsPrompt
<1> QED
  BY <1>1, <1>2, <1>3, TypeCorrect, PTL DEF Spec

-----------------------------------------------------------------------------
(* Skips are earned *)

Failures == {i \in Bags : results[i] = "Failed"}

\* Each bag is one worker's at most, and has no result until that worker is done.
JobsApart ==
  /\ \A w \in Workers : Busy(w) => job[w] < next /\ results[job[w]] = "none"
  /\ \A v, w \in Workers : Busy(v) /\ Busy(w) /\ job[v] = job[w] => v = w
  /\ dpc # "done" => \A i \in Bags : i >= next => results[i] = "none"
  /\ dpc = "setup" => \A w \in Workers : pc[w] = "idle"

\* A failure in the row is the result of a bag of its own, and bags are skipped
\* by a stopped tally only.
TallyInv ==
  /\ failsInARow <= Cardinality(Failures)
  /\ stopped => Cardinality(Failures) > threshold
  /\ \A i \in Bags : results[i] = "UnavailableProvider" => stopped

SkipInv == JobsApart /\ TallyInv

\* Results are finitely many, so failures can be counted.
LEMMA FailuresFinite == IsFiniteSet(Failures) /\ Cardinality(Failures) \in Nat
<1>1. IsFiniteSet(Bags)
  BY ProviderCheckAssumption, FS_Interval DEF Bags
<1>2. Failures \in SUBSET Bags
  BY DEF Failures
<1> QED BY <1>1, <1>2, FS_Subset, FS_CardinalityType

\* Steps that write no result and leave the tally alone.
LEMMA NoResultKeepsTally ==
  ASSUME TallyInv, UNCHANGED <<results, failsInARow, stopped>>
  PROVE  TallyInv'
  BY DEF TallyInv, Failures, threshold

\* A bag that is skipped had no result, so no failure is taken back.
LEMMA SkippingKeepsTally ==
  ASSUME TypeOK, TallyInv, stopped, NEW i \in Bags, results[i] = "none",
         results' = [results EXCEPT ![i] = "UnavailableProvider"],
         UNCHANGED <<failsInARow, stopped>>
  PROVE  TallyInv'
  <1>1. Failures' = Failures
    BY DEF TypeOK, Failures
  <1> QED BY <1>1 DEF TallyInv, threshold

\* No two workers ever have the same bag, and a bag that has a result is nobody's.
LEMMA JobsApartStep ==
  ASSUME TypeInv, JobsApart, [Next]_vars
  PROVE  JobsApart'
<1> USE ProviderCheckAssumption DEF TypeInv, TypeOK, WorkerPCs, Goto, Bags, localVars
<1>1. CASE SetupFails
  BY <1>1 DEF SetupFails, JobsApart, Busy
<1>2. CASE Setup \/ DispatchOffer \/ CloseJobs \/ Return
  BY <1>2 DEF Setup, DispatchOffer, CloseJobs, Return, JobsApart, Busy
<1>3. CASE DispatchSkip
  <2>1. \A i \in Bags : i # next => results'[i] = results[i]
    BY <1>3 DEF DispatchSkip
  <2>2. \A w \in Workers : Busy(w)' => job'[w] < next' /\ results'[job'[w]] = "none"
    BY <1>3, <2>1 DEF DispatchSkip, JobsApart, Busy
  <2> QED
    BY <1>3, <2>1, <2>2 DEF DispatchSkip, JobsApart, Busy
<1>4. ASSUME NEW w \in Workers, Hand(w) PROVE JobsApart'
  <2>1. next \in Bags /\ results[next] = "none"
    BY <1>4 DEF Hand, JobsApart, OfferInRange
  <2>2. \A v \in Workers : v # w => job'[v] = job[v] /\ pc'[v] = pc[v]
    BY <1>4 DEF Hand
  <2>3. job'[w] = next /\ next' = next + 1 /\ results' = results /\ dpc' = "look"
    BY <1>4 DEF Hand
  <2>4. \A v \in Workers : Busy(v)' => job'[v] < next' /\ results'[job'[v]] = "none"
    BY <2>1, <2>2, <2>3 DEF JobsApart, Busy
  <2>5. \A u, v \in Workers : Busy(u)' /\ Busy(v)' /\ job'[u] = job'[v] => u = v
    BY <2>2, <2>3 DEF JobsApart, Busy
  <2> QED
    BY <1>4, <2>3, <2>4, <2>5 DEF Hand, JobsApart
<1>5. ASSUME NEW w \in Workers, Skip(w) \/ Record(w) PROVE JobsApart'
  <2>1. /\ Busy(w) /\ ~Busy(w)' /\ UNCHANGED <<job, next, dpc>>
        /\ \A v \in Workers : v # w => pc'[v] = pc[v]
    BY <1>5 DEF Skip, Record, Busy
  <2>2. \A i \in Bags : i # job[w] => results'[i] = results[i]
    BY <1>5 DEF Skip, Record
  <2>3. \A v \in Workers : Busy(v)' => Busy(v) /\ v # w /\ job[v] # job[w]
    BY <2>1 DEF JobsApart, Busy
  <2>4. dpc # "setup"
    BY <2>1 DEF JobsApart, Busy
  <2>5. \A i \in Bags : i >= next => i # job[w]
    BY <2>1 DEF JobsApart
  <2> QED BY <2>1, <2>2, <2>3, <2>4, <2>5 DEF JobsApart
<1>6. ASSUME NEW w \in Workers,
             \/ Begin(w) \/ End(w) \/ Exit(w)
             \/ Ping(w) \/ Info(w) \/ Slot(w) \/ Piece(w)
      PROVE  JobsApart'
  <2>1. UNCHANGED <<next, dpc, results, job>> /\ \A v \in Workers : Busy(v)' => Busy(v)
    <3>1. CASE Begin(w) \/ End(w) \/ Exit(w)
      BY <3>1 DEF Begin, End, Exit, Busy
    <3>2. CASE Ping(w) \/ Info(w) \/ Slot(w) \/ Piece(w)
      BY <3>2 DEF Ping, Info, Slot, Piece, QueryFails, FailsQuietly, Busy
    <3> QED BY <1>6, <3>1, <3>2
  <2>2. dpc # "setup"
    BY <1>6 DEF JobsApart, Begin, End, Exit, Ping, Info, Slot, Piece
  <2> QED BY <2>1, <2>2 DEF JobsApart
<1>7. CASE ConnCloses \/ PingExpires \/ JobEnds \/ UNCHANGED vars
  <2>1. UNCHANGED <<next, dpc, results, job, pc>>
    BY <1>7 DEF ConnCloses, PingExpires, JobEnds, vars
  <2> QED BY <2>1 DEF JobsApart, Busy
<1> QED
  BY <1>1, <1>2, <1>3, <1>4, <1>5, <1>6, <1>7 DEF Next, Dispatcher, Worker

\* The tally never runs ahead of the failures that are among the results.
LEMMA TallyStep ==
  ASSUME TypeInv, JobsApart, TallyInv, [Next]_vars
  PROVE  TallyInv'
<1> USE DEF TypeInv, TypeOK, Goto, localVars, tallyVars
<1>1. CASE SetupFails
  <2>1. Failures' = Bags
    BY <1>1 DEF SetupFails, Failures
  <2>2. IsFiniteSet(Bags) /\ Failures \in SUBSET Bags /\ Cardinality(Bags) \in Nat
    BY ProviderCheckAssumption, FS_Interval, FS_CardinalityType DEF Bags, Failures
  <2>3. Cardinality(Failures) <= Cardinality(Failures')
    BY <2>1, <2>2, FS_Subset
  <2>4. threshold \in Nat /\ Cardinality(Failures) \in Nat
    BY TallyNumbers, FailuresFinite
  <2> QED
    BY <1>1, <2>1, <2>2, <2>3, <2>4 DEF SetupFails, TallyInv, threshold
<1>2. CASE Setup \/ DispatchOffer \/ CloseJobs \/ Return \/ ConnCloses \/ PingExpires \/ JobEnds \/ UNCHANGED vars
  BY <1>2, NoResultKeepsTally
  DEF Setup, DispatchOffer, CloseJobs, Return, ConnCloses, PingExpires, JobEnds, vars
<1>3. CASE DispatchSkip
  <2>1. next \in Bags /\ results[next] = "none"
    BY <1>3, ProviderCheckAssumption DEF DispatchSkip, JobsApart, Bags
  <2> QED
    BY <1>3, <2>1, SkippingKeepsTally DEF DispatchSkip
<1>4. ASSUME NEW w \in Workers, Skip(w) PROVE TallyInv'
  <2>1. job[w] \in Bags /\ results[job[w]] = "none"
    BY <1>4 DEF Skip, JobsApart, Busy
  <2> QED
    BY <1>4, <2>1, SkippingKeepsTally DEF Skip
<1>5. ASSUME NEW w \in Workers, Record(w) PROVE TallyInv'
  <2>1. job[w] \in Bags /\ results[job[w]] = "none"
    BY <1>5 DEF Record, JobsApart, Busy
  <2>2. threshold \in Nat /\ Cardinality(Failures) \in Nat /\ IsFiniteSet(Failures)
    BY TallyNumbers, FailuresFinite
  <2>3. CASE ok[w]
    <3>1. Failures' = Failures
      BY <1>5, <2>1, <2>3 DEF Record, Failures
    <3>2. failsInARow' = 0 /\ stopped' = stopped
      BY <1>5, <2>3 DEF Record
    <3>3. \A i \in Bags : results'[i] = "UnavailableProvider" => results[i] = "UnavailableProvider"
      BY <1>5, <2>1, <2>3 DEF Record
    <3> QED BY <2>2, <3>1, <3>2, <3>3 DEF TallyInv, threshold
  <2>4. CASE ~ok[w]
    <3>1. Failures' = Failures \union {job[w]} /\ job[w] \notin Failures
      BY <1>5, <2>1, <2>4 DEF Record, Failures
    <3>2. Cardinality(Failures') = Cardinality(Failures) + 1
      BY <2>2, <3>1, FS_AddElement
    <3>3. failsInARow' = failsInARow + 1 /\ (stopped' <=> stopped \/ failsInARow' > threshold)
      BY <1>5, <2>4 DEF Record
    <3>4. \A i \in Bags : results'[i] = "UnavailableProvider" => results[i] = "UnavailableProvider"
      BY <1>5, <2>1, <2>4 DEF Record
    <3>5. failsInARow' <= Cardinality(Failures')
      BY <2>2, <3>2, <3>3 DEF TallyInv
    <3>6. stopped' => Cardinality(Failures') > threshold
      BY <2>2, <3>2, <3>3, <3>5 DEF TallyInv
    <3> QED BY <3>3, <3>4, <3>5, <3>6 DEF TallyInv, threshold
  <2> QED BY <2>3, <2>4
<1>6. ASSUME NEW w \in Workers,
             \/ Hand(w) \/ Begin(w) \/ End(w) \/ Exit(w)
             \/ Ping(w) \/ Info(w) \/ Slot(w) \/ Piece(w)
      PROVE  TallyInv'
  BY <1>6, NoResultKeepsTally DEF Hand, Begin, End, Exit, Ping, Info, Slot, Piece
<1> QED
  BY <1>1, <1>2, <1>3, <1>4, <1>5, <1>6 DEF Next, Dispatcher, Worker

\* A bag is reported UnavailableProvider only on a provider that has failed more
\* than the threshold of real checks, each of a different bag.
THEOREM SkipsAreEarned == Spec => []SkipJustified
<1>1. Init => SkipInv
  <2> SUFFICES ASSUME Init PROVE SkipInv
    OBVIOUS
  <2>1. JobsApart
    BY DEF Init, JobsApart, Busy
  <2>2. TallyInv
    BY FailuresFinite DEF Init, TallyInv
  <2> QED BY <2>1, <2>2 DEF SkipInv
<1>2. TypeInv /\ SkipInv /\ [Next]_vars => SkipInv'
  BY JobsApartStep, TallyStep DEF SkipInv
<1>3. SkipInv => SkipJustified
  BY DEF SkipInv, TallyInv, SkipJustified, Failures
<1> QED
  BY <1>1, <1>2, <1>3, TypeInvariant, PTL DEF Spec

-----------------------------------------------------------------------------
(* The check of a provider comes to its end: somebody can always go on, and  *)
(* nobody can go on for ever.                                                *)

\* The workers leave only once the channel is closed.
ExitInv == \A w \in Workers : pc[w] = "exit" => dpc \in {"closed", "done"}

\* The guard of a step of the dispatcher or of a worker holds.  A query can always
\* fail, so a worker inside a check can always go on.
CanMove ==
  \/ dpc = "setup"                                           \* SetupFails
  \/ dpc = "look" /\ (next <= Count \/ next = Count + 1)     \* DispatchSkip, DispatchOffer, CloseJobs
  \/ dpc = "offer" /\ \E w \in Workers : pc[w] = "idle"      \* Hand
  \/ dpc = "closed" /\ \E w \in Workers : pc[w] = "idle"     \* Exit
  \/ dpc = "closed" /\ \A w \in Workers : pc[w] = "exit"     \* Return
  \/ \E w \in Workers : pc[w] \in {"start", "ping", "info", "slot", "piece", "end", "record"}

\* Steps of the dispatcher that are left at most, for any outcome of the checks.
DispatchLeft ==
  LET ahead == 2 * (Count + 1 - next)
  IN  CASE dpc = "setup"  -> ahead + 4
        [] dpc = "look"   -> ahead + 3
        [] dpc = "offer"  -> ahead + 2
        [] dpc = "closed" -> 1
        [] dpc = "done"   -> 0

\* How far a worker is from leaving with the bag it has.
Distance(at) ==
  CASE at = "start" -> 8 [] at = "ping" -> 7 [] at = "info" -> 6 [] at = "slot" -> 5
    [] at = "piece" -> 4 [] at = "end" -> 3 [] at = "record" -> 2 [] at = "idle" -> 1
    [] at = "exit" -> 0

\* The steps the workers have ahead of them with the bags they have.
Ahead == {x \in Workers \X (1..8) : x[2] <= Distance(pc[x[1]])}

Moves == Dispatcher \/ \E w \in Workers : Worker(w)

\* A step of the program brings the dispatcher closer to its end, or leaves the
\* dispatcher where it is and brings a worker closer to its own; the provider, the
\* network and the clock never set the program back.
RunsDown ==
  /\ DispatchLeft \in Nat /\ IsFiniteSet(Ahead)
  /\ Moves => \/ DispatchLeft' < DispatchLeft
              \/ DispatchLeft' = DispatchLeft /\ Cardinality(Ahead') < Cardinality(Ahead)
  /\ ~Moves => DispatchLeft' = DispatchLeft /\ Ahead' = Ahead

\* Distances are numbers up to 8.
LEMMA DistanceType ==
  /\ \A at \in WorkerPCs : Distance(at) \in 0..8
  /\ \A at \in WorkerPCs \ {"exit"} : Distance(at) \in 1..8
  BY DEF WorkerPCs, Distance

\* The steps ahead are finitely many.
LEMMA AheadFinite == IsFiniteSet(Ahead) /\ Cardinality(Ahead) \in Nat
<1>1. IsFiniteSet(1..8)
  <2>1. 1 \in Int /\ 8 \in Int
    OBVIOUS
  <2> QED BY <2>1, FS_Interval, Zenon
<1>2. IsFiniteSet(Workers \X (1..8))
  BY <1>1, ProviderCheckAssumption, FS_Product
<1>3. Ahead \subseteq Workers \X (1..8)
  BY DEF Ahead
<1> QED BY <1>2, <1>3, FS_Subset, FS_CardinalityType

\* A worker that comes closer to its end leaves fewer steps ahead.
LEMMA WorkerCloser ==
  ASSUME TypeOK, NEW w \in Workers, NEW to \in WorkerPCs,
         pc' = [pc EXCEPT ![w] = to], Distance(to) < Distance(pc[w])
  PROVE  Cardinality(Ahead') < Cardinality(Ahead)
<1>1. pc[w] \in WorkerPCs /\ pc'[w] = to /\ \A v \in Workers \ {w} : pc'[v] = pc[v]
  BY DEF TypeOK
<1>2. Distance(pc[w]) \in 1..8 /\ Distance(to) \in 0..8
  BY <1>1, DistanceType
<1>3. Ahead' \subseteq Ahead
  <2> SUFFICES ASSUME NEW x \in Workers \X (1..8), x[2] <= Distance(pc'[x[1]])
               PROVE  x[2] <= Distance(pc[x[1]])
    BY DEF Ahead
  <2>1. CASE x[1] = w
    BY <1>1, <1>2, <2>1
  <2>2. CASE x[1] # w
    BY <1>1, <2>2
  <2> QED BY <2>1, <2>2
<1>4. <<w, Distance(pc[w])>> \in Ahead /\ <<w, Distance(pc[w])>> \notin Ahead'
  BY <1>1, <1>2 DEF Ahead
<1>5. Cardinality(Ahead') <= Cardinality(Ahead) /\ (Cardinality(Ahead) = Cardinality(Ahead') => Ahead = Ahead')
  BY <1>3, AheadFinite, FS_Subset
<1>6. Cardinality(Ahead') \in Nat
  BY <1>3, AheadFinite, FS_Subset, FS_CardinalityType
<1> QED BY <1>4, <1>5, <1>6, AheadFinite

\* The steps of the dispatcher are a number.
LEMMA DispatchNumber == ASSUME TypeOK PROVE DispatchLeft \in Nat
<1>1. 2 * (Count + 1 - next) \in Nat
  BY ProviderCheckAssumption DEF TypeOK
<1> QED BY <1>1 DEF TypeOK, DispatchLeft

\* No worker leaves before the channel is closed, and a closed channel stays so.
LEMMA ExitStep == TypeOK /\ ExitInv /\ [Next]_vars => ExitInv'
<1> SUFFICES ASSUME TypeOK, ExitInv, [Next]_vars PROVE ExitInv'
  OBVIOUS
<1>1. CASE Dispatcher
  BY <1>1 DEF Dispatcher, SetupFails, Setup, DispatchSkip, DispatchOffer, CloseJobs, Return, ExitInv
<1>2. ASSUME NEW w \in Workers, Worker(w) PROVE ExitInv'
  <2>1. CASE Hand(w)
    BY <2>1 DEF Hand, Goto, ExitInv, TypeOK
  <2>2. CASE Exit(w)
    BY <2>2 DEF Exit, Goto, ExitInv, TypeOK
  <2>3. CASE Skip(w) \/ Begin(w) \/ End(w) \/ Record(w)
    <3>1. dpc' = dpc /\ pc'[w] # "exit" /\ \A v \in Workers \ {w} : pc'[v] = pc[v]
      BY <2>3 DEF Skip, Begin, End, Record, Goto, TypeOK
    <3> QED BY <3>1 DEF ExitInv
  <2>4. CASE Ping(w) \/ Info(w) \/ Slot(w) \/ Piece(w)
    <3>1. dpc' = dpc /\ pc'[w] # "exit" /\ \A v \in Workers \ {w} : pc'[v] = pc[v]
      BY <2>4 DEF Ping, Info, Slot, Piece, QueryFails, FailsQuietly, Goto, TypeOK
    <3> QED BY <3>1 DEF ExitInv
  <2> QED BY <1>2, <2>1, <2>2, <2>3, <2>4 DEF Worker
<1>3. CASE ConnCloses \/ PingExpires \/ JobEnds \/ UNCHANGED vars
  BY <1>3 DEF ConnCloses, PingExpires, JobEnds, vars, ExitInv
<1> QED BY <1>1, <1>2, <1>3 DEF Next

\* Until it returns, checkProviderFiles is never stuck, for any number of bags and
\* workers and whatever fails: the dispatcher, blocked on the unbuffered channel,
\* has a worker that takes the bag or is on its way back, and wg.Wait waits only
\* for workers that can leave.
THEOREM CheckNeverStuck == Spec => [](dpc # "done" => CanMove)
<1>1. Init => ExitInv
  BY DEF Init, ExitInv
<1>2. TypeInv /\ ExitInv /\ [Next]_vars => ExitInv'
  BY ExitStep DEF TypeInv
<1>3. TypeInv /\ ExitInv => (dpc # "done" => CanMove)
  <2> SUFFICES ASSUME TypeOK, ExitInv, dpc # "done" PROVE CanMove
    BY DEF TypeInv
  <2>1. CASE dpc = "setup"
    BY <2>1 DEF CanMove
  <2>2. CASE dpc = "look"
    <3>1. next <= Count \/ next = Count + 1
      BY ProviderCheckAssumption DEF TypeOK
    <3> QED BY <2>2, <3>1 DEF CanMove
  <2>3. \A w \in Workers :
          \/ pc[w] \in {"start", "ping", "info", "slot", "piece", "end", "record"}
          \/ pc[w] = "idle" \/ pc[w] = "exit"
    BY DEF TypeOK, WorkerPCs
  <2>4. CASE dpc = "offer"
    <3>1. PICK w \in Workers : TRUE
      BY ProviderCheckAssumption
    <3>2. pc[w] # "exit"
      BY <2>4 DEF ExitInv
    <3> QED BY <2>3, <2>4, <3>2 DEF CanMove
  <2>5. CASE dpc = "closed"
    BY <2>3, <2>5 DEF CanMove
  <2> QED BY <2>1, <2>2, <2>4, <2>5 DEF TypeOK
<1> QED BY <1>1, <1>2, <1>3, TypeInvariant, PTL DEF Spec

\* A step of a worker after the hand-over brings it closer to its end.
LEMMA WorkerRunsDown ==
  ASSUME TypeOK, NEW w \in Workers, Worker(w), ~Hand(w)
  PROVE  UNCHANGED <<dpc, next>> /\ Cardinality(Ahead') < Cardinality(Ahead)
<1>1. UNCHANGED <<dpc, next>>
  BY DEF Worker, Skip, Begin, Ping, Info, Slot, Piece, End, Record, Exit
<1>2. \E to \in WorkerPCs : pc' = [pc EXCEPT ![w] = to] /\ Distance(to) < Distance(pc[w])
  <2> USE DEF Goto, WorkerPCs
  <2>1. CASE Skip(w) \/ Record(w)
    <3>1. pc' = [pc EXCEPT ![w] = "idle"] /\ pc[w] \in {"start", "record"}
      BY <2>1 DEF Skip, Record
    <3> QED BY <3>1 DEF Distance
  <2>2. CASE Begin(w)
    <3>1. pc[w] = "start"
      BY <2>2 DEF Begin
    <3>2. PICK to \in {"info", "ping"} : pc' = [pc EXCEPT ![w] = to]
      BY <2>2 DEF Begin
    <3>3. to \in WorkerPCs /\ Distance(to) < Distance(pc[w])
      BY <3>1, <3>2 DEF Distance
    <3> QED BY <3>2, <3>3, Zenon
  <2>3. CASE Ping(w)
    <3>1. pc[w] = "ping"
      BY <2>3 DEF Ping, QueryFails
    <3>2. PICK to \in {"info", "end"} : pc' = [pc EXCEPT ![w] = to]
      BY <2>3 DEF Ping, QueryFails
    <3>3. to \in WorkerPCs /\ Distance(to) < Distance(pc[w])
      BY <3>1, <3>2 DEF Distance
    <3> QED BY <3>2, <3>3, Zenon
  <2>4. CASE Info(w)
    <3>1. pc[w] = "info"
      BY <2>4 DEF Info, QueryFails, FailsQuietly
    <3>2. PICK to \in {"slot", "end"} : pc' = [pc EXCEPT ![w] = to]
      BY <2>4 DEF Info, QueryFails, FailsQuietly
    <3>3. to \in WorkerPCs /\ Distance(to) < Distance(pc[w])
      BY <3>1, <3>2 DEF Distance
    <3> QED BY <3>2, <3>3, Zenon
  <2>5. CASE Slot(w)
    <3>1. pc[w] = "slot"
      BY <2>5 DEF Slot, FailsQuietly
    <3>2. PICK to \in {"piece", "end"} : pc' = [pc EXCEPT ![w] = to]
      BY <2>5 DEF Slot, FailsQuietly
    <3>3. to \in WorkerPCs /\ Distance(to) < Distance(pc[w])
      BY <3>1, <3>2 DEF Distance
    <3> QED BY <3>2, <3>3, Zenon
  <2>6. CASE Piece(w)
    <3>1. pc[w] = "piece" /\ pc' = [pc EXCEPT ![w] = "end"]
      BY <2>6 DEF Piece, QueryFails, FailsQuietly
    <3> QED BY <3>1 DEF Distance
  <2>7. CASE End(w)
    <3>1. pc[w] = "end" /\ pc' = [pc EXCEPT ![w] = "record"]
      BY <2>7 DEF End
    <3> QED BY <3>1 DEF Distance
  <2>8. CASE Exit(w)
    <3>1. pc[w] = "idle" /\ pc' = [pc EXCEPT ![w] = "exit"]
      BY <2>8 DEF Exit
    <3> QED BY <3>1 DEF Distance
  <2> QED BY <2>1, <2>2, <2>3, <2>4, <2>5, <2>6, <2>7, <2>8 DEF Worker
<1> QED BY <1>1, <1>2, WorkerCloser

\* Every step of the dispatcher, and every bag it hands over, brings it closer to
\* its end.
LEMMA DispatcherRunsDown ==
  ASSUME TypeInv, Dispatcher \/ \E w \in Workers : Hand(w)
  PROVE  DispatchLeft' < DispatchLeft
<1>1. Count \in Nat /\ next \in Nat /\ 1 <= next /\ next <= Count + 1
  BY ProviderCheckAssumption DEF TypeInv, TypeOK
<1>2. \/ dpc = "setup" /\ dpc' \in {"look", "done"} /\ next' = next
      \/ dpc = "look" /\ dpc' = "look" /\ next' = next + 1 /\ next <= Count
      \/ dpc = "look" /\ dpc' = "offer" /\ next' = next
      \/ dpc = "offer" /\ dpc' = "look" /\ next' = next + 1
      \/ dpc = "look" /\ dpc' = "closed" /\ next' = next
      \/ dpc = "closed" /\ dpc' = "done" /\ next' = next
  BY DEF Dispatcher, SetupFails, Setup, DispatchSkip, DispatchOffer, CloseJobs, Return, Hand
<1> QED BY <1>1, <1>2 DEF DispatchLeft

\* The check of a provider cannot go on for ever, whatever the provider, the
\* network and the clock do: every step of the program comes closer to the end, and
\* nothing sets it back.  With CheckNeverStuck this is Finishes for every number of
\* bags and workers, short of the rule that fairness gives (checkProviderFiles).
THEOREM CheckRunsDown == Spec => [][RunsDown]_vars
<1>1. TypeInv /\ [Next]_vars => [RunsDown]_vars
  <2> SUFFICES ASSUME TypeInv, Next PROVE RunsDown
    OBVIOUS
  <2>1. DispatchLeft \in Nat /\ IsFiniteSet(Ahead)
    BY DispatchNumber, AheadFinite DEF TypeInv
  <2>2. ASSUME Moves
        PROVE  \/ DispatchLeft' < DispatchLeft
               \/ DispatchLeft' = DispatchLeft /\ Cardinality(Ahead') < Cardinality(Ahead)
    <3>1. CASE Dispatcher \/ \E w \in Workers : Hand(w)
      BY <3>1, DispatcherRunsDown
    <3>2. ASSUME NEW w \in Workers, Worker(w), ~Hand(w)
          PROVE  DispatchLeft' = DispatchLeft /\ Cardinality(Ahead') < Cardinality(Ahead)
      <4>1. UNCHANGED <<dpc, next>> /\ Cardinality(Ahead') < Cardinality(Ahead)
        BY <3>2, WorkerRunsDown DEF TypeInv
      <4> QED BY <4>1 DEF DispatchLeft
    <3> QED BY <2>2, <3>1, <3>2 DEF Moves
  <2>3. ASSUME ~Moves PROVE DispatchLeft' = DispatchLeft /\ Ahead' = Ahead
    <3>1. UNCHANGED <<dpc, next, pc>>
      BY <2>3 DEF Next, Moves, ConnCloses, PingExpires, JobEnds
    <3> QED BY <3>1 DEF DispatchLeft, Ahead
  <2> QED BY <2>1, <2>2, <2>3 DEF RunsDown
<1> QED BY <1>1, TypeInvariant, PTL DEF Spec
=============================================================================
