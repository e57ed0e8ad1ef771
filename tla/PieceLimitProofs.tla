--------------------------- MODULE PieceLimitProofs ---------------------------
(***************************************************************************)
(* The limiter is right for every number of workers and every argument of  *)
(* newPieceLimit: its limit stays in range, its slots are accounted for,   *)
(* and no wake-up is lost.                                                 *)
(***************************************************************************)
EXTENDS PieceLimit, FiniteSetTheorems, TLAPS

\* What newPieceLimit makes of its arguments.
LEMMA Clamped ==
  /\ min \in Nat /\ min >= 1
  /\ max \in Nat /\ min <= max
  /\ initial \in min..max
  /\ window \in Nat /\ window >= 1
  BY PieceLimitAssumption DEF min, max, initial, window

\* Halving and raising stay between min and max (observe).
LEMMA LimitMoves ==
  ASSUME limit \in min..max
  PROVE  Halved \in min..max /\ Raised \in min..max
  BY Clamped DEF Halved, Raised

\* Every step keeps the types: the limit in min..max, the window not full.
THEOREM TypeCorrect == Spec => []TypeOK
<1>1. Init => TypeOK
  BY Clamped DEF Init, TypeOK, PCs
<1>2. TypeOK /\ [Next]_vars => TypeOK'
  <2> SUFFICES ASSUME TypeOK, [Next]_vars
               PROVE  TypeOK'
    OBVIOUS
  <2> USE DEF TypeOK, PCs, sampleVars
  <2>1. ASSUME NEW w \in Workers, Enter(w)
        PROVE  TypeOK'
    BY <2>1 DEF Enter
  <2>2. ASSUME NEW w \in Workers, Acquire(w)
        PROVE  TypeOK'
    BY <2>2 DEF Acquire
  <2>3. ASSUME NEW w \in Workers, Wait(w)
        PROVE  TypeOK'
    BY <2>3 DEF Wait
  <2>4. ASSUME NEW w \in Workers, GiveUp(w)
        PROVE  TypeOK'
    BY <2>4 DEF GiveUp
  <2>5. ASSUME NEW w \in Workers, WakeOnDone(w)
        PROVE  TypeOK'
    BY <2>5 DEF WakeOnDone, Broadcast
  <2>6. ASSUME NEW w \in Workers, NEW isSlow \in BOOLEAN, NEW isFast \in BOOLEAN,
               ObserveSample(w, isSlow, isFast)
        PROVE  TypeOK'
    BY <2>6, Clamped DEF ObserveSample
  <2>7. ASSUME NEW w \in Workers, NEW isSlow \in BOOLEAN, NEW isFast \in BOOLEAN,
               ObserveWindow(w, isSlow, isFast)
        PROVE  TypeOK'
    <3>1. limit' \in min..max
      BY <2>7, LimitMoves DEF ObserveWindow
    <3>2. pc' \in [Workers -> PCs]
      BY <2>7 DEF ObserveWindow, Broadcast, MoveOnly
    <3>3. QED
      BY <2>7, <3>1, <3>2, Clamped DEF ObserveWindow
  <2>8. ASSUME NEW w \in Workers, CallTimed(w) \/ SkipObserve(w)
        PROVE  TypeOK'
    BY <2>8 DEF CallTimed, SkipObserve
  <2>9. ASSUME NEW w \in Workers, Release(w)
        PROVE  TypeOK'
    BY <2>9 DEF Release, Broadcast
  <2>10. ASSUME NEW w \in Workers, EndJob(w) \/ NextJob(w)
         PROVE  TypeOK'
    BY <2>10 DEF EndJob, NextJob
  <2>11. CASE UNCHANGED vars
    BY <2>11 DEF vars
  <2>12. QED
    BY <2>1, <2>2, <2>3, <2>4, <2>5, <2>6, <2>7, <2>8, <2>9, <2>10, <2>11
       DEF Next, Step, Observe
<1>3. QED
  BY <1>1, <1>2, PTL DEF Spec

-----------------------------------------------------------------------------

\* The owners of slots are finitely many, so they can be counted.
LEMMA HoldersFinite == IsFiniteSet(Holders)
  BY PieceLimitAssumption, FS_Subset DEF Holders

\* NoLostWakeup is not inductive: that the wake-up of an ended job is still to
\* come rests on every sleeper having its goroutine, ended job or not, and on a
\* worker whose goroutine has fired never going to sleep again.
WakeInv ==
  \A w \in Workers :
    /\ pc[w] = "wait" => inflight >= limit /\ w \in watch
    /\ pc[w] = "want" => w \in watch \/ w \in ctxDone

\* No wake-up is lost: nobody sleeps beside a free slot, and nobody whose job
\* has ended sleeps without its wake-up goroutine still to broadcast.
THEOREM WakeupsDelivered == Spec => []NoLostWakeup
<1>1. Init => WakeInv
  BY DEF Init, WakeInv
<1>2. TypeOK /\ WakeInv /\ [Next]_vars => WakeInv'
  <2> SUFFICES ASSUME TypeOK, WakeInv, [Next]_vars
               PROVE  WakeInv'
    OBVIOUS
  <2> USE DEF TypeOK, WakeInv, PCs, sampleVars
  <2>1. ASSUME NEW w \in Workers, Enter(w)
        PROVE  WakeInv'
    BY <2>1 DEF Enter
  <2>2. ASSUME NEW w \in Workers, Acquire(w)
        PROVE  WakeInv'
    <3>1. limit \in Int
      BY Clamped
    <3>2. QED
      BY <2>2, <3>1 DEF Acquire
  <2>3. ASSUME NEW w \in Workers, Wait(w)
        PROVE  WakeInv'
    BY <2>3 DEF Wait
  <2>4. ASSUME NEW w \in Workers, GiveUp(w)
        PROVE  WakeInv'
    BY <2>4 DEF GiveUp
  <2>5. ASSUME NEW w \in Workers, WakeOnDone(w)
        PROVE  WakeInv'
    BY <2>5 DEF WakeOnDone, Broadcast
  <2>6. ASSUME NEW w \in Workers, NEW isSlow \in BOOLEAN, NEW isFast \in BOOLEAN,
               ObserveSample(w, isSlow, isFast)
        PROVE  WakeInv'
    BY <2>6 DEF ObserveSample
  <2>7. ASSUME NEW w \in Workers, NEW isSlow \in BOOLEAN, NEW isFast \in BOOLEAN,
               ObserveWindow(w, isSlow, isFast)
        PROVE  WakeInv'
    <3>1. limit \in Int /\ limit' \in Int
      BY <2>7, Clamped, LimitMoves DEF ObserveWindow
    <3>2. CASE limit' > limit
      BY <2>7, <3>2 DEF ObserveWindow, Broadcast
    <3>3. CASE ~(limit' > limit)
      BY <2>7, <3>1, <3>3 DEF ObserveWindow, MoveOnly
    <3>4. QED
      BY <3>2, <3>3
  <2>8. ASSUME NEW w \in Workers, CallTimed(w) \/ SkipObserve(w)
        PROVE  WakeInv'
    BY <2>8 DEF CallTimed, SkipObserve
  <2>9. ASSUME NEW w \in Workers, Release(w)
        PROVE  WakeInv'
    BY <2>9 DEF Release, Broadcast
  <2>10. ASSUME NEW w \in Workers, EndJob(w) \/ NextJob(w)
         PROVE  WakeInv'
    BY <2>10 DEF EndJob, NextJob
  <2>11. CASE UNCHANGED vars
    BY <2>11 DEF vars
  <2>12. QED
    BY <2>1, <2>2, <2>3, <2>4, <2>5, <2>6, <2>7, <2>8, <2>9, <2>10, <2>11
       DEF Next, Step, Observe
<1>3. WakeInv => NoLostWakeup
  BY DEF WakeInv, NoLostWakeup
<1>4. QED
  BY <1>1, <1>2, <1>3, TypeCorrect, PTL DEF Spec

-----------------------------------------------------------------------------

\* A step that keeps every owner and the count keeps the accounting.
LEMMA SameSlots ==
  ASSUME SlotsAccounted, inflight' = inflight, Holders' = Holders
  PROVE  SlotsAccounted'
  BY DEF SlotsAccounted

\* inflight counts the owners of slots, and max bounds it: at the acquire that
\* reaches it, limit <= max; a later cut of the limit changes nothing.
THEOREM SlotsCounted == Spec => []SlotsAccounted
<1>1. Init => SlotsAccounted
  <2> SUFFICES ASSUME Init PROVE SlotsAccounted
    OBVIOUS
  <2>1. Holders = {}
    BY DEF Init, Holders
  <2>2. QED
    BY <2>1, FS_EmptySet, Clamped DEF Init, SlotsAccounted
<1>2. TypeOK /\ SlotsAccounted /\ [Next]_vars => SlotsAccounted'
  <2> SUFFICES ASSUME TypeOK, SlotsAccounted, [Next]_vars
               PROVE  SlotsAccounted'
    OBVIOUS
  <2> USE DEF TypeOK, PCs, sampleVars
  <2>1. ASSUME NEW w \in Workers, Enter(w) \/ Wait(w) \/ GiveUp(w) \/ WakeOnDone(w)
        PROVE  SlotsAccounted'
    <3>1. Holders' = Holders /\ inflight' = inflight
      BY <2>1 DEF Enter, Wait, GiveUp, WakeOnDone, Broadcast, Holders
    <3>2. QED
      BY <3>1, SameSlots
  <2>2. ASSUME NEW w \in Workers, Acquire(w)
        PROVE  SlotsAccounted'
    <3>1. Holders' = Holders \union {w} /\ w \notin Holders
      BY <2>2 DEF Acquire, Holders
    <3>2. Cardinality(Holders') = Cardinality(Holders) + 1
      BY <3>1, HoldersFinite, FS_AddElement
    <3>3. inflight + 1 <= max
      BY <2>2, Clamped DEF Acquire
    <3>4. QED
      BY <2>2, <3>2, <3>3 DEF Acquire, SlotsAccounted
  <2>3. ASSUME NEW w \in Workers, NEW isSlow \in BOOLEAN, NEW isFast \in BOOLEAN,
               ObserveSample(w, isSlow, isFast) \/ ObserveWindow(w, isSlow, isFast)
        PROVE  SlotsAccounted'
    <3>1. Holders' = Holders /\ inflight' = inflight
      BY <2>3 DEF ObserveSample, ObserveWindow, Broadcast, MoveOnly, Holders
    <3>2. QED
      BY <3>1, SameSlots
  <2>4. ASSUME NEW w \in Workers, CallTimed(w) \/ SkipObserve(w)
        PROVE  SlotsAccounted'
    <3>1. Holders' = Holders /\ inflight' = inflight
      BY <2>4 DEF CallTimed, SkipObserve, Holders
    <3>2. QED
      BY <3>1, SameSlots
  <2>5. ASSUME NEW w \in Workers, Release(w)
        PROVE  SlotsAccounted'
    <3>1. Holders' = Holders \ {w} /\ w \in Holders
      BY <2>5 DEF Release, Broadcast, Holders
    <3>2. Cardinality(Holders') = Cardinality(Holders) - 1
      BY <3>1, HoldersFinite, FS_RemoveElement
    <3>3. inflight > 0
      BY <3>1, HoldersFinite, FS_EmptySet DEF SlotsAccounted
    <3>4. QED
      BY <2>5, <3>2, <3>3, Clamped DEF Release, SlotsAccounted
  <2>6. ASSUME NEW w \in Workers, EndJob(w) \/ NextJob(w)
        PROVE  SlotsAccounted'
    <3>1. Holders' = Holders /\ inflight' = inflight
      BY <2>6 DEF EndJob, NextJob, Holders
    <3>2. QED
      BY <3>1, SameSlots
  <2>7. CASE UNCHANGED vars
    <3>1. Holders' = Holders /\ inflight' = inflight
      BY <2>7 DEF vars, Holders
    <3>2. QED
      BY <3>1, SameSlots
  <2>8. QED
    BY <2>1, <2>2, <2>3, <2>4, <2>5, <2>6, <2>7 DEF Next, Step, Observe
<1>3. QED
  BY <1>1, <1>2, TypeCorrect, PTL DEF Spec

-----------------------------------------------------------------------------

\* After a cut of the limit below inflight, no acquire adds to the excess.
THEOREM ExcessOnlyDrains == Spec => ExcessDrains
<1>1. TypeOK /\ [Next]_vars => [inflight >= limit => inflight' <= inflight]_vars
  <2> SUFFICES ASSUME TypeOK, NEW w \in Workers, inflight >= limit,
                      Enter(w) \/ Step(w) \/ EndJob(w) \/ NextJob(w)
               PROVE  inflight' <= inflight
    BY DEF Next
  <2>1. inflight \in Nat /\ limit \in Int
    BY Clamped DEF TypeOK
  <2>2. ~Acquire(w)
    BY <2>1 DEF Acquire
  <2>3. CASE Release(w)
    BY <2>1, <2>3 DEF Release
  <2>4. CASE ~Release(w)
    <3>1. inflight' = inflight
      BY <2>2, <2>4 DEF Enter, Step, Wait, GiveUp, WakeOnDone, Observe, CallTimed,
         ObserveSample, ObserveWindow, SkipObserve, EndJob, NextJob
    <3> QED BY <2>1, <3>1
  <2> QED BY <2>3, <2>4
<1> QED
  BY <1>1, TypeCorrect, PTL DEF Spec, ExcessDrains

\* Nobody waits for a slot that nobody has: a worker asleep in cond.Wait has a
\* worker that owns a slot and will broadcast when it gives it back, however far
\* the limit was cut; and one whose job has ended has its own wake-up coming.  This
\* is the safety half of NoStall and EndedJobsLeave, for any workers and settings
\* (acquire, release, setLimitLocked).
THEOREM NobodyWaitsAlone ==
  Spec => [](\A w \in Workers : pc[w] = "wait" => Holders # {} /\ (w \in ctxDone => w \in watch))
<1>1. TypeOK /\ SlotsAccounted /\ NoLostWakeup =>
        \A w \in Workers : pc[w] = "wait" => Holders # {} /\ (w \in ctxDone => w \in watch)
  <2> SUFFICES ASSUME TypeOK, SlotsAccounted, NoLostWakeup, NEW w \in Workers, pc[w] = "wait"
               PROVE  Holders # {} /\ (w \in ctxDone => w \in watch)
    OBVIOUS
  <2>1. inflight >= limit /\ (w \in ctxDone => w \in watch)
    BY DEF NoLostWakeup
  <2>2. limit \in Int /\ limit >= 1 /\ inflight \in Nat
    BY Clamped DEF TypeOK
  <2>3. Cardinality(Holders) # 0
    BY <2>1, <2>2 DEF SlotsAccounted
  <2>4. Holders # {}
    BY <2>3, FS_EmptySet
  <2> QED BY <2>1, <2>4
<1> QED BY <1>1, TypeCorrect, SlotsCounted, WakeupsDelivered, PTL
=============================================================================
