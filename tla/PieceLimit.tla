------------------------------ MODULE PieceLimit ------------------------------
(***************************************************************************)
(* The agent's cap on concurrent GetPiece calls (pieceLimit): a counting   *)
(* semaphore on a condition variable whose limit moves by AIMD, shared by  *)
(* the bag workers of all providers and all jobs of one agent.             *)
(*                                                                         *)
(* Every section under p.mu is one step.  A piece's elapsed/budget ratio   *)
(* is abstracted to the two thresholds the code compares it with.          *)
(***************************************************************************)
EXTENDS Integers, FiniteSets

CONSTANTS
  Workers,      \* the goroutines that run checkPiece
  RawMin, RawMax, RawInitial, RawWindow   \* the arguments of newPieceLimit

ASSUME PieceLimitAssumption ==
  /\ IsFiniteSet(Workers)
  /\ RawMin \in Int /\ RawMax \in Int /\ RawInitial \in Int /\ RawWindow \in Int

\* newPieceLimit repairs its arguments.
min == IF RawMin < 1 THEN 1 ELSE RawMin
max == IF RawMax < min THEN min ELSE RawMax
initial == IF RawInitial < min THEN min ELSE IF RawInitial > max THEN max ELSE RawInitial
window == IF RawWindow < 1 THEN 16 ELSE RawWindow

VARIABLES
  inflight, limit,
  seen, slow, fast,  \* the samples of the current window, by speed
  pc,                \* where each worker is
  ctxDone,           \* workers whose job context has ended
  watch              \* the goroutine acquire starts: will it still broadcast?

vars == <<inflight, limit, seen, slow, fast, pc, ctxDone, watch>>
sampleVars == <<seen, slow, fast>>

\* idle: outside; want: in acquire, about to look; wait: in cond.Wait;
\* hold: the GetPiece call; sample: the call's time is to be observed;
\* done: all over but the slot.
PCs == {"idle", "want", "wait", "hold", "sample", "done"}

TypeOK ==
  /\ inflight \in Nat
  /\ limit \in min..max
  /\ seen \in Nat /\ slow \in Nat /\ fast \in Nat
  /\ seen < window
  /\ pc \in [Workers -> PCs]
  /\ ctxDone \subseteq Workers
  /\ watch \subseteq Workers

Init ==
  /\ inflight = 0
  /\ limit = initial
  /\ seen = 0 /\ slow = 0 /\ fast = 0
  /\ pc = [w \in Workers |-> "idle"]
  /\ ctxDone = {}
  /\ watch = {}

\* cond.Broadcast, for the pc the worker w moves to otherwise.
Broadcast(w, to) ==
  pc' = [v \in Workers |->
           IF v = w THEN to ELSE IF pc[v] = "wait" THEN "want" ELSE pc[v]]

\* The worker w moves, and nobody is woken.
MoveOnly(w, to) == pc' = [pc EXCEPT ![w] = to]

-----------------------------------------------------------------------------
(* acquire *)

Enter(w) ==
  /\ pc[w] = "idle"
  /\ pc' = [pc EXCEPT ![w] = "want"]
  /\ watch' = watch \union {w}
  /\ UNCHANGED <<inflight, limit, sampleVars, ctxDone>>

\* Mutant: the loop condition lets one call too many in.
AcquireOver(w) ==
  /\ pc[w] = "want" /\ inflight <= limit /\ w \notin ctxDone
  /\ inflight' = inflight + 1
  /\ pc' = [pc EXCEPT ![w] = "hold"]
  /\ watch' = watch \ {w}
  /\ UNCHANGED <<limit, sampleVars, ctxDone>>

Acquire(w) ==
  /\ pc[w] = "want" /\ inflight < limit /\ w \notin ctxDone
  /\ inflight' = inflight + 1
  /\ pc' = [pc EXCEPT ![w] = "hold"]
  /\ watch' = watch \ {w}
  /\ UNCHANGED <<limit, sampleVars, ctxDone>>

Wait(w) ==
  /\ pc[w] = "want" /\ inflight >= limit /\ w \notin ctxDone
  /\ pc' = [pc EXCEPT ![w] = "wait"]
  /\ UNCHANGED <<inflight, limit, sampleVars, ctxDone, watch>>

\* ctx.Err() is checked before every wait and before the slot is taken.
GiveUp(w) ==
  /\ pc[w] = "want" /\ w \in ctxDone
  /\ pc' = [pc EXCEPT ![w] = "idle"]
  /\ watch' = watch \ {w}
  /\ UNCHANGED <<inflight, limit, sampleVars, ctxDone>>

\* Mutant: the wake-up goroutine ends without broadcasting.
WakeOnDoneSilent(w) ==
  /\ w \in watch /\ w \in ctxDone
  /\ watch' = watch \ {w}
  /\ UNCHANGED <<inflight, limit, sampleVars, pc, ctxDone>>

\* The goroutine of acquire sees ctx.Done and broadcasts, once.  One that sees it
\* only as acquire returns may broadcast too, which makes waiters look in vain.
WakeOnDone(w) ==
  /\ w \in watch /\ w \in ctxDone
  /\ watch' = watch \ {w}
  /\ Broadcast(w, IF pc[w] = "wait" THEN "want" ELSE pc[w])
  /\ UNCHANGED <<inflight, limit, sampleVars, ctxDone>>

-----------------------------------------------------------------------------
(* observe and release *)

Halved == IF limit \div 2 < min THEN min ELSE limit \div 2

Raised == IF limit + 1 > max THEN max ELSE limit + 1

\* The call answered or ran into its own deadline while the job was alive; the
\* job may end between this test and observe.
CallTimed(w) ==
  /\ pc[w] = "hold" /\ w \notin ctxDone
  /\ pc' = [pc EXCEPT ![w] = "sample"]
  /\ UNCHANGED <<inflight, limit, sampleVars, ctxDone, watch>>

\* The sample does not fill the window.
ObserveSample(w, isSlow, isFast) ==
  /\ pc[w] = "sample"
  /\ seen + 1 < window
  /\ seen' = seen + 1
  /\ slow' = slow + (IF isSlow THEN 1 ELSE 0)
  /\ fast' = fast + (IF isFast THEN 1 ELSE 0)
  /\ pc' = [pc EXCEPT ![w] = "done"]
  /\ UNCHANGED <<inflight, limit, ctxDone, watch>>

\* The sample fills the window: the limit is decided and the window starts over.
ObserveWindow(w, isSlow, isFast) ==
  LET slows == slow + (IF isSlow THEN 1 ELSE 0)
      fasts == fast + (IF isFast THEN 1 ELSE 0)
  IN  /\ pc[w] = "sample"
      /\ seen + 1 >= window
      /\ seen' = 0 /\ slow' = 0 /\ fast' = 0
      /\ limit' = IF slows * 2 >= window THEN Halved
                  ELSE IF fasts = window THEN Raised ELSE limit
      /\ IF limit' > limit THEN Broadcast(w, "done") ELSE MoveOnly(w, "done")
      /\ UNCHANGED <<inflight, ctxDone, watch>>

\* The job is over, or the call failed for another reason than its deadline.
SkipObserve(w) ==
  /\ pc[w] = "hold"
  /\ pc' = [pc EXCEPT ![w] = "done"]
  /\ UNCHANGED <<inflight, limit, sampleVars, ctxDone, watch>>

\* Mutant: the waiters are not told that a slot is free.
ReleaseSilent(w) ==
  /\ pc[w] = "done"
  /\ inflight' = IF inflight > 0 THEN inflight - 1 ELSE inflight
  /\ pc' = [pc EXCEPT ![w] = "idle"]
  /\ UNCHANGED <<limit, sampleVars, ctxDone, watch>>

Release(w) ==
  /\ pc[w] = "done"
  /\ inflight' = IF inflight > 0 THEN inflight - 1 ELSE inflight
  /\ Broadcast(w, "idle")
  /\ UNCHANGED <<limit, sampleVars, ctxDone, watch>>

-----------------------------------------------------------------------------
(* The job context of a worker ends; later the worker serves another job. *)

EndJob(w) ==
  /\ w \notin ctxDone
  /\ ctxDone' = ctxDone \union {w}
  /\ UNCHANGED <<inflight, limit, sampleVars, pc, watch>>

NextJob(w) ==
  /\ w \in ctxDone /\ pc[w] = "idle"
  /\ ctxDone' = ctxDone \ {w}
  /\ UNCHANGED <<inflight, limit, sampleVars, pc, watch>>

Observe(w) ==
  \/ \E isSlow \in BOOLEAN, isFast \in BOOLEAN :
       /\ ~(isSlow /\ isFast)
       /\ ObserveSample(w, isSlow, isFast) \/ ObserveWindow(w, isSlow, isFast)
  \/ CallTimed(w) \/ SkipObserve(w)

Step(w) ==
  \/ Acquire(w) \/ Wait(w) \/ GiveUp(w) \/ WakeOnDone(w)
  \/ Observe(w) \/ Release(w)

Next == \E w \in Workers : Enter(w) \/ Step(w) \/ EndJob(w) \/ NextJob(w)

Spec == Init /\ [][Next]_vars

\* Goroutines that are in acquire and can run do.  A GetPiece call may hang, bags
\* need not keep coming and jobs need not end.
FairSpec ==
  /\ Spec
  /\ \A w \in Workers : WF_vars(Acquire(w) \/ Wait(w) \/ GiveUp(w) \/ WakeOnDone(w))

-----------------------------------------------------------------------------
(* Properties *)

Holders == {w \in Workers : pc[w] \in {"hold", "sample", "done"}}

\* inflight is exactly the number of workers that own a slot, whatever contexts
\* end meanwhile, and never more than max (acquire, release, the silent
\* "if inflight > 0" included).
SlotsAccounted == inflight = Cardinality(Holders) /\ inflight <= max

\* No worker sleeps in cond.Wait while a slot is free, and one whose context has
\* ended still has its wake-up coming (acquire, release, setLimitLocked).
NoLostWakeup ==
  \A w \in Workers :
    pc[w] = "wait" => inflight >= limit /\ (w \in ctxDone => w \in watch)

\* After a cut of the limit no call is let in before the excess is gone
\* (observe halves the limit below inflight).
ExcessDrains == [][inflight >= limit => inflight' <= inflight]_vars

\* A worker whose job has ended does not stay blocked in acquire, even if no
\* other worker ever gives its slot back (the goroutine of acquire).
EndedJobsLeave ==
  \A w \in Workers : (pc[w] \in {"want", "wait"} /\ w \in ctxDone) ~> (pc[w] \notin {"want", "wait"})

\* The limiter never stalls: a worker that asks for a slot leaves acquire, or a
\* worker holds a slot meanwhile (acquire's wait loop, release).
NoStall ==
  \A w \in Workers :
    pc[w] \in {"want", "wait"} ~> (Holders # {} \/ pc[w] \notin {"want", "wait"})
=============================================================================
