----------------------------- MODULE ProofCommit -----------------------------
(***************************************************************************)
(* What StoreProof promises about the public reason of a bag: "successes   *)
(* and non-retriable errors are written immediately; transient fails are   *)
(* deferred until retry (or committed if retry is skipped)".               *)
(*                                                                         *)
(* A round checks all bags, publishes the definitive outcomes in one step  *)
(* and defers a set of bags; later it publishes some outcome for every     *)
(* deferred bag, in one step too.  A round may be abandoned at any time,   *)
(* which publishes nothing.                                                *)
(***************************************************************************)
EXTENDS ReasonCodes

CONSTANT Contracts

VARIABLES reason, phase, deferred

vars == <<reason, phase, deferred>>

Definitive == {r \in ReasonCode : ~isRetriableReason(r)}

Init ==
  /\ reason = [c \in Contracts |-> NoReason]
  /\ phase = "idle"
  /\ deferred = {}

Begin ==
  /\ phase = "idle"
  /\ phase' = "checking"
  /\ UNCHANGED <<reason, deferred>>

\* Rows the chain has closed lose their reason, before anything is published.
Forget ==
  /\ phase = "checking"
  /\ reason' \in [Contracts -> Reason]
  /\ \A c \in Contracts : reason'[c] \in {reason[c], NoReason}
  /\ UNCHANGED <<phase, deferred>>

PublishDefinitive ==
  /\ phase = "checking"
  /\ phase' = "deciding"
  /\ deferred' \subseteq Contracts
  /\ reason' \in [Contracts -> Reason]
  /\ \A c \in Contracts :
       \/ reason'[c] = reason[c]
       \/ c \notin deferred' /\ reason'[c] \in Definitive

PublishDeferred ==
  /\ phase = "deciding"
  /\ phase' = "settled"
  /\ deferred' = {}
  /\ reason' \in [Contracts -> Reason]
  /\ \A c \in Contracts :
       IF c \in deferred THEN reason'[c] \in ReasonCode ELSE reason'[c] = reason[c]

Close ==
  /\ phase' = "idle"
  /\ deferred' = {}
  /\ UNCHANGED reason

Next == Begin \/ Forget \/ PublishDefinitive \/ PublishDeferred \/ Close

Spec == Init /\ [][Next]_vars
=============================================================================
