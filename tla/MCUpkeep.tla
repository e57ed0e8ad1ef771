-------------------------------- MODULE MCUpkeep --------------------------------
(***************************************************************************)
(* The workers that keep the public tables current.  They share none of    *)
(* the state modelled here, so a behaviour of all of them is a behaviour   *)
(* of each, and each is checked by itself: focus names the one that moves. *)
(***************************************************************************)
EXTENDS KnownProviders, IPInfo, RejectedContracts

VARIABLE focus

allVars == <<focus, knownVars, ipVars, rejectVars>>

OneContract == [r \in Relations |-> "c"]

Init ==
  /\ focus \in {"UpdateKnownProviders", "UpdateIPInfo", "updateRejectedContracts"}
  /\ KnownInit /\ IPInit /\ RejectInit

Known(A) == focus = "UpdateKnownProviders" /\ A /\ UNCHANGED <<focus, ipVars, rejectVars>>
Info(A) == focus = "UpdateIPInfo" /\ A /\ UNCHANGED <<focus, knownVars, rejectVars>>
Reject(A) == focus = "updateRejectedContracts" /\ A /\ UNCHANGED <<focus, knownVars, ipVars>>

Next == Known(KnownNext) \/ Info(IPNext) \/ Reject(RejectNext)

\* Each worker's loop goes on: its calls to agents, lite servers and services have
\* timeouts, and its SQL statements, which have none, are taken to return.
Spec ==
  /\ Init /\ [][Next]_allVars
  /\ WF_allVars(Known(RatesStep \/ RatesFails))
  /\ WF_allVars(Info(IPStep \/ IPFails))
  /\ WF_allVars(Reject((RejectStep \/ RejectFails) /\ TrackOverdue))
  /\ WF_allVars(Reject((ScanStep \/ ScanFails) /\ TrackOverdue))

\* Steps of a time in which no write and no agent fails and providers are
\* reached as before.
Regular == RatesStep \/ KnownOthers \/ \E a \in Agents : AgentRefuses(a)

\* Once agents answer, a registered provider gets the status it has: online if
\* it answers one of them, offline if it answers none.
StatusTracks ==
  <>[][Regular]_knownVars =>
    <>[](\A p \in registered : isOnline[p] = IF reach[p] = {} THEN "offline" ELSE "online")

\* Once the service answers, writes succeed and addresses stay, the description of
\* a provider is that of its address, also if the address changed while the last description was fetched.
InfoCatchesUp ==
  <>[][IPStep]_ipVars => <>[](ipInfo = ip)
=============================================================================
