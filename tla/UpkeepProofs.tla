------------------------------ MODULE UpkeepProofs ------------------------------
(* Proofs about KnownProviders, IPInfo and RejectedContracts, for any       *)
(* providers, agents and relations, and any limits that meet their         *)
(* assumptions.                                                            *)
EXTENDS KnownProviders, IPInfo, RejectedContracts, TLAPS

-----------------------------------------------------------------------------
(* UpdateKnownProviders.                                                   *)

\* What a run saves of a provider.
LEMMA StatusType == \A p \in Providers : statusOf(p) \in {"online", "offline"}
BY DEF statusOf

\* Every step of the workers keeps the types.
LEMMA KnownTypeStep == KnownTypeOK /\ [KnownNext]_knownVars => KnownTypeOK'
<1> SUFFICES ASSUME KnownTypeOK, [KnownNext]_knownVars PROVE KnownTypeOK'
  OBVIOUS
<1> USE DEF KnownTypeOK, knownDB, callVars
<1>e. <<>> \in Seq(SUBSET Providers)
  OBVIOUS
<1>1. CASE StartRates \/ NobodyAnswered \/ AddStatusesFails
  BY <1>1, <1>e DEF StartRates, NobodyAnswered, AddStatusesFails, Idle
<1>2. CASE AddStatuses
  <2>1. /\ isOnline' \in [Providers -> {"none", "online", "offline"}]
        /\ history' \in [Providers -> SUBSET {"online", "offline"}]
    BY <1>2, StatusType DEF AddStatuses
  <2>2. lastOnline' \subseteq Providers /\ updates' \subseteq Providers
    BY <1>2 DEF AddStatuses, savedLastOnline, online
  <2> QED BY <1>2, <1>e, <2>1, <2>2 DEF AddStatuses
<1>3. CASE UpdateProviders \/ UpdateProvidersFails \/ RestartRates
  BY <1>3, <1>e DEF UpdateProviders, UpdateProvidersFails, RestartRates, Idle
<1>4. ASSUME NEW a \in Agents, AgentAnswers(a) PROVE KnownTypeOK'
  <2>1. responses' \in Seq(SUBSET Providers)
    BY <1>4 DEF AgentAnswers
  <2> QED BY <1>4, <2>1 DEF AgentAnswers, Returned
<1>5. ASSUME NEW a \in Agents, AgentFails(a) PROVE KnownTypeOK'
  BY <1>5 DEF AgentFails, Returned
<1>6. CASE UpdateUptime
  BY <1>6 DEF UpdateUptime, uptimeOf
<1>7. CASE UpdateRating
  BY <1>7 DEF UpdateRating, ratingOf
<1>8. CASE CleanupOldData
  BY <1>8 DEF CleanupOldData, CleanOldStatusesHistory
<1>9. CASE AddProviders
  BY <1>9 DEF AddProviders
<1>10. CASE ChangeReach
  BY <1>10 DEF ChangeReach
<1>11. CASE UNCHANGED knownVars
  BY <1>11 DEF knownVars
<1> QED
  BY <1>1, <1>2, <1>3, <1>4, <1>5, <1>6, <1>7, <1>8, <1>9, <1>10, <1>11
  DEF KnownNext, RatesStep, RatesFails, KnownOthers

LEMMA KnownTypeInit == KnownInit => KnownTypeOK
BY DEF KnownInit, KnownTypeOK

\* The tables of UpdateKnownProviders and its call keep their types.
THEOREM KnownTypeCorrect == KnownSpec => []KnownTypeOK
BY KnownTypeInit, KnownTypeStep, PTL DEF KnownSpec

\* Between the two writes an online provider has rates or is about to get them.
RatesInv ==
  /\ OnlineHasRates
  /\ pc = "update" => \A p \in Providers : isOnline[p] = "online" /\ p \notin torn => p \in initialized \union updates

LEMMA RatesInvStep == KnownTypeOK /\ RatesInv /\ [KnownNext]_knownVars => RatesInv'
<1> SUFFICES ASSUME KnownTypeOK, RatesInv, [KnownNext]_knownVars PROVE RatesInv'
  OBVIOUS
<1> USE DEF RatesInv, OnlineHasRates, knownDB, callVars
<1>1. CASE StartRates \/ NobodyAnswered \/ AddStatusesFails
  BY <1>1 DEF StartRates, NobodyAnswered, AddStatusesFails, Idle
<1>2. CASE AddStatuses
  BY <1>2 DEF AddStatuses, online, KnownTypeOK
<1>3. CASE UpdateProviders \/ UpdateProvidersFails \/ RestartRates
  BY <1>3 DEF UpdateProviders, UpdateProvidersFails, RestartRates, Idle
<1>4. ASSUME NEW a \in Agents, AgentAnswers(a) \/ AgentFails(a) PROVE RatesInv'
  BY <1>4 DEF AgentAnswers, AgentFails
<1>5. CASE KnownOthers \/ ChangeReach \/ UNCHANGED knownVars
  BY <1>5 DEF KnownOthers, UpdateUptime, UpdateRating, CleanupOldData, AddProviders, ChangeReach, knownVars
<1> QED
  BY <1>1, <1>2, <1>3, <1>4, <1>5 DEF KnownNext, RatesStep, RatesFails

\* A provider shown as online has rates, but for the time between AddStatuses and
\* UpdateProviders and after a run that ended there.
THEOREM OnlineIsRated == KnownSpec => []OnlineHasRates
<1>1. KnownInit => RatesInv
  BY DEF KnownInit, RatesInv, OnlineHasRates
<1>2. KnownSpec => [](KnownTypeOK /\ RatesInv)
  BY <1>1, KnownTypeInit, KnownTypeStep, RatesInvStep, PTL DEF KnownSpec
<1> QED BY <1>2, PTL DEF RatesInv

\* The chain a positive rating comes from, each link older than the next: history,
\* uptime, rating.  All of them had last_online written before.
OnlineInv ==
  \A p \in Providers :
    "online" \in history[p] \/ uptime[p] = "positive" \/ rating[p] = "positive" => p \in lastOnline

LEMMA OnlineInvStep == KnownTypeOK /\ OnlineInv /\ [KnownNext]_knownVars => OnlineInv'
<1> SUFFICES ASSUME KnownTypeOK, OnlineInv, [KnownNext]_knownVars PROVE OnlineInv'
  OBVIOUS
<1> USE DEF OnlineInv, knownDB, callVars
<1>1. CASE AddStatuses
  BY <1>1 DEF AddStatuses, savedLastOnline, KnownTypeOK
<1>2. CASE UpdateUptime
  BY <1>2 DEF UpdateUptime, uptimeOf
<1>3. CASE UpdateRating
  BY <1>3 DEF UpdateRating, ratingOf
<1>4. CASE CleanupOldData
  BY <1>4 DEF CleanupOldData, CleanOldStatusesHistory, KnownTypeOK
<1>5. ASSUME UNCHANGED <<history, uptime, rating, lastOnline>> PROVE OnlineInv'
  BY <1>5
<1>6. \A a \in Agents : AgentAnswers(a) \/ AgentFails(a) => UNCHANGED <<history, uptime, rating, lastOnline>>
  BY DEF AgentAnswers, AgentFails
<1>7. StartRates \/ NobodyAnswered \/ AddStatusesFails \/ UpdateProviders \/ UpdateProvidersFails
      \/ RestartRates \/ AddProviders \/ ChangeReach \/ UNCHANGED knownVars
        => UNCHANGED <<history, uptime, rating, lastOnline>>
  BY DEF StartRates, NobodyAnswered, AddStatusesFails, UpdateProviders, UpdateProvidersFails,
         RestartRates, AddProviders, ChangeReach, knownVars
<1> QED
  BY <1>1, <1>2, <1>3, <1>4, <1>5, <1>6, <1>7 DEF KnownNext, RatesStep, RatesFails, KnownOthers

\* A positive rating is that of a provider with a row in last_online, whatever the
\* cleaner removed (save_last_online, UpdateUptime, UpdateRating, CleanupOldData).
THEOREM RatedIsKnown == KnownSpec => []RatedWasOnline
<1>1. KnownInit => OnlineInv
  BY DEF KnownInit, OnlineInv
<1>2. KnownSpec => [](KnownTypeOK /\ OnlineInv)
  BY <1>1, KnownTypeInit, KnownTypeStep, OnlineInvStep, PTL DEF KnownSpec
<1>3. OnlineInv => RatedWasOnline
  BY DEF OnlineInv, RatedWasOnline
<1> QED BY <1>2, <1>3, PTL

-----------------------------------------------------------------------------
(* UpdateIPInfo.                                                           *)

LEMMA IPTypeStep == IPTypeOK /\ [IPNext]_ipVars => IPTypeOK'
<1> SUFFICES ASSUME IPTypeOK, [IPNext]_ipVars PROVE IPTypeOK'
  OBVIOUS
<1> USE IPInfoAssumption DEF IPTypeOK, None
<1>1. CASE GetProvidersIPs \/ UpdateProvidersIPInfo
  BY <1>1 DEF GetProvidersIPs, UpdateProvidersIPInfo
<1>2. ASSUME NEW h \in Hosts, GetIPInfo(h) \/ GetIPInfoFails(h) PROVE IPTypeOK'
  BY <1>2 DEF GetIPInfo, GetIPInfoFails
<1>3. CASE UpdateIPInfoFails \/ RestartIPInfo \/ UNCHANGED ipVars
  BY <1>3 DEF UpdateIPInfoFails, RestartIPInfo, ipVars
<1>4. CASE NewIP
  BY <1>4 DEF NewIP
<1> QED BY <1>1, <1>2, <1>3, <1>4 DEF IPNext, IPStep, IPFails

\* Addresses and descriptions stay among those a provider has had.
THEOREM IPTypeCorrect == IPSpec => []IPTypeOK
<1>1. IPInit => IPTypeOK
  BY IPInfoAssumption DEF IPInit, IPTypeOK, None
<1> QED BY <1>1, IPTypeStep, PTL DEF IPSpec

-----------------------------------------------------------------------------
(* updateRejectedContracts.                                                *)

MaybeListing == Listing \union {Off}

\* Time passes over a listing without changing more than its age.
LEMMA OlderType ==
  ASSUME NEW f \in [Relations -> MaybeListing]
  PROVE  /\ Older(f) \in [Relations -> MaybeListing]
         /\ \A r \in Relations :
              \/ f[r] = Off /\ Older(f)[r] = Off
              \/ /\ f[r] \in Listing /\ Older(f)[r] \in Listing
                 /\ Older(f)[r].short = f[r].short
                 /\ Older(f)[r].since = IF f[r].since < Late THEN f[r].since + 1 ELSE f[r].since
<1>1. ASSUME NEW r \in Relations
      PROVE  \/ f[r] = Off /\ Older(f)[r] = Off
             \/ /\ f[r] \in Listing /\ Older(f)[r] \in Listing
                /\ Older(f)[r].short = f[r].short
                /\ Older(f)[r].since = IF f[r].since < Late THEN f[r].since + 1 ELSE f[r].since
  <2>1. CASE f[r] = Off
    BY <2>1 DEF Older
  <2>2. CASE f[r] # Off
    <3>1. f[r] \in Listing
      BY <2>2 DEF MaybeListing
    <3>2. Late \in Nat /\ Never = Late + 1
      BY RejectedAssumption DEF Late, Never
    <3>3. CASE f[r].since < Late
      <4>1. Older(f)[r] = [f[r] EXCEPT !.since = @ + 1]
        BY <2>2, <3>3 DEF Older
      <4> QED BY <3>1, <3>2, <3>3, <4>1 DEF Listing
    <3>4. CASE ~(f[r].since < Late)
      BY <3>1, <3>4 DEF Older
    <3> QED BY <3>3, <3>4
  <2> QED BY <2>1, <2>2
<1>2. Older(f) = [r \in Relations |-> Older(f)[r]]
  BY DEF Older
<1> HIDE DEF Older
<1> QED BY <1>1, <1>2 DEF MaybeListing

LEMMA NothingType == Nothing \in [Relations -> MaybeListing]
BY DEF Nothing, MaybeListing

LEMMA ExceptType ==
  ASSUME NEW f \in [Relations -> MaybeListing], NEW g \in [Relations -> MaybeListing], NEW S
  PROVE  Except(f, S, g) \in [Relations -> MaybeListing]
BY DEF Except

\* Every step keeps the types.
LEMMA RejectTypeStep == RejectTypeOK /\ [RejectNext]_rejectVars => RejectTypeOK'
<1> SUFFICES ASSUME RejectTypeOK, [RejectNext]_rejectVars PROVE RejectTypeOK'
  OBVIOUS
<1>t. /\ chain \in [Relations -> MaybeListing] /\ block \in [Relations -> MaybeListing]
      /\ seen \in [Relations -> MaybeListing]
  BY DEF RejectTypeOK, MaybeListing
<1>c. MaxRun \in Nat /\ Late \in Nat /\ Never = Late + 1
  BY RejectedAssumption DEF Late, Never
<1> DEFINE Step == \/ RejectStep \/ RejectFails \/ ScanStep \/ ScanFails \/ ChainStep
<1>0. CASE UNCHANGED rejectVars
  BY <1>0 DEF rejectVars, chainVars, runVars, RejectTypeOK
<1>1. ASSUME Step, TrackOverdue PROVE RejectTypeOK'
  <2>1. CASE ChainStep
    <3>1. chain' \in [Relations -> MaybeListing]
      <4>1. ASSUME NEW r \in Relations, ListOrDrop(r) PROVE chain' \in [Relations -> MaybeListing]
        <5>1. [short |-> FALSE, since |-> Never] \in Listing
          BY <1>c DEF Listing
        <5> QED BY <4>1, <5>1, <1>t DEF ListOrDrop, MaybeListing
      <4>2. ASSUME NEW r \in Relations, ChangeBalance(r) \/ Prove(r) PROVE chain' \in [Relations -> MaybeListing]
        <5>1. chain[r] \in Listing
          BY <4>2, <1>t DEF ChangeBalance, Prove, MaybeListing
        <5>2. [chain[r] EXCEPT !.short = ~chain[r].short] \in Listing
          BY <5>1 DEF Listing
        <5>3. [chain[r] EXCEPT !.since = 0] \in Listing
          BY <5>1, <1>c DEF Listing
        <5>4. chain' = [chain EXCEPT ![r] = [chain[r] EXCEPT !.short = ~chain[r].short]]
              \/ chain' = [chain EXCEPT ![r] = [chain[r] EXCEPT !.since = 0]]
          BY <4>2 DEF ChangeBalance, Prove
        <5> QED BY <5>2, <5>3, <5>4, <1>t DEF MaybeListing
      <4>3. CASE PassTime
        BY <4>3, <1>t, OlderType DEF PassTime
      <4> QED BY <2>1, <4>1, <4>2, <4>3 DEF ChainStep
    <3>2. block' \in [Relations -> MaybeListing] /\ seen' \in [Relations -> MaybeListing] /\ runTime' \in 0..MaxRun
      <4>1. CASE PassTime
        <5>1. runTime' \in 0..MaxRun
          BY <4>1, <1>c DEF PassTime, RejectTypeOK
        <5> QED BY <4>1, <5>1, <1>t, OlderType DEF PassTime
      <4>2. CASE UNCHANGED runVars
        BY <4>2, <1>t DEF runVars, RejectTypeOK
      <4> QED BY <2>1, <4>1, <4>2 DEF ChainStep, ListOrDrop, ChangeBalance, Prove
    <3>3. /\ withdrawn' \subseteq Relations /\ UNCHANGED <<scanned, storageContracts, stage, held, answer>>
      BY <2>1 DEF ChainStep, ListOrDrop, ChangeBalance, Prove, PassTime, runVars, RejectTypeOK
    <3> QED BY <1>1, <3>1, <3>2, <3>3 DEF TrackOverdue, RejectTypeOK, MaybeListing
  <2>2. CASE ScanStep \/ ScanFails
    BY <1>1, <2>2 DEF ScanStep, ScanWallets, AddStorageContracts, ScanFails, chainVars, runVars, TrackOverdue, RejectTypeOK
  <2>3. CASE GetStorageContracts
    BY <1>1, <2>3 DEF GetStorageContracts, chainVars, TrackOverdue, RejectTypeOK
  <2>4. CASE GetMasterchainInfo
    <3>1. block' \in [Relations -> MaybeListing]
      BY <2>4, <1>t DEF GetMasterchainInfo, MaybeListing
    <3> QED BY <1>1, <2>4, <3>1 DEF GetMasterchainInfo, chainVars, TrackOverdue, RejectTypeOK, MaybeListing
  <2>5. ASSUME NEW c \in Contracts, GetProviders(c) \/ GetProvidersRefreshed(c) \/ GetProvidersFails(c) PROVE RejectTypeOK'
    <3>1. block' \in [Relations -> MaybeListing] /\ seen' \in [Relations -> MaybeListing]
      BY <2>5, <1>t, NothingType, ExceptType DEF GetProviders, GetProvidersRefreshed, GetProvidersFails, Returns
    <3>2. answer' \in [Contracts -> {"none", "ok", "LiteServerError"}]
      BY <2>5 DEF GetProviders, GetProvidersRefreshed, GetProvidersFails, Returns, RejectTypeOK
    <3>3. UNCHANGED <<chainVars, scanned, storageContracts, stage, held, runTime>>
      BY <2>5 DEF GetProviders, GetProvidersRefreshed, GetProvidersFails, Returns
    <3> QED BY <1>1, <3>1, <3>2, <3>3 DEF chainVars, TrackOverdue, RejectTypeOK, MaybeListing
  <2>6. CASE UpdateRejectedStorageContracts \/ RunFails
    <3>1. EndRun /\ UNCHANGED <<chainVars, scanned>> /\ storageContracts' \subseteq Relations
      BY <2>6 DEF UpdateRejectedStorageContracts, RunFails, RejectTypeOK
    <3> QED BY <1>1, <1>c, <3>1, NothingType DEF EndRun, Unasked, chainVars, TrackOverdue, RejectTypeOK, MaybeListing
  <2> QED BY <1>1, <2>1, <2>2, <2>3, <2>4, <2>5, <2>6 DEF RejectStep, RejectFails
<1> QED BY <1>0, <1>1 DEF RejectNext

LEMMA RejectTypeInit == RejectInit => RejectTypeOK
BY RejectedAssumption, NothingType DEF RejectInit, RejectTypeOK, MaybeListing, Unasked

\* updateRejectedContracts and the scan beside it keep their types.
THEOREM RejectTypeCorrect == RejectSpec => []RejectTypeOK
BY RejectTypeInit, RejectTypeStep, PTL DEF RejectSpec

\* An answer as it was t ago that would have said even then that the row is not backed.
PastNotBacked(l, t) == l = Off \/ (l.short /\ l.since # Never /\ l.since > MaxSpan + t)

\* A listing that ages with the run keeps what it says of the time of the block.
LEMMA PastOlder ==
  ASSUME NEW f \in [Relations -> MaybeListing], NEW r \in Relations, NEW t \in Nat, t < MaxRun,
         PastNotBacked(Older(f)[r], t + 1)
  PROVE  PastNotBacked(f[r], t)
<1>1. /\ MaxSpan \in Nat /\ Grace \in Nat /\ MaxRun \in Nat /\ MaxRun <= Grace /\ Off \notin Listing
      /\ Late = MaxSpan + Grace + 1 /\ Never = Late + 1
  BY RejectedAssumption DEF Late, Never
<1>2. CASE f[r] = Off
  BY <1>2 DEF PastNotBacked
<1>3. CASE f[r] # Off
  <2>1. /\ f[r] \in Listing /\ Older(f)[r] \in Listing /\ Older(f)[r].short = f[r].short
        /\ Older(f)[r].since = IF f[r].since < Late THEN f[r].since + 1 ELSE f[r].since
    BY <1>3, OlderType
  <2>2. f[r].since \in 0..Never /\ Older(f)[r] # Off
    BY <1>1, <2>1 DEF Listing
  <2>3. Older(f)[r].short /\ Older(f)[r].since # Never /\ Older(f)[r].since > MaxSpan + (t + 1)
    BY <2>2 DEF PastNotBacked
  <2>4. f[r].since # Never /\ f[r].since > MaxSpan + t
    BY <1>1, <2>1, <2>2, <2>3
  <2> QED BY <2>1, <2>3, <2>4 DEF PastNotBacked
<1> QED BY <1>2, <1>3

\* What was not backed that long ago is not backed.
LEMMA PastIsNotBacked ==
  ASSUME NEW l \in MaybeListing, NEW t \in Nat, PastNotBacked(l, t) PROVE NotBacked(l)
<1>1. MaxSpan \in Nat /\ Late \in Nat /\ Never = Late + 1
  BY RejectedAssumption DEF Late, Never
<1>2. CASE l = Off
  BY <1>2 DEF NotBacked
<1>3. CASE l # Off
  <2>1. l.since \in 0..Never
    BY <1>3 DEF MaybeListing, Listing
  <2> QED BY <1>1, <1>3, <2>1 DEF PastNotBacked, NotBacked
<1> QED BY <1>2, <1>3

\* What the run has of a row is enough to tell that it was overdue since the block.
OverdueInv ==
  /\ stage # "read" => answer = Unasked
  /\ stage = "read" =>
       \A r \in held :
         /\ NotBacked(chain[r]) => r \in overdue
         /\ answer[ContractOf[r]] = "none" /\ PastNotBacked(block[r], runTime) => r \in overdue
         /\ answer[ContractOf[r]] = "ok" /\ PastNotBacked(seen[r], runTime) => r \in overdue

LEMMA OverdueStep == RejectTypeOK /\ OverdueInv /\ [RejectNext]_rejectVars => OverdueInv'
<1> SUFFICES ASSUME RejectTypeOK, OverdueInv, [RejectNext]_rejectVars PROVE OverdueInv'
  OBVIOUS
<1>t. /\ chain \in [Relations -> MaybeListing] /\ block \in [Relations -> MaybeListing]
      /\ seen \in [Relations -> MaybeListing] /\ held \subseteq Relations /\ runTime \in Nat
  BY RejectedAssumption DEF RejectTypeOK, MaybeListing
<1>c. \A r \in Relations : ContractOf[r] \in Contracts
  BY RejectedAssumption
<1>0. CASE UNCHANGED rejectVars
  BY <1>0 DEF rejectVars, chainVars, runVars, OverdueInv, NotBacked, PastNotBacked
<1>1. ASSUME TrackOverdue, stage' = "read" PROVE overdue \subseteq overdue' /\ \A r \in held' : NotBacked(chain'[r]) => r \in overdue'
  BY <1>1 DEF TrackOverdue
<1>2. ASSUME TrackOverdue, UNCHANGED runVars PROVE OverdueInv'
  BY <1>1, <1>2 DEF runVars, OverdueInv
<1>3. ASSUME TrackOverdue, PassTime PROVE OverdueInv'
  <2>1. stage' = stage /\ held' = held /\ answer' = answer
    BY <1>3 DEF PassTime
  <2>2. ASSUME stage = "read", NEW r \in held
        PROVE  /\ answer[ContractOf[r]] = "none" /\ PastNotBacked(block'[r], runTime') => r \in overdue'
               /\ answer[ContractOf[r]] = "ok" /\ PastNotBacked(seen'[r], runTime') => r \in overdue'
    <3>1. runTime < MaxRun /\ runTime' = runTime + 1 /\ block' = Older(block) /\ seen' = Older(seen)
      BY <1>3, <2>2 DEF PassTime
    <3>2. PastNotBacked(block'[r], runTime') => PastNotBacked(block[r], runTime)
      BY <1>t, <3>1, PastOlder
    <3>3. PastNotBacked(seen'[r], runTime') => PastNotBacked(seen[r], runTime)
      BY <1>t, <3>1, PastOlder
    <3>4. overdue \subseteq overdue'
      BY <1>1, <1>3, <2>1, <2>2
    <3> QED BY <2>2, <3>2, <3>3, <3>4 DEF OverdueInv
  <2> QED BY <1>1, <1>3, <2>1, <2>2 DEF OverdueInv
<1>4. ASSUME TrackOverdue, GetStorageContracts PROVE OverdueInv'
  BY <1>4 DEF GetStorageContracts, OverdueInv
<1>5. ASSUME TrackOverdue, GetMasterchainInfo PROVE OverdueInv'
  <2>1. /\ stage' = "read" /\ held' = held /\ chain' = chain /\ answer' = Unasked /\ runTime' = runTime
        /\ \A r \in held : block'[r] = chain[r]
    BY <1>5, <1>t DEF GetMasterchainInfo, chainVars, OverdueInv
  <2>2. \A r \in held : PastNotBacked(chain[r], runTime) => NotBacked(chain[r])
    BY <1>t, PastIsNotBacked
  <2>3. \A r \in held : Unasked[ContractOf[r]] = "none"
    BY <1>t, <1>c DEF Unasked
  <2> QED BY <1>1, <1>5, <2>1, <2>2, <2>3 DEF OverdueInv
<1>6. ASSUME TrackOverdue, NEW c \in Contracts, GetProviders(c) \/ GetProvidersRefreshed(c) \/ GetProvidersFails(c)
      PROVE OverdueInv'
  <2>1. /\ stage = "read" /\ stage' = "read" /\ held' = held /\ chain' = chain /\ runTime' = runTime
        /\ answer[c] = "none"
        /\ \A d \in Contracts : d # c => answer'[d] = answer[d]
        /\ answer'[c] \in {"ok", "LiteServerError"}
    BY <1>6 DEF GetProviders, GetProvidersRefreshed, GetProvidersFails, Returns, Asked, chainVars, RejectTypeOK
  <2>2. ASSUME NEW r \in held, ContractOf[r] # c PROVE block'[r] = block[r] /\ seen'[r] = seen[r]
    BY <1>6, <1>t, <2>2 DEF GetProviders, GetProvidersRefreshed, GetProvidersFails, Returns, Except, RowsOf
  <2>3. ASSUME NEW r \in held, ContractOf[r] = c, answer'[c] = "ok" PROVE seen'[r] \in {block[r], chain[r]}
    BY <1>6, <1>t, <2>3 DEF GetProviders, GetProvidersRefreshed, GetProvidersFails, Returns, Except, RowsOf, RejectTypeOK
  <2>4. \A r \in held : PastNotBacked(chain[r], runTime) => NotBacked(chain[r])
    BY <1>t, PastIsNotBacked
  <2>5. ASSUME NEW r \in held
        PROVE  /\ answer'[ContractOf[r]] = "none" /\ PastNotBacked(block'[r], runTime) => r \in overdue
               /\ answer'[ContractOf[r]] = "ok" /\ PastNotBacked(seen'[r], runTime) => r \in overdue
    <3>1. CASE ContractOf[r] = c
      BY <3>1, <2>1, <2>3, <2>4 DEF OverdueInv
    <3>2. CASE ContractOf[r] # c
      BY <3>2, <1>c, <1>t, <2>1, <2>2 DEF OverdueInv
    <3> QED BY <3>1, <3>2
  <2> QED BY <1>1, <1>6, <2>1, <2>5 DEF OverdueInv
<1>7. ASSUME TrackOverdue, UpdateRejectedStorageContracts \/ RunFails PROVE OverdueInv'
  BY <1>7 DEF UpdateRejectedStorageContracts, RunFails, EndRun, OverdueInv, Unasked
<1> QED
  BY <1>0, <1>2, <1>3, <1>4, <1>5, <1>6, <1>7
  DEF RejectNext, RejectStep, RejectFails, ScanStep, ScanFails, ScanWallets, AddStorageContracts,
      ChainStep, ListOrDrop, ChangeBalance, Prove

\* updateRejectedContracts deletes only rows the chain did not back at some time
\* since the block it pinned (GetProvidersInfo, isRemovedByLowBalance).
THEOREM OnlyOverdueDeleted == RejectSpec => DeletedWasOverdue
<1>1. RejectInit => OverdueInv
  BY DEF RejectInit, OverdueInv
<1>2. RejectTypeOK /\ OverdueInv /\ [RejectNext]_rejectVars => [DeletesOverdue]_rejectVars
  <2> SUFFICES ASSUME RejectTypeOK, OverdueInv, RejectNext PROVE DeletesOverdue
    BY DEF DeletesOverdue, rejectVars
  <2>1. CASE UpdateRejectedStorageContracts
    <3> SUFFICES ASSUME NEW r \in closedContracts PROVE r \in overdue
      BY <2>1 DEF UpdateRejectedStorageContracts, DeletesOverdue
    <3>1. /\ r \in held /\ answer[ContractOf[r]] = "ok" /\ stage = "read"
          /\ seen[r] = Off \/ isRemovedByLowBalance(seen[r])
      BY <2>1 DEF closedContracts, contractProviders, UpdateRejectedStorageContracts
    <3>2. /\ MaxSpan \in Nat /\ Grace \in Nat /\ runTime \in Nat /\ runTime <= Grace
          /\ Late \in Nat /\ Never = Late + 1
      BY RejectedAssumption DEF RejectTypeOK, Late, Never
    <3>3. seen[r] # Off => seen[r].since \in 0..Never
      BY <3>1 DEF RejectTypeOK, Listing
    <3>4. PastNotBacked(seen[r], runTime)
      BY <3>1, <3>2, <3>3 DEF isRemovedByLowBalance, PastNotBacked
    <3> QED BY <3>1, <3>4 DEF OverdueInv
  <2>2. CASE ~UpdateRejectedStorageContracts
    <3>1. storageContracts \subseteq storageContracts'
      BY <2>2 DEF RejectNext, RejectStep, RejectFails, ScanStep, ScanFails, ScanWallets, AddStorageContracts,
           ChainStep, ListOrDrop, ChangeBalance, Prove, PassTime, GetStorageContracts, GetMasterchainInfo,
           GetProviders, GetProvidersRefreshed, GetProvidersFails, Returns, RunFails
    <3> QED BY <3>1 DEF DeletesOverdue
  <2> QED BY <2>1, <2>2
<1>3. RejectSpec => [](RejectTypeOK /\ OverdueInv)
  BY <1>1, RejectTypeInit, RejectTypeStep, OverdueStep, PTL DEF RejectSpec
<1> QED BY <1>2, <1>3, PTL DEF RejectSpec, DeletedWasOverdue
=============================================================================
