--------------------------- MODULE LedgerScanProofs ---------------------------
(* Proofs about LedgerScan, for any ledger, providers, contracts and page size. *)
EXTENDS LedgerScan, TLAPS

\* The steps, with the answers of GetTransactions generalised to any part of the
\* wallet's history.
Cases ==
  \/ \E txs \in SUBSET Txs(Master) : collectFrom(txs)
  \/ SetParam
  \/ SetParamFails
  \/ AddProviders
  \/ AddProvidersFails
  \/ GetAllProvidersWallets
  \/ \E p \in Providers : \E txs \in SUBSET Txs(p) : scanFrom(p, txs)
  \/ \E p \in Providers : scanProviderTransactionsFails(p)
  \/ ScansDone
  \/ \E silent \in SUBSET Contracts : GetStorageContractsInfo(silent)
  \/ UpdateProvidersLT
  \/ ContractsFail
  \/ AddStorageContracts
  \/ AddStorageContractsFails
  \/ \E w \in Providers \union {Master}, m \in Providers \union Contracts \union {Other} : Post(w, m)
  \/ Crash

\* Every step of the specification is one of the cases: whatever GetTransactions
\* answers, cut short or complete, is a part of the wallet's history.
LEMMA NextCases == Next => Cases
<1>1. \A w, last : Complete(w, last) \in SUBSET Txs(w) /\ Cut(w, last) \subseteq SUBSET Txs(w)
  BY DEF Complete, Cut, Pages
<1>2. ASSUME ProvidersWorker PROVE Cases
  BY <1>1, <1>2 DEF ProvidersWorker, CollectNewProviders, Cases
<1>3. ASSUME ContractsWorker PROVE Cases
  <2>1. CASE \E p \in Providers : scanProviderTransactions(p)
    BY <1>1, <2>1 DEF scanProviderTransactions, Cases
  <2>2. CASE GetStorageContractsInfo({})
    BY <2>2 DEF Cases
  <2> QED BY <1>3, <2>1, <2>2 DEF ContractsWorker, Cases
<1>4. ASSUME Fault PROVE Cases
  <2>1. CASE CollectNewProvidersCut
    BY <1>1, <2>1 DEF CollectNewProvidersCut, Cases
  <2>2. CASE \E p \in Providers : scanProviderTransactionsCut(p)
    BY <1>1, <2>2 DEF scanProviderTransactionsCut, Cases
  <2> QED BY <1>4, <2>1, <2>2 DEF Fault, Cases
<1>5. ASSUME PostAny PROVE Cases
  BY <1>5 DEF PostAny, Cases
<1> QED BY <1>2, <1>3, <1>4, <1>5 DEF Next, Regular

-----------------------------------------------------------------------------
(* Types *)

\* Every step keeps the types: a contract is only ever noted for a provider that
\* is known, and what is given up is on the ledger.
LEMMA TypeStep == TypeOK /\ [Next]_vars => TypeOK'
<1> SUFFICES ASSUME TypeOK, [Next]_vars PROVE TypeOK'
  OBVIOUS
<1>t. \A w : Txs(w) \subseteq ledger
  BY DEF Txs
<1>l. \A t \in ledger : t.lt \in Nat
  BY DEF TypeOK, Tx
<1>c. \A w, last : Complete(w, last) \subseteq ledger
  BY DEF Complete, Txs
<1>0. CASE UNCHANGED vars
  BY <1>0 DEF TypeOK, vars
<1>1. ASSUME NEW txs \in SUBSET Txs(Master), collectFrom(txs) PROVE TypeOK'
  <2>1. biggestLT' \in Nat
    BY <1>1, <1>t, <1>l DEF collectFrom
  <2>2. missed' \subseteq ledger
    BY <1>1, <1>c DEF collectFrom, TypeOK
  <2> QED BY <1>1, <2>1, <2>2 DEF collectFrom, TypeOK, persistent, contractVars
<1>2. CASE SetParam
  BY <1>2 DEF SetParam, TypeOK, contractVars
<1>3. CASE SetParamFails
  BY <1>3 DEF SetParamFails, TypeOK, persistent, contractVars
<1>4. CASE AddProviders
  BY <1>4 DEF AddProviders, TypeOK, contractVars
<1>5. CASE AddProvidersFails
  BY <1>5, <1>t DEF AddProvidersFails, FoundTxs, TypeOK, persistent, contractVars
<1>6. CASE GetAllProvidersWallets
  BY <1>6 DEF GetAllProvidersWallets, TypeOK, persistent, newVars
<1>7. ASSUME NEW p \in Providers, NEW txs \in SUBSET Txs(p), scanFrom(p, txs) PROVE TypeOK'
  <2> DEFINE rewards == {t \in txs : t.about \in Contracts}
             lts == {walletLT[p]} \union {t.lt : t \in rewards}
  <2>1. lts \subseteq Nat
    BY <1>t, <1>l DEF TypeOK
  <2>2. newLT' \in [Providers -> Nat]
    BY <1>7, <2>1 DEF scanFrom, TypeOK
  <2>3. hits' \subseteq Contracts \X known
    BY <1>7 DEF scanFrom, TypeOK
  <2>4. missed' \subseteq ledger
    BY <1>7, <1>c DEF scanFrom, TypeOK
  <2> HIDE DEF rewards, lts
  <2> QED BY <1>7, <2>2, <2>3, <2>4 DEF scanFrom, TypeOK, persistent, newVars
<1>8. ASSUME NEW p \in Providers, scanProviderTransactionsFails(p) PROVE TypeOK'
  BY <1>8 DEF scanProviderTransactionsFails, TypeOK, persistent, newVars
<1>9. CASE ScansDone
  BY <1>9 DEF ScansDone, StopContracts, TypeOK, persistent, newVars
<1>10. ASSUME NEW silent \in SUBSET Contracts, GetStorageContractsInfo(silent) PROVE TypeOK'
  BY <1>10 DEF GetStorageContractsInfo, HitTxs, TypeOK, persistent, newVars
<1>11. CASE UpdateProvidersLT
  BY <1>11 DEF UpdateProvidersLT, TypeOK, newVars
<1>12. CASE ContractsFail
  BY <1>12 DEF ContractsFail, StopContracts, TypeOK, persistent, newVars
<1>13. CASE AddStorageContracts
  BY <1>13 DEF AddStorageContracts, StopContracts, TypeOK, newVars
<1>14. CASE AddStorageContractsFails
  BY <1>14 DEF AddStorageContractsFails, InsertedTxs, HitTxs, StopContracts, TypeOK, persistent, newVars
<1>15. ASSUME NEW w \in Providers \union {Master},
              NEW m \in Providers \union Contracts \union {Other}, Post(w, m)
       PROVE  TypeOK'
  BY <1>15 DEF Post, Tx, TypeOK, persistent, newVars, contractVars
<1>16. CASE Crash
  BY <1>16, <1>t DEF Crash, FoundTxs, InsertedTxs, HitTxs, StopContracts, TypeOK, persistent
<1> QED
  BY NextCases, <1>0, <1>1, <1>2, <1>3, <1>4, <1>5, <1>6, <1>7, <1>8, <1>9, <1>10, <1>11,
     <1>12, <1>13, <1>14, <1>15, <1>16 DEF Cases

\* The initial state has its types.
LEMMA TypeInit == Init => TypeOK
BY DEF Init, TypeOK

\* The workers that read the ledger keep their types, in memory and in the database.
THEOREM TypeCorrect == Spec => []TypeOK
BY TypeInit, TypeStep, PTL DEF Spec

-----------------------------------------------------------------------------
(* Nothing the workers remember is ahead of the ledger. *)

Bounds ==
  /\ \A t \in ledger : t.lt \in 1..height
  /\ lastLT <= height /\ biggestLT <= height
  /\ \A p \in Providers : walletLT[p] <= height /\ newLT[p] <= height

\* A transaction posted while a run is under way is newer than every LT the run
\* may save.
LEMMA BoundsStep == TypeOK /\ Bounds /\ [Next]_vars => Bounds'
<1> SUFFICES ASSUME TypeOK, Bounds, [Next]_vars PROVE Bounds'
  OBVIOUS
<1> USE DEF Bounds
<1>t. \A w : Txs(w) \subseteq ledger
  BY DEF Txs
<1>n. height \in Nat /\ lastLT \in Nat /\ biggestLT \in Nat /\ \A p \in Providers : walletLT[p] \in Nat
  BY DEF TypeOK
<1>0. CASE UNCHANGED vars
  BY <1>0 DEF vars
<1>1. ASSUME NEW txs \in SUBSET Txs(Master), collectFrom(txs) PROVE Bounds'
  <2>1. biggestLT' <= height
    BY <1>1, <1>t DEF collectFrom
  <2> QED BY <1>1, <2>1 DEF collectFrom, persistent, contractVars
<1>2. CASE SetParam
  BY <1>2 DEF SetParam, contractVars
<1>3. CASE SetParamFails
  BY <1>3 DEF SetParamFails, persistent, contractVars
<1>4. CASE AddProviders
  BY <1>4, <1>n DEF AddProviders, contractVars
<1>5. CASE AddProvidersFails
  BY <1>5, <1>n DEF AddProvidersFails, persistent, contractVars
<1>6. CASE GetAllProvidersWallets
  BY <1>6 DEF GetAllProvidersWallets, persistent, newVars
<1>7. ASSUME NEW p \in Providers, NEW txs \in SUBSET Txs(p), scanFrom(p, txs) PROVE Bounds'
  <2> DEFINE rewards == {t \in txs : t.about \in Contracts}
             lts == {walletLT[p]} \union {t.lt : t \in rewards}
  <2>1. \A l \in lts : l <= height
    BY <1>t
  <2>2. \A q \in Providers : newLT'[q] <= height
    BY <1>7, <2>1 DEF scanFrom, TypeOK
  <2> HIDE DEF rewards, lts
  <2> QED BY <1>7, <2>2 DEF scanFrom, persistent, newVars
<1>8. ASSUME NEW p \in Providers, scanProviderTransactionsFails(p) PROVE Bounds'
  BY <1>8 DEF scanProviderTransactionsFails, persistent, newVars
<1>9. CASE ScansDone
  BY <1>9, <1>n DEF ScansDone, StopContracts, persistent, newVars
<1>10. ASSUME NEW silent \in SUBSET Contracts, GetStorageContractsInfo(silent) PROVE Bounds'
  BY <1>10 DEF GetStorageContractsInfo, persistent, newVars
<1>11. CASE UpdateProvidersLT
  BY <1>11 DEF UpdateProvidersLT, newVars
<1>12. CASE ContractsFail
  BY <1>12, <1>n DEF ContractsFail, StopContracts, persistent, newVars
<1>13. CASE AddStorageContracts
  BY <1>13, <1>n DEF AddStorageContracts, StopContracts, newVars
<1>14. CASE AddStorageContractsFails
  BY <1>14, <1>n DEF AddStorageContractsFails, StopContracts, persistent, newVars
<1>15. ASSUME NEW w \in Providers \union {Master},
              NEW m \in Providers \union Contracts \union {Other}, Post(w, m)
       PROVE  Bounds'
  <2>1. height' = height + 1 /\ \A t \in ledger' : t \in ledger \/ t.lt = height'
    BY <1>15 DEF Post
  <2>2. \A t \in ledger' : t.lt \in 1..height'
    BY <2>1, <1>n
  <2>3. /\ UNCHANGED <<lastLT, biggestLT, walletLT, newLT>>
        /\ \A p \in Providers : newLT[p] \in Nat
    BY <1>15 DEF Post, persistent, newVars, contractVars, TypeOK
  <2> QED BY <2>1, <2>2, <2>3, <1>n
<1>16. CASE Crash
  BY <1>16, <1>n DEF Crash, StopContracts, persistent
<1> QED
  BY NextCases, <1>0, <1>1, <1>2, <1>3, <1>4, <1>5, <1>6, <1>7, <1>8, <1>9, <1>10, <1>11,
     <1>12, <1>13, <1>14, <1>15, <1>16 DEF Cases

-----------------------------------------------------------------------------
(* Registrations *)

\* Between the scan and the save, what the save will pass is accounted for.
RegistrationsPending ==
  npc = "save" =>
    \A t \in Txs(Master) :
      t.about \in Providers /\ t.lt > lastLT /\ t.lt <= biggestLT =>
        t.about \in known \union found \/ t \in missed

RegInv == RegistrationsAccounted /\ RegistrationsPending

\* A transaction newer than the last LT is part of the complete answer.
LEMMA NewerIsComplete ==
  ASSUME TypeOK, NEW w, NEW last \in Nat, NEW t \in Txs(w), t.lt > last
  PROVE  t \in Complete(w, last)
BY DEF Complete, Txs, TypeOK, Tx

\* The steps of the other worker leave the registrations alone.
LEMMA RegUnchanged ==
  ASSUME RegInv, UNCHANGED <<ledger, known, lastLT, npc, found, biggestLT>>,
         missed \subseteq missed'
  PROVE  RegInv'
BY DEF RegInv, RegistrationsAccounted, RegistrationsPending, Txs

\* Every step keeps the registrations accounted for.
LEMMA RegStep == TypeOK /\ Bounds /\ RegInv /\ [Next]_vars => RegInv'
<1> SUFFICES ASSUME TypeOK, Bounds, RegInv, [Next]_vars PROVE RegInv'
  OBVIOUS
<1> USE DEF RegInv
<1>n. lastLT \in Nat /\ biggestLT \in Nat /\ height \in Nat /\ \A t \in ledger : t.lt \in Nat
  BY DEF TypeOK, Tx
<1>0. CASE UNCHANGED vars
  BY <1>0, RegUnchanged DEF vars
<1>1. ASSUME NEW txs \in SUBSET Txs(Master), collectFrom(txs) PROVE RegInv'
  <2>1. RegistrationsPending'
    <3> SUFFICES ASSUME NEW t \in Txs(Master), t.about \in Providers, t.lt > lastLT
                 PROVE  t.about \in known \union found' \/ t \in missed'
      BY <1>1 DEF collectFrom, RegistrationsPending, Txs, persistent
    <3>1. CASE t \in txs
      BY <1>1, <3>1 DEF collectFrom
    <3>2. CASE t \notin txs
      BY <1>1, <3>2, <1>n, NewerIsComplete DEF collectFrom
    <3> QED BY <3>1, <3>2
  <2>2. RegistrationsAccounted'
    BY <1>1 DEF collectFrom, RegistrationsAccounted, Txs, persistent
  <2> QED BY <2>1, <2>2
<1>2. CASE SetParam
  <2>1. RegistrationsAccounted'
    <3> SUFFICES ASSUME NEW t \in Txs(Master), t.about \in Providers, t.lt <= lastLT'
                 PROVE  t.about \in known \union found \/ t \in missed
      BY <1>2 DEF SetParam, RegistrationsAccounted, Txs
    <3>1. t.lt \in Nat
      BY <1>n DEF Txs
    <3>2. CASE t.lt <= lastLT
      BY <1>2, <3>2 DEF SetParam, RegistrationsAccounted
    <3>3. CASE t.lt > lastLT
      BY <1>2, <1>n, <3>1, <3>3 DEF SetParam, RegistrationsPending
    <3> QED BY <3>1, <3>2, <3>3, <1>n
  <2>2. RegistrationsPending'
    BY <1>2 DEF SetParam, RegistrationsPending
  <2> QED BY <2>1, <2>2
<1>3. CASE SetParamFails
  BY <1>3 DEF SetParamFails, persistent, RegistrationsAccounted, RegistrationsPending, Txs
<1>4. CASE AddProviders
  BY <1>4 DEF AddProviders, RegistrationsAccounted, RegistrationsPending, Txs
<1>5. CASE AddProvidersFails
  BY <1>5 DEF AddProvidersFails, FoundTxs, persistent, RegistrationsAccounted, RegistrationsPending, Txs
<1>6. CASE GetAllProvidersWallets
  BY <1>6, RegUnchanged DEF GetAllProvidersWallets, persistent, newVars
<1>7. ASSUME NEW p \in Providers, NEW txs \in SUBSET Txs(p), scanFrom(p, txs) PROVE RegInv'
  BY <1>7, RegUnchanged DEF scanFrom, persistent, newVars
<1>8. ASSUME NEW p \in Providers, scanProviderTransactionsFails(p) PROVE RegInv'
  BY <1>8, RegUnchanged DEF scanProviderTransactionsFails, persistent, newVars
<1>9. CASE ScansDone
  BY <1>9, RegUnchanged DEF ScansDone, persistent, newVars
<1>10. ASSUME NEW silent \in SUBSET Contracts, GetStorageContractsInfo(silent) PROVE RegInv'
  BY <1>10, RegUnchanged DEF GetStorageContractsInfo, persistent, newVars
<1>11. CASE UpdateProvidersLT
  BY <1>11, RegUnchanged DEF UpdateProvidersLT, newVars
<1>12. CASE ContractsFail
  BY <1>12, RegUnchanged DEF ContractsFail, persistent, newVars
<1>13. CASE AddStorageContracts
  BY <1>13, RegUnchanged DEF AddStorageContracts, newVars
<1>14. CASE AddStorageContractsFails
  BY <1>14, RegUnchanged DEF AddStorageContractsFails, persistent, newVars
<1>15. ASSUME NEW w \in Providers \union {Master},
              NEW m \in Providers \union Contracts \union {Other}, Post(w, m)
       PROVE  RegInv'
  <2>1. \A t \in ledger' : t \in ledger \/ t.lt = height + 1
    BY <1>15 DEF Post
  <2>2. UNCHANGED <<known, lastLT, npc, found, biggestLT, missed>>
    BY <1>15 DEF Post, persistent, newVars
  <2>3. \A t \in Txs(Master)' : t.lt <= lastLT \/ t.lt <= biggestLT => t \in Txs(Master)
    BY <2>1, <1>n DEF Txs, Bounds
  <2> QED BY <2>2, <2>3 DEF RegistrationsAccounted, RegistrationsPending
<1>16. CASE Crash
  BY <1>16 DEF Crash, FoundTxs, persistent, RegistrationsAccounted, RegistrationsPending, Txs
<1> QED
  BY NextCases, <1>0, <1>1, <1>2, <1>3, <1>4, <1>5, <1>6, <1>7, <1>8, <1>9, <1>10, <1>11,
     <1>12, <1>13, <1>14, <1>15, <1>16 DEF Cases

\* No registration is lost except by a fault: the last LT never passes one that
\* CollectNewProviders has not read.
THEOREM RegistrationsKept == Spec => []RegistrationsAccounted
<1> DEFINE Inv == TypeOK /\ Bounds /\ RegInv
<1>1. Init => Inv
  BY TypeInit DEF Init, Bounds, RegInv, RegistrationsAccounted, RegistrationsPending, Txs
<1>2. Inv /\ [Next]_vars => Inv'
  BY TypeStep, BoundsStep, RegStep
<1>3. Inv => RegistrationsAccounted
  BY DEF RegInv
<1> QED BY <1>1, <1>2, <1>3, PTL DEF Spec

-----------------------------------------------------------------------------
(* Storage contracts *)

\* ContractsAccounted, of the providers that are not known yet as well.
WalletsAccounted ==
  \A p \in Providers : \A t \in Txs(p) :
    t.about \in Contracts /\ t.lt <= walletLT[p] =>
      \/ <<t.about, p>> \in collected
      \/ cpc = "insert" /\ <<t.about, p>> \in hits
      \/ t \in missed

\* Until the wallets' LTs are saved, what the save will pass is accounted for.
WithdrawalsPending ==
  cpc \in {"scan", "info", "saveLT"} =>
    \A p \in Providers : \A t \in Txs(p) :
      t.about \in Contracts /\ t.lt > walletLT[p] /\ t.lt <= newLT[p] =>
        <<t.about, p>> \in hits \/ t \in missed

LTsSaved == cpc = "insert" => newLT = walletLT

ContractInv == WalletsAccounted /\ WithdrawalsPending /\ LTsSaved

\* The steps of the other worker leave the contracts alone.
LEMMA ContractUnchanged ==
  ASSUME ContractInv, UNCHANGED <<ledger, walletLT, collected, cpc, hits, newLT>>,
         missed \subseteq missed'
  PROVE  ContractInv'
BY DEF ContractInv, WalletsAccounted, WithdrawalsPending, LTsSaved, Txs

\* A run that ends without having saved anything leaves the contracts accounted for.
LEMMA ContractStopped ==
  ASSUME ContractInv, cpc # "insert", cpc' = "idle", missed \subseteq missed',
         UNCHANGED <<ledger, walletLT, collected>>
  PROVE  ContractInv'
BY DEF ContractInv, WalletsAccounted, WithdrawalsPending, LTsSaved, Txs

\* A run that ends before its insert gives up exactly what it had noted.
LEMMA ContractGivenUp ==
  ASSUME TypeOK, ContractInv, cpc' = "idle", UNCHANGED <<ledger, walletLT, collected>>,
         missed \union InsertedTxs \subseteq missed'
  PROVE  ContractInv'
<1>1. CASE cpc # "insert"
  BY <1>1, ContractStopped
<1>2. CASE cpc = "insert"
  <2>1. WalletsAccounted'
    <3> SUFFICES ASSUME NEW p \in Providers, NEW t \in Txs(p), t.about \in Contracts,
                        t.lt <= walletLT[p], t \notin missed, <<t.about, p>> \notin collected
                 PROVE  t \in missed'
      BY DEF WalletsAccounted, Txs
    <3>1. <<t.about, t.to>> \in hits /\ t.lt <= newLT[t.to] /\ t \in ledger
      BY <1>2 DEF ContractInv, WalletsAccounted, LTsSaved, Txs
    <3> QED BY <1>2, <3>1 DEF InsertedTxs, HitTxs
  <2> QED BY <2>1 DEF ContractInv, WithdrawalsPending, LTsSaved
<1> QED BY <1>1, <1>2

\* Every step keeps the withdrawals accounted for.
LEMMA ContractStep == TypeOK /\ Bounds /\ ContractInv /\ [Next]_vars => ContractInv'
<1> SUFFICES ASSUME TypeOK, Bounds, ContractInv, [Next]_vars PROVE ContractInv'
  OBVIOUS
<1>n. /\ \A p \in Providers : walletLT[p] \in Nat /\ newLT[p] \in Nat
      /\ height \in Nat /\ \A t \in ledger : t.lt \in Nat
  BY DEF TypeOK, Tx
<1>0. CASE UNCHANGED vars
  BY <1>0, ContractUnchanged DEF vars
<1>1. ASSUME NEW txs \in SUBSET Txs(Master), collectFrom(txs) PROVE ContractInv'
  BY <1>1, ContractUnchanged DEF collectFrom, persistent, contractVars
<1>2. CASE SetParam
  BY <1>2, ContractUnchanged DEF SetParam, contractVars
<1>3. CASE SetParamFails
  BY <1>3, ContractUnchanged DEF SetParamFails, persistent, contractVars
<1>4. CASE AddProviders
  BY <1>4, ContractUnchanged DEF AddProviders, contractVars
<1>5. CASE AddProvidersFails
  BY <1>5, ContractUnchanged DEF AddProvidersFails, persistent, contractVars
<1>6. CASE GetAllProvidersWallets
  <2>1. WithdrawalsPending'
    BY <1>6, <1>n DEF GetAllProvidersWallets, persistent, WithdrawalsPending, Txs
  <2>2. WalletsAccounted'
    BY <1>6 DEF GetAllProvidersWallets, persistent, ContractInv, WalletsAccounted, Txs
  <2> QED BY <1>6, <2>1, <2>2 DEF GetAllProvidersWallets, ContractInv, LTsSaved
<1>7. ASSUME NEW p \in Providers, NEW txs \in SUBSET Txs(p), scanFrom(p, txs) PROVE ContractInv'
  <2>1. /\ cpc = "scan" /\ UNCHANGED <<ledger, walletLT, collected, cpc>>
        /\ hits \subseteq hits' /\ missed \subseteq missed'
        /\ \A q \in Providers : q # p => newLT'[q] = newLT[q]
    BY <1>7 DEF scanFrom, persistent, TypeOK
  <2>2. WithdrawalsPending'
    <3> SUFFICES ASSUME NEW q \in Providers, NEW t \in Txs(q), t.about \in Contracts,
                        t.lt > walletLT[q], t.lt <= newLT'[q]
                 PROVE  <<t.about, q>> \in hits' \/ t \in missed'
      BY <2>1 DEF WithdrawalsPending, Txs
    <3>1. CASE q # p
      BY <2>1, <3>1 DEF ContractInv, WithdrawalsPending
    <3>2. CASE q = p /\ t \in txs
      BY <1>7, <3>2 DEF scanFrom
    <3>3. CASE q = p /\ t \notin txs
      BY <1>7, <1>n, <3>3, NewerIsComplete DEF scanFrom
    <3> QED BY <3>1, <3>2, <3>3
  <2>3. WalletsAccounted'
    BY <2>1 DEF ContractInv, WalletsAccounted, Txs
  <2> QED BY <2>1, <2>2, <2>3 DEF ContractInv, LTsSaved
<1>8. ASSUME NEW p \in Providers, scanProviderTransactionsFails(p) PROVE ContractInv'
  BY <1>8, ContractUnchanged DEF scanProviderTransactionsFails, persistent
<1>9. CASE ScansDone
  <2>1. CASE hits = {}
    BY <1>9, <2>1, ContractStopped DEF ScansDone, StopContracts, persistent
  <2>2. CASE hits # {}
    BY <1>9, <2>2 DEF ScansDone, persistent, ContractInv, WalletsAccounted, WithdrawalsPending, LTsSaved, Txs
  <2> QED BY <2>1, <2>2
<1>10. ASSUME NEW silent \in SUBSET Contracts, GetStorageContractsInfo(silent) PROVE ContractInv'
  <2>1. /\ cpc = "info" /\ cpc' = "saveLT" /\ UNCHANGED <<ledger, walletLT, collected, newLT>>
        /\ missed' = missed \union HitTxs(hits \ hits')
    BY <1>10 DEF GetStorageContractsInfo, persistent
  <2>2. WithdrawalsPending'
    <3> SUFFICES ASSUME NEW p \in Providers, NEW t \in Txs(p), t.about \in Contracts,
                        t.lt > walletLT[p], t.lt <= newLT[p], <<t.about, p>> \notin hits'
                 PROVE  t \in missed'
      BY <2>1 DEF WithdrawalsPending, Txs
    <3>1. <<t.about, p>> \in hits \/ t \in missed
      BY <2>1 DEF ContractInv, WithdrawalsPending
    <3>2. t \in ledger /\ t.to = p
      BY DEF Txs
    <3> QED BY <2>1, <3>1, <3>2 DEF HitTxs
  <2>3. WalletsAccounted'
    BY <2>1 DEF ContractInv, WalletsAccounted, Txs
  <2> QED BY <2>1, <2>2, <2>3 DEF ContractInv, LTsSaved
<1>11. CASE UpdateProvidersLT
  <2>1. WalletsAccounted'
    <3> SUFFICES ASSUME NEW p \in Providers, NEW t \in Txs(p), t.about \in Contracts,
                        t.lt <= newLT[p], <<t.about, p>> \notin collected, t \notin missed
                 PROVE  <<t.about, p>> \in hits
      BY <1>11 DEF UpdateProvidersLT, WalletsAccounted, Txs
    <3>1. t.lt > walletLT[p]
      BY <1>11, <1>n DEF UpdateProvidersLT, ContractInv, WalletsAccounted, Txs
    <3> QED BY <1>11, <3>1 DEF UpdateProvidersLT, ContractInv, WithdrawalsPending
  <2> QED BY <1>11, <2>1 DEF UpdateProvidersLT, ContractInv, WithdrawalsPending, LTsSaved
<1>12. CASE ContractsFail
  BY <1>12, ContractStopped DEF ContractsFail, StopContracts, persistent
<1>13. CASE AddStorageContracts
  BY <1>13 DEF AddStorageContracts, StopContracts, ContractInv, WalletsAccounted, WithdrawalsPending,
               LTsSaved, Txs
<1>14. CASE AddStorageContractsFails
  BY <1>14, ContractGivenUp DEF AddStorageContractsFails, StopContracts, persistent
<1>15. ASSUME NEW w \in Providers \union {Master},
              NEW m \in Providers \union Contracts \union {Other}, Post(w, m)
       PROVE  ContractInv'
  <2>1. \A t \in ledger' : t \in ledger \/ t.lt = height + 1
    BY <1>15 DEF Post
  <2>2. UNCHANGED <<walletLT, collected, cpc, hits, newLT, missed>>
    BY <1>15 DEF Post, persistent, contractVars
  <2>3. \A p \in Providers : \A t \in Txs(p)' :
          t.lt <= walletLT[p] \/ t.lt <= newLT[p] => t \in Txs(p)
    BY <2>1, <1>n DEF Txs, Bounds
  <2> QED BY <2>2, <2>3 DEF ContractInv, WalletsAccounted, WithdrawalsPending, LTsSaved
<1>16. CASE Crash
  BY <1>16, ContractGivenUp DEF Crash, StopContracts, persistent
<1> QED
  BY NextCases, <1>0, <1>1, <1>2, <1>3, <1>4, <1>5, <1>6, <1>7, <1>8, <1>9, <1>10, <1>11,
     <1>12, <1>13, <1>14, <1>15, <1>16 DEF Cases

\* No storage contract is lost except by a fault: a wallet's LT never passes a
\* withdrawal whose contract was not inserted.
THEOREM ContractsKept == Spec => []ContractsAccounted
<1> DEFINE Inv == TypeOK /\ Bounds /\ ContractInv
<1>1. Init => Inv
  BY TypeInit DEF Init, Bounds, ContractInv, WalletsAccounted, WithdrawalsPending, LTsSaved, Txs
<1>2. Inv /\ [Next]_vars => Inv'
  BY TypeStep, BoundsStep, ContractStep
<1>3. Inv => ContractsAccounted
  BY DEF ContractInv, WalletsAccounted, ContractsAccounted, TypeOK
<1> QED BY <1>1, <1>2, <1>3, PTL DEF Spec
=============================================================================
