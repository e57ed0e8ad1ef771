------------------------------ MODULE LedgerScan ------------------------------
(***************************************************************************)
(* The two workers that read the TON ledger.  CollectNewProviders reads    *)
(* registrations from the master wallet; CollectProvidersNewStorageContracts*)
(* reads reward withdrawals from the wallet of every known provider, which *)
(* is how storage contracts are discovered.  Both remember the logical     *)
(* time (LT) of the last transaction they processed and ask only for newer *)
(* ones.                                                                   *)
(*                                                                         *)
(* An LT is the height of the ledger when the transaction was posted.  A   *)
(* call that fails before anything is written changes nothing and is       *)
(* tried again: such failures appear only where they end a run early.      *)
(***************************************************************************)
EXTENDS Integers, FiniteSets

CONSTANTS
  Providers,    \* public keys; each stands for its wallet too
  Contracts,    \* storage contracts
  Master,       \* the master wallet
  Other,        \* a message that is neither a registration nor a withdrawal
  batch,        \* transactions per page of ListTransactions
  MaxLT         \* bound of the model: transactions posted in all

ASSUME LedgerAssumption ==
  /\ Master \notin Providers
  /\ Other \notin Providers \union Contracts
  /\ batch \in Nat \ {0}
  /\ MaxLT \in Nat

VARIABLES
  ledger, height,     \* the transactions posted so far, and their number
  \* Persistent.
  known,              \* rows of providers.providers
  lastLT,             \* system.params, masterWalletLastLT
  walletLT,           \* providers.last_tx_lt
  collected,          \* rows inserted into storage_contracts (StoreProof may delete them)
  \* Locals of CollectNewProviders.
  npc, found, biggestLT,
  \* Locals of CollectProvidersNewStorageContracts.
  cpc, todo,          \* the wallets whose scan has not ended
  hits,               \* storageContracts: who stores what
  newLT,              \* providersToUpdate
  \* History: transactions given up by a cut history, a missing answer about a
  \* contract, a failed insert or the end of the process.
  missed

persistent == <<known, lastLT, walletLT, collected>>
newVars == <<npc, found, biggestLT>>
contractVars == <<cpc, todo, hits, newLT>>
vars == <<ledger, height, known, lastLT, walletLT, collected, npc, found, biggestLT,
          cpc, todo, hits, newLT, missed>>

Tx == [lt : Nat, to : Providers \union {Master}, about : Providers \union Contracts \union {Other}]

TypeOK ==
  /\ ledger \subseteq Tx /\ height \in Nat
  /\ known \subseteq Providers
  /\ lastLT \in Nat
  /\ walletLT \in [Providers -> Nat]
  /\ collected \subseteq Contracts \X Providers
  /\ npc \in {"idle", "save", "insert"}
  /\ found \subseteq Providers
  /\ biggestLT \in Nat
  /\ cpc \in {"idle", "scan", "info", "saveLT", "insert"}
  /\ todo \subseteq known
  /\ hits \subseteq Contracts \X known
  /\ newLT \in [Providers -> Nat]
  /\ missed \subseteq ledger

Init ==
  /\ ledger = {} /\ height = 0
  /\ known = {} /\ collected = {}
  /\ lastLT = 0 /\ walletLT = [p \in Providers |-> 0]
  /\ npc = "idle" /\ found = {} /\ biggestLT = 0
  /\ cpc = "idle" /\ todo = {} /\ hits = {} /\ newLT = [p \in Providers |-> 0]
  /\ missed = {}

-----------------------------------------------------------------------------
(* GetTransactions *)

Txs(w) == {t \in ledger : t.to = w}

\* The whole answer: back to the last processed transaction, that one included.
Complete(w, last) == {t \in Txs(w) : \A u \in Txs(w) : u.lt <= last => u.lt <= t.lt}

\* The newest n pages.
Pages(w, n) == {t \in Txs(w) : Cardinality({u \in Txs(w) : u.lt > t.lt}) < n * batch}

\* Answers cut short by the deadline or by a liteserver that has no older history:
\* pages are read from the newest backwards, and the error is not reported.
Cut(w, last) == {Pages(w, n) : n \in {m \in 0..MaxLT : \A t \in Pages(w, m) : t.lt > last}}

-----------------------------------------------------------------------------
(* CollectNewProviders *)

\* The registrations in txs that are new.  Without any the run ends here, and
\* the last LT is not saved.
collectFrom(txs) ==
  LET fresh == {t \in txs : t.lt > lastLT}
  IN  /\ npc = "idle"
      /\ found' = {t.about : t \in fresh} \cap (Providers \ known)
      /\ found' # {}
      /\ biggestLT' \in {t.lt : t \in fresh}
      /\ \A t \in fresh : t.lt <= biggestLT'
      /\ npc' = "save"
      /\ missed' = missed \union (Complete(Master, lastLT) \ txs)
      /\ UNCHANGED <<ledger, height, persistent, contractVars>>

CollectNewProviders == collectFrom(Complete(Master, lastLT))

CollectNewProvidersCut == \E txs \in Cut(Master, lastLT) : collectFrom(txs)

\* Mutant: the LT of the newest transaction there is, seen or not.
SetParamNewest ==
  /\ npc = "save"
  /\ lastLT' = height
  /\ npc' = "insert"
  /\ UNCHANGED <<ledger, height, known, walletLT, collected, found, biggestLT, contractVars, missed>>

SetParam ==
  /\ npc = "save"
  /\ lastLT' = IF biggestLT > lastLT THEN biggestLT ELSE lastLT
  /\ npc' = "insert"
  /\ UNCHANGED <<ledger, height, known, walletLT, collected, found, biggestLT, contractVars, missed>>

\* Only logged.
SetParamFails ==
  /\ npc = "save"
  /\ npc' = "insert"
  /\ UNCHANGED <<ledger, height, persistent, found, biggestLT, contractVars, missed>>

AddProviders ==
  /\ npc = "insert"
  /\ known' = known \union found
  /\ npc' = "idle" /\ found' = {} /\ biggestLT' = 0
  /\ UNCHANGED <<ledger, height, lastLT, walletLT, collected, contractVars, missed>>

\* The registrations a run that ends now will not look at again.
FoundTxs == IF npc = "insert" THEN {t \in Txs(Master) : t.about \in found} ELSE {}

AddProvidersFails ==
  /\ npc = "insert"
  /\ npc' = "idle" /\ found' = {} /\ biggestLT' = 0
  /\ missed' = missed \union FoundTxs
  /\ UNCHANGED <<ledger, height, persistent, contractVars>>

-----------------------------------------------------------------------------
(* CollectProvidersNewStorageContracts *)

StopContracts == cpc' = "idle" /\ todo' = {} /\ hits' = {} /\ newLT' = [p \in Providers |-> 0]

\* Mutant: only wallets that were read before.
GetAllProvidersWalletsSeen ==
  /\ cpc = "idle"
  /\ cpc' = "scan"
  /\ todo' = {p \in known : walletLT[p] > 0}
  /\ newLT' = walletLT
  /\ UNCHANGED <<ledger, height, persistent, newVars, hits, missed>>

GetAllProvidersWallets ==
  /\ cpc = "idle"
  /\ cpc' = "scan"
  /\ todo' = known
  /\ newLT' = walletLT
  /\ UNCHANGED <<ledger, height, persistent, newVars, hits, missed>>

\* scanProviderTransactions, one goroutine per wallet: the LT moves to the newest
\* withdrawal among the transactions.
scanFrom(p, txs) ==
  LET rewards == {t \in txs : t.about \in Contracts}
      lts == {walletLT[p]} \union {t.lt : t \in rewards}
  IN  /\ cpc = "scan" /\ p \in todo
      /\ todo' = todo \ {p}
      /\ hits' = hits \union {<<t.about, p>> : t \in rewards}
      /\ \E top \in lts : (\A l \in lts : l <= top) /\ newLT' = [newLT EXCEPT ![p] = top]
      /\ missed' = missed \union (Complete(p, walletLT[p]) \ txs)
      /\ UNCHANGED <<ledger, height, persistent, newVars, cpc>>

scanProviderTransactions(p) == scanFrom(p, Complete(p, walletLT[p]))

scanProviderTransactionsCut(p) == \E txs \in Cut(p, walletLT[p]) : scanFrom(p, txs)

\* A wallet that cannot be read is left for the next run.
scanProviderTransactionsFails(p) ==
  /\ cpc = "scan" /\ p \in todo
  /\ todo' = todo \ {p}
  /\ UNCHANGED <<ledger, height, persistent, newVars, cpc, hits, newLT, missed>>

\* wg.Wait returns.
ScansDone ==
  /\ cpc = "scan" /\ todo = {}
  /\ IF hits = {} THEN StopContracts ELSE cpc' = "info" /\ UNCHANGED <<todo, hits, newLT>>
  /\ UNCHANGED <<ledger, height, persistent, newVars, missed>>

\* The transactions of this run about the contracts in S.
HitTxs(S) == {t \in ledger : <<t.about, t.to>> \in S /\ t.lt <= newLT[t.to]}

\* The contracts that do not answer are dropped.
GetStorageContractsInfo(silent) ==
  /\ cpc = "info"
  /\ hits' = {h \in hits : h[1] \notin silent}
  /\ cpc' = "saveLT"
  /\ missed' = missed \union HitTxs(hits \ hits')
  /\ UNCHANGED <<ledger, height, persistent, newVars, todo, newLT>>

\* Mutant: the newest LT of each wallet at the time of the update.
UpdateProvidersLTNewest ==
  /\ cpc = "saveLT"
  /\ walletLT' = [p \in Providers |->
                   IF newLT[p] > walletLT[p] THEN CHOOSE l \in 0..height : \A t \in Txs(p) : t.lt <= l
                   ELSE walletLT[p]]
  /\ cpc' = "insert"
  /\ UNCHANGED <<ledger, height, known, lastLT, collected, newVars, todo, hits, newLT, missed>>

UpdateProvidersLT ==
  /\ cpc = "saveLT"
  /\ walletLT' = newLT
  /\ cpc' = "insert"
  /\ UNCHANGED <<ledger, height, known, lastLT, collected, newVars, todo, hits, newLT, missed>>

\* Nothing has been written yet: the next run starts over.
ContractsFail ==
  /\ cpc \in {"info", "saveLT"}
  /\ StopContracts
  /\ UNCHANGED <<ledger, height, persistent, newVars, missed>>

AddStorageContracts ==
  /\ cpc = "insert"
  /\ collected' = collected \union hits
  /\ StopContracts
  /\ UNCHANGED <<ledger, height, known, lastLT, walletLT, newVars, missed>>

InsertedTxs == IF cpc = "insert" THEN HitTxs(hits) ELSE {}

AddStorageContractsFails ==
  /\ cpc = "insert"
  /\ StopContracts
  /\ missed' = missed \union InsertedTxs
  /\ UNCHANGED <<ledger, height, persistent, newVars>>

-----------------------------------------------------------------------------
(* The ledger grows; the process ends and starts again. *)

Post(w, m) ==
  /\ height < MaxLT
  /\ height' = height + 1
  /\ ledger' = ledger \union {[lt |-> height', to |-> w, about |-> m]}
  /\ UNCHANGED <<persistent, newVars, contractVars, missed>>

PostAny ==
  \/ \E m \in Providers \union {Other} : Post(Master, m)
  \/ \E p \in Providers, m \in Contracts \union {Other} : Post(p, m)

Crash ==
  /\ npc # "idle" \/ cpc # "idle"
  /\ npc' = "idle" /\ found' = {} /\ biggestLT' = 0
  /\ StopContracts
  /\ missed' = missed \union FoundTxs \union InsertedTxs
  /\ UNCHANGED <<ledger, height, persistent>>

-----------------------------------------------------------------------------

ProvidersWorker == CollectNewProviders \/ SetParam \/ AddProviders

ContractsWorker ==
  \/ GetAllProvidersWallets
  \/ \E p \in Providers : scanProviderTransactions(p)
  \/ ScansDone
  \/ GetStorageContractsInfo({})
  \/ UpdateProvidersLT
  \/ AddStorageContracts

\* One of several calls fails, or its answer is incomplete.
Fault ==
  \/ CollectNewProvidersCut \/ SetParamFails \/ AddProvidersFails
  \/ \E p \in Providers : scanProviderTransactionsCut(p) \/ scanProviderTransactionsFails(p)
  \/ \E silent \in SUBSET Contracts : silent # {} /\ GetStorageContractsInfo(silent)
  \/ ContractsFail \/ AddStorageContractsFails
  \/ Crash

Regular == ProvidersWorker \/ ContractsWorker \/ PostAny

Next == Regular \/ Fault

Spec == Init /\ [][Next]_vars

\* The two workers are goroutines of their own, run again after every interval.
FairSpec == Spec /\ WF_vars(ProvidersWorker) /\ WF_vars(ContractsWorker)

-----------------------------------------------------------------------------
(* Properties *)

\* A registration the last LT has passed is a provider, or about to become one, or
\* was given up by a fault: growth of the ledger during a run, its boundaries and
\* repeated runs lose nothing (CollectNewProviders, GetTransactions).
RegistrationsAccounted ==
  \A t \in Txs(Master) :
    t.about \in Providers /\ t.lt <= lastLT =>
      \/ t.about \in known
      \/ npc = "insert" /\ t.about \in found
      \/ t \in missed

\* The same of the withdrawals in a provider's wallet and the contracts they
\* reveal (scanProviderTransactions, UpdateProvidersLT, AddStorageContracts).
ContractsAccounted ==
  \A p \in known : \A t \in Txs(p) :
    t.about \in Contracts /\ t.lt <= walletLT[p] =>
      \/ <<t.about, p>> \in collected
      \/ cpc = "insert" /\ <<t.about, p>> \in hits
      \/ t \in missed

\* Once every step is a regular one, every registration that was not given up becomes a provider,
\* and every contract its wallet tells of is collected: the two workers feed
\* each other (GetAllProvidersWallets reads what AddProviders inserts).
EverythingCollected ==
  <>[][Regular]_vars =>
    \A p \in Providers :
      /\ (\E t \in Txs(Master) : t.about = p)
           ~> (p \in known \/ \E t \in missed : t.about = p)
      /\ \A c \in Contracts :
           (p \in known /\ \E t \in Txs(p) : t.about = c)
             ~> (<<c, p>> \in collected \/ \E t \in missed : t.to = p /\ t.about = c)

\* client.go: "if deadline, then we have enough.  We collect more next time".  What
\* a cut history leaves out is still newer than the last LT when the run ends.
CutIsCollectedLater ==
  npc = "idle" => \A t \in Txs(Master) :
    t.about \in Providers /\ t.lt <= lastLT => t.about \in known
=============================================================================
