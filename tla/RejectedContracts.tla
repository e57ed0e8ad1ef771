--------------------------- MODULE RejectedContracts ---------------------------
(***************************************************************************)
(* updateRejectedContracts: which rows of storage_contracts the chain no   *)
(* longer backs.  The rows are read, a block is pinned, every contract is  *)
(* asked for its providers as of that block, or of a later one when the    *)
(* lite server has dropped it, and a row whose provider is not listed, or  *)
(* is listed with too little balance for too long, is deleted.  Meanwhile  *)
(* the chain goes on and CollectProvidersNewStorageContracts inserts rows  *)
(* for withdrawals it saw earlier.  A row is a pair of a contract and a    *)
(* provider, here a relation.                                              *)
(***************************************************************************)
EXTENDS Naturals

CONSTANTS
  Relations, Contracts, ContractOf,
  MaxSpan,     \* the longest time between two proofs a provider is paid for
  Grace,       \* the 3600 seconds on top of it
  MaxRun,      \* bound on the time from the pinned block to the write
  Off          \* the contract does not list the provider

\* Time since a proof is told apart up to here.
Late == MaxSpan + Grace + 1
Never == Late + 1      \* listed, and no proof yet

Listing == [short : BOOLEAN, since : 0..Never]

ASSUME RejectedAssumption ==
  /\ ContractOf \in [Relations -> Contracts]
  /\ MaxSpan \in Nat /\ Grace \in Nat /\ MaxRun \in 0..Grace
  /\ Off \notin Listing

VARIABLES
  chain,              \* what the contract says about the provider now
  withdrawn, scanned, \* proofs a wallet scan has not read; rows a scan is about to insert
  storageContracts,   \* the table
  stage, held,        \* the worker: "idle", "held", "read"; the rows it read
  block, runTime,     \* what the pinned block says of rows not answered for, seen from now; its age
  answer, seen,       \* what became of a contract's call, and what it returned
  overdue             \* history: rows held that were not backed at some time since the block

chainVars == <<chain, withdrawn>>
runVars == <<stage, held, block, runTime, answer, seen>>
rejectVars == <<chainVars, scanned, storageContracts, runVars, overdue>>

Nothing == [r \in Relations |-> Off]
Unasked == [c \in Contracts |-> "none"]

\* One type invariant.
RejectTypeOK ==
  /\ chain \in [Relations -> Listing \union {Off}]
  /\ withdrawn \subseteq Relations /\ scanned \subseteq Relations
  /\ storageContracts \subseteq Relations
  /\ stage \in {"idle", "held", "read"} /\ held \subseteq Relations
  /\ block \in [Relations -> Listing \union {Off}] /\ runTime \in 0..MaxRun
  /\ answer \in [Contracts -> {"none", "ok", "LiteServerError"}]
  /\ seen \in [Relations -> Listing \union {Off}]
  /\ overdue \subseteq Relations

RejectInit ==
  /\ chain = Nothing /\ withdrawn = {} /\ scanned = {} /\ storageContracts = {}
  /\ stage = "idle" /\ held = {} /\ block = Nothing /\ runTime = 0
  /\ answer = Unasked /\ seen = Nothing
  /\ overdue = {}

-----------------------------------------------------------------------------
(* The chain.                                                              *)

\* A contract takes a provider in, or lets it go.
ListOrDrop(r) ==
  /\ chain' = [chain EXCEPT ![r] = IF @ = Off THEN [short |-> FALSE, since |-> Never] ELSE Off]
  /\ UNCHANGED <<withdrawn, scanned, storageContracts, runVars>>

\* The balance falls below the next bounty, or is topped up.
ChangeBalance(r) ==
  /\ chain[r] # Off /\ chain' = [chain EXCEPT ![r].short = ~@]
  /\ UNCHANGED <<withdrawn, scanned, storageContracts, runVars>>

\* The provider proves its bag and withdraws the reward.
Prove(r) ==
  /\ chain[r] # Off /\ chain' = [chain EXCEPT ![r].since = 0]
  /\ withdrawn' = withdrawn \union {r}
  /\ UNCHANGED <<scanned, storageContracts, runVars>>

Older(f) == [r \in Relations |-> IF f[r] # Off /\ f[r].since < Late
                                 THEN [f[r] EXCEPT !.since = @ + 1] ELSE f[r]]

PassTime ==
  /\ stage = "read" => runTime < MaxRun
  /\ runTime' = IF stage = "read" THEN runTime + 1 ELSE runTime
  /\ chain' = Older(chain) /\ block' = Older(block) /\ seen' = Older(seen)
  /\ UNCHANGED <<withdrawn, scanned, storageContracts, stage, held, answer>>

-----------------------------------------------------------------------------
(* The wallet scan.                                                        *)

ScanWallets ==
  /\ scanned = {} /\ withdrawn # {}
  /\ scanned' = withdrawn /\ withdrawn' = {}
  /\ UNCHANGED <<chain, storageContracts, runVars>>

AddStorageContracts ==
  /\ scanned # {} /\ scanned' = {}
  /\ storageContracts' = storageContracts \union scanned
  /\ UNCHANGED <<chainVars, runVars>>

ScanFails ==
  /\ scanned # {} /\ scanned' = {}
  /\ UNCHANGED <<chainVars, storageContracts, runVars>>

-----------------------------------------------------------------------------
(* The worker.                                                             *)

\* GetStorageContracts.  Without rows there is nothing to do.
GetStorageContracts ==
  /\ stage = "idle" /\ storageContracts # {}
  /\ stage' = "held" /\ held' = storageContracts
  /\ UNCHANGED <<chainVars, scanned, storageContracts, block, runTime, answer, seen>>

\* GetProvidersInfo pins a block.
GetMasterchainInfo ==
  /\ stage = "held" /\ stage' = "read"
  /\ block' = [r \in Relations |-> IF r \in held THEN chain[r] ELSE Off]
  /\ UNCHANGED <<chainVars, scanned, storageContracts, held, runTime, answer, seen>>

RowsOf(c) == {r \in held : ContractOf[r] = c}
Asked(c) == stage = "read" /\ answer[c] = "none" /\ RowsOf(c) # {}

Except(f, S, g) == [r \in Relations |-> IF r \in S THEN g[r] ELSE f[r]]

Returns(c, from) ==
  /\ answer' = [answer EXCEPT ![c] = "ok"]
  /\ seen' = Except(seen, RowsOf(c), from)
  /\ block' = Except(block, RowsOf(c), Nothing)
  /\ UNCHANGED <<chainVars, scanned, storageContracts, stage, held, runTime>>

\* A contract answers as of the pinned block.
GetProviders(c) == Asked(c) /\ Returns(c, block)

\* The lite server no longer has that state: the call is repeated with a new block.
GetProvidersRefreshed(c) == Asked(c) /\ Returns(c, chain)

\* All attempts fail.
GetProvidersFails(c) ==
  /\ Asked(c)
  /\ answer' = [answer EXCEPT ![c] = "LiteServerError"]
  /\ block' = Except(block, RowsOf(c), Nothing)
  /\ UNCHANGED <<chainVars, scanned, storageContracts, stage, held, runTime, seen>>

EndRun ==
  /\ stage' = "idle" /\ held' = {} /\ block' = Nothing /\ runTime' = 0
  /\ answer' = Unasked /\ seen' = Nothing

\* Mutant: the span is all the time there is.
isRemovedAtOnce(l) == l.short /\ l.since # Never /\ l.since > MaxSpan

\* The balance does not cover one more span, and the last proof is overdue by
\* the time of the decision.  A provider without a proof is new.
isRemovedByLowBalance(l) == l.short /\ l.since # Never /\ l.since > MaxSpan + Grace

contractProviders == {r \in held : seen[r] # Off /\ ~isRemovedByLowBalance(seen[r])}

\* Mutant: only contracts that did not answer are closed.
closedUnanswered == {r \in held : answer[ContractOf[r]] = "none"}

\* In case no available lite servers use skip, to not remove contracts from db.
\* (Every address in the table came from a transaction, so each is asked.)
closedContracts == {r \in held : answer[ContractOf[r]] = "ok" /\ r \notin contractProviders}

UpdateRejectedStorageContracts ==
  /\ stage = "read" /\ \A c \in Contracts : ~Asked(c)
  /\ storageContracts' = storageContracts \ closedContracts
  /\ EndRun
  /\ UNCHANGED <<chainVars, scanned>>

\* The block or the write is refused, or the process ends: the cycle is over.
RunFails ==
  /\ stage # "idle"
  /\ EndRun
  /\ UNCHANGED <<chainVars, scanned, storageContracts>>

-----------------------------------------------------------------------------
NotBacked(l) == l = Off \/ (l.short /\ l.since # Never /\ l.since > MaxSpan)

TrackOverdue ==
  overdue' = IF stage' # "read" THEN {}
             ELSE overdue \union {r \in held' : NotBacked(chain'[r])}

RejectStep ==
  \/ GetStorageContracts \/ GetMasterchainInfo \/ UpdateRejectedStorageContracts
  \/ \E c \in Contracts : GetProviders(c) \/ GetProvidersRefreshed(c)

RejectFails == RunFails \/ \E c \in Contracts : GetProvidersFails(c)

ScanStep == ScanWallets \/ AddStorageContracts

ChainStep == PassTime \/ \E r \in Relations : ListOrDrop(r) \/ ChangeBalance(r) \/ Prove(r)

RejectNext == (RejectStep \/ RejectFails \/ ScanStep \/ ScanFails \/ ChainStep) /\ TrackOverdue

RejectSpec == RejectInit /\ [][RejectNext]_rejectVars

-----------------------------------------------------------------------------
(* Properties.                                                             *)

\* A row is deleted only if the chain did not back it at some time since the
\* block was pinned: its provider was not listed, or was short of balance and
\* late with its proof.  A failed lite server, an old block or a proof that
\* arrives during the run never costs a row.
DeletesOverdue == storageContracts \ storageContracts' \subseteq overdue
DeletedWasOverdue == [][DeletesOverdue]_rejectVars

\* A relation the chain does not back any more leaves the table for good, once
\* runs succeed, also if a scan that saw an old withdrawal inserts it again.
NotBackedForgotten ==
  <>[][RejectStep \/ ScanStep \/ ScanFails \/ ChainStep]_rejectVars =>
    \A r \in Relations :
      <>[](chain[r] = Off \/ (chain[r].short /\ chain[r].since = Late)) => <>[](r \notin storageContracts)
=============================================================================
