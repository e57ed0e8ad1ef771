------------------------------ MODULE MCLedgerScan ------------------------------
(* LedgerScan on small ledgers. *)
EXTENDS LedgerScan

\* The deadline of GetTransactions may pass; no call fails and nothing crashes.
DeadlineNext ==
  \/ ProvidersWorker \/ ContractsWorker
  \/ CollectNewProvidersCut
  \/ \E p \in Providers : scanProviderTransactionsCut(p)
  \/ PostAny

DeadlineSpec == Init /\ [][DeadlineNext]_vars
=============================================================================
