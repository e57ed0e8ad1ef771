---------------------------- MODULE ReasonCodes ----------------------------
(***************************************************************************)
(* The outcome codes of a storage-proof check, as the coordinator stores   *)
(* them in storage_contracts.reason, and the classification the commit     *)
(* policy of StoreProof is built on.                                       *)
(***************************************************************************)

\* The public reason of a row no check has been committed for (SQL NULL).
NoReason == "NULL"

\* constants.ReasonCode: every code but ValidStorageProof is an error.
ReasonCode ==
  {"ValidStorageProof", "IPNotFound", "NotFound", "UnavailableProvider",
   "CantCreatePeer", "UnknownPeer", "PingFailed", "InvalidBagID",
   "FailedInitialPing", "GetInfoFailed", "InvalidHeader", "CantGetPiece",
   "CantParseBoC", "ProofCheckFailed"}

Reason == ReasonCode \union {NoReason}

\* Mutant: a bag no agent answered for is taken for a definitive failure.
isRetriableReasonShort(code) ==
  code \in {"IPNotFound", "UnavailableProvider", "CantCreatePeer", "UnknownPeer",
            "PingFailed", "FailedInitialPing", "GetInfoFailed", "CantGetPiece"}

\* Failures that say something about the path to the provider rather than
\* about the bag: a second look may change them.
isRetriableReason(code) ==
  code \in {"IPNotFound", "NotFound", "UnavailableProvider", "CantCreatePeer",
            "UnknownPeer", "PingFailed", "FailedInitialPing", "GetInfoFailed",
            "CantGetPiece"}
=============================================================================
