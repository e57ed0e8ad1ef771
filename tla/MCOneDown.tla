------------------------------- MODULE MCOneDown -------------------------------
(***************************************************************************)
(* StoreProof in an otherwise healthy world where at most one of the       *)
(* agents is down: the database and the endpoints always answer, every     *)
(* provider stores its bags, and an agent that is up proves every bag it   *)
(* is asked about, unless a retry has reached its deadline.  Every call    *)
(* takes its time.  Agents go down and come back only between cycles.      *)
(***************************************************************************)
EXTENDS MCStoreProof

VARIABLE down     \* the agent that does not answer, or NoAgent

downVars == <<vars, down>>

\* An agent that does not answer leaves its bags NotFound.
Proves(todo, a, results) ==
  \A c \in todo :
    results[c] = IF a[ProviderOf[c]] = down THEN "NotFound" ELSE "ValidStorageProof"

\* All shards of the main pass sit on the agent that is down.
AllOnDown ==
  \E a \in assignProvidersToAgents(contracts, Batch(contracts), sticky, NoAssignment) :
    \A p \in Batch(contracts) : a[p] = down

\* There may be no time for the retry, none left after the wait, or none for some
\* or all of the agents to answer it.
HealthyWorker ==
  \/ StartCycle
  \/ updateRejectedContracts({})
  \/ updateProvidersIPs({ProviderOf[c] : c \in contracts})
  \/ RunMain /\ ~AllOnDown /\ Proves(contracts, mainAssignment', mainResults')
  \/ AbortBeforeCommit /\ pc = "main" /\ AllOnDown
  \/ RunMainUnresolved
  \/ CommitMain \/ StatusMain
  \/ ScheduleRetry \/ SkipRetry \/ NothingDeferred \/ WaitElapsed
  \/ refreshForRetry({ProviderOf[c] : c \in pending})
  \/ RunRetry /\ (elapsed < Deadline => Proves(pending, retryAssignment', retryResults'))
  \/ RunRetryFails /\ elapsed >= Deadline
  \/ \E path \in FinalPath \ {"cancel"} : CommitFinal(path) \/ StatusFinal(path)

Outage ==
  /\ pc = "sleep"
  /\ down' \in Agent \ {down}
  /\ UNCHANGED vars

OneDownInit == Init /\ down = NoAgent

OneDownNext ==
  \/ (HealthyWorker \/ Tick \/ \E c \in Contracts : AddStorageContracts(c)) /\ UNCHANGED down
  \/ Outage

OneDownSpec ==
  /\ OneDownInit /\ [][OneDownNext]_downVars
  /\ WF_downVars(HealthyWorker /\ UNCHANGED down)
  /\ WF_downVars(Tick /\ UNCHANGED down)

\* As long as there is a retry (RetryDelay is not 0) and the cycle is before the
\* retry deadline, the loss of one agent makes no bag publicly failed: what its
\* shard did not answer is deferred and proved by another agent.  A failure that is
\* published after that is of a bag the main pass gave to that agent, and that no
\* other agent has proved (runStoreProofChecks, selectMainProofsCommit,
\* assignProvidersToAgents with exclude, sleepUntil, selectFinalProofsCommit).
OutageStaysHidden ==
  [][\A c \in Contracts :
       reason'[c] \notin {reason[c], NoReason, "ValidStorageProof"} =>
         /\ RetryDelay = 0 \/ elapsed >= Deadline
         /\ mainAssignment[ProviderOf[c]] = down
         /\ retryResults[c] # "ValidStorageProof"]_downVars

\* deploy/README.md: "One retry of failed bags runs inside that window" and
\* "transient fails are deferred until retry (or committed if retry is
\* skipped)": once outages stop coming and going, every bag is judged in the
\* end, since an agent is up.
EveryBagJudged ==
  <>[][down' = down]_down => \A c \in Contracts : c \in rows ~> reason[c] # NoReason
=============================================================================
