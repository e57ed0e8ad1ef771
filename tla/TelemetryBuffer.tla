---------------------------- MODULE TelemetryBuffer ----------------------------
(***************************************************************************)
(* Telemetry and benchmark reports on their way from the HTTP handler to   *)
(* the database.  The handler puts an accepted report into a cache whose   *)
(* entries expire; once per interval the worker of the cache asks for the  *)
(* known providers, releases their reports and writes them in one          *)
(* statement.  A report that was released and could not be written is      *)
(* gone.  Telemetry and benchmarks have a cache, a worker and a table      *)
(* each and nothing in common but the code and the list of providers, so   *)
(* a behaviour here is that of one of them: kind says which.               *)
(*                                                                         *)
(* A report is its number in the order in which its provider's reports     *)
(* entered the buffer; 0 stands for none.  Requests that are rejected      *)
(* change nothing and are left out, and so is latestTelemetryBuffer, which *)
(* no worker reads.                                                        *)
(***************************************************************************)
EXTENDS Integers

CONSTANTS
  Providers,
  MaxReports,        \* bound of the model: accepted reports per provider
  ttl,               \* of the buffer
  successInterval, failureInterval,
  MaxCall            \* the longest time a database call takes

ASSUME TimingAssumption ==
  /\ MaxReports \in Nat
  /\ ttl \in Nat /\ successInterval \in Nat /\ failureInterval \in Nat /\ MaxCall \in Nat
  /\ failureInterval <= successInterval
  /\ successInterval + 3 * MaxCall <= ttl

VARIABLES
  kind,        \* "telemetry" or "benchmarks"
  known,       \* providers with a row and a resolved IP
  issued,      \* reports accepted so far
  buffer, age, \* telemetryBuffer or benchmarksBuffer: the report and the time since its Set
  wpc, timer,  \* the worker; the time its sleep still lasts or its call has taken
  todo,        \* pubkeys not released yet
  items,
  stored,      \* providers.telemetry or providers.benchmarks
  lost,        \* history: the newest report given up
  skipped      \* history: providers whose report was in the buffer when a run failed

httpVars == <<kind, known, issued>>
vars == <<kind, known, issued, buffer, age, wpc, timer, todo, items, stored, lost, skipped>>

Report == 0..MaxReports

TypeOK ==
  /\ kind \in {"telemetry", "benchmarks"}
  /\ known \subseteq Providers
  /\ issued \in [Providers -> Report]
  /\ buffer \in [Providers -> Report] /\ age \in [Providers -> 0..(ttl + 1)]
  /\ wpc \in {"sleep", "pubkeys", "release", "write"} /\ timer \in Nat
  /\ todo \subseteq known
  /\ items \in [Providers -> Report]
  /\ stored \in [Providers -> Report] /\ lost \in [Providers -> Report]
  /\ skipped \subseteq Providers

None == [p \in Providers |-> 0]

Init ==
  /\ kind \in {"telemetry", "benchmarks"}
  /\ known = {} /\ issued = None
  /\ buffer = None /\ age = None
  /\ wpc = "pubkeys" /\ timer = 0 /\ todo = {} /\ items = None
  /\ stored = None /\ lost = None /\ skipped = {}

-----------------------------------------------------------------------------
(* The handler *)

\* Another worker finds the provider's IP.
Resolve(p) ==
  /\ p \notin known
  /\ known' = known \union {p}
  /\ UNCHANGED <<kind, issued, buffer, age, wpc, timer, todo, items, stored, lost, skipped>>

\* A provider without a known IP, or another source, is turned away.
verifyProviderSourceIP(p) == p \in known

\* Mutant: a report that replaces another one inherits its expiry.
SetStale(p, n) ==
  /\ buffer' = [buffer EXCEPT ![p] = n]
  /\ age' = [age EXCEPT ![p] = IF buffer[p] = 0 THEN 0 ELSE @]

\* SimpleCache.Set
Set(p, n) ==
  /\ buffer' = [buffer EXCEPT ![p] = n]
  /\ age' = [age EXCEPT ![p] = 0]

\* A report is accepted.
Accept(p) ==
  /\ verifyProviderSourceIP(p)
  /\ issued[p] < MaxReports
  /\ issued' = [issued EXCEPT ![p] = @ + 1]
  /\ Set(p, issued'[p])
  /\ skipped' = skipped \ {p}
  /\ UNCHANGED <<kind, known, wpc, timer, todo, items, stored, lost>>

\* cacheMiddleware.UpdateTelemetry and UpdateBenchmarks.
SetTelemetry(p) == kind = "telemetry" /\ Accept(p)
SetBenchmark(p) == kind = "benchmarks" /\ Accept(p)

-----------------------------------------------------------------------------
(* The worker *)

Sleep(d) == wpc' = "sleep" /\ timer' = d

\* The query sees the rows there are when it starts.
Wake ==
  /\ wpc = "sleep" /\ timer = 0
  /\ wpc' = "pubkeys"
  /\ todo' = known
  /\ UNCHANGED <<httpVars, buffer, age, timer, items, stored, lost, skipped>>

GetAllProvidersPubkeys ==
  /\ wpc = "pubkeys"
  /\ wpc' = "release" /\ timer' = 0
  /\ UNCHANGED <<httpVars, buffer, age, todo, items, stored, lost, skipped>>

\* Mutant: the loop of the worker ends.
PubkeysFailStop ==
  /\ wpc = "pubkeys"
  /\ wpc' = "stopped" /\ timer' = 0 /\ todo' = {}
  /\ skipped' = skipped \union {p \in Providers : buffer[p] # 0}
  /\ UNCHANGED <<httpVars, buffer, age, items, stored, lost>>

PubkeysFail ==
  /\ wpc = "pubkeys"
  /\ Sleep(failureInterval) /\ todo' = {}
  /\ skipped' = skipped \union {p \in Providers : buffer[p] # 0}
  /\ UNCHANGED <<httpVars, buffer, age, items, stored, lost>>

Expired(p) == age[p] > ttl

\* SimpleCache.Release, for the next of the pubkeys.  An expired report is dropped.
Release(p) ==
  /\ wpc = "release" /\ p \in todo
  /\ todo' = todo \ {p}
  /\ IF Expired(p)
     THEN lost' = [lost EXCEPT ![p] = buffer[p]] /\ UNCHANGED items
     ELSE items' = [items EXCEPT ![p] = buffer[p]] /\ UNCHANGED lost
  /\ buffer' = [buffer EXCEPT ![p] = 0] /\ age' = [age EXCEPT ![p] = 0]
  /\ skipped' = skipped \ {p}
  /\ UNCHANGED <<httpVars, wpc, timer, stored>>

\* The worker turns what it took into a row.
ReleaseTelemetry(p) == kind = "telemetry" /\ Release(p)
ReleaseBenchmark(p) == kind = "benchmarks" /\ Release(p)

Released ==
  /\ wpc = "release" /\ todo = {}
  /\ IF items = None THEN Sleep(successInterval) ELSE wpc' = "write" /\ timer' = 0
  /\ UNCHANGED <<httpVars, buffer, age, todo, items, stored, lost, skipped>>

\* INSERT ... ON CONFLICT DO UPDATE: f where it has a report, g elsewhere.
Upsert(f, g) == [p \in Providers |-> IF f[p] # 0 THEN f[p] ELSE g[p]]

Write ==
  /\ wpc = "write"
  /\ stored' = Upsert(items, stored)
  /\ items' = None /\ Sleep(successInterval)
  /\ UNCHANGED <<httpVars, buffer, age, todo, lost, skipped>>

UpdateTelemetry == kind = "telemetry" /\ Write
UpdateBenchmarks == kind = "benchmarks" /\ Write

\* Mutant: the reports are put back, over what arrived in the meantime.
WriteFailsPutBack ==
  /\ wpc = "write"
  /\ buffer' = Upsert(items, buffer)
  /\ items' = None /\ Sleep(failureInterval)
  /\ UNCHANGED <<httpVars, age, todo, stored, lost, skipped>>

WriteFails ==
  /\ wpc = "write"
  /\ lost' = Upsert(items, lost)
  /\ items' = None /\ Sleep(failureInterval)
  /\ UNCHANGED <<httpVars, buffer, age, todo, stored, skipped>>

UpdateTelemetryFails == kind = "telemetry" /\ WriteFails
UpdateBenchmarksFails == kind = "benchmarks" /\ WriteFails

\* The goroutine of the cache.
cleanup ==
  LET old == {p \in Providers : buffer[p] # 0 /\ Expired(p)}
  IN  /\ old # {}
      /\ lost' = [p \in Providers |-> IF p \in old THEN buffer[p] ELSE lost[p]]
      /\ buffer' = [p \in Providers |-> IF p \in old THEN 0 ELSE buffer[p]]
      /\ age' = [p \in Providers |-> IF p \in old THEN 0 ELSE age[p]]
      /\ skipped' = skipped \ old
      /\ UNCHANGED <<httpVars, wpc, timer, todo, items, stored>>

-----------------------------------------------------------------------------

\* Timers fire on time and database calls are taken to end within MaxCall.
Tick ==
  /\ \/ wpc = "sleep" /\ timer > 0 /\ timer' = timer - 1
     \/ wpc \in {"pubkeys", "write"} /\ timer < MaxCall /\ timer' = timer + 1
  /\ age' = [p \in Providers |-> IF buffer[p] # 0 /\ age[p] <= ttl THEN age[p] + 1 ELSE age[p]]
  /\ UNCHANGED <<httpVars, buffer, wpc, todo, items, stored, lost, skipped>>

\* The process ends and starts again.
Crash ==
  /\ lost' = Upsert(buffer, Upsert(items, lost))
  /\ buffer' = None /\ age' = None /\ items' = None
  /\ wpc' = "pubkeys" /\ timer' = 0 /\ todo' = known
  /\ skipped' = {}
  /\ UNCHANGED <<httpVars, stored>>

Handler == \E p \in Providers : Resolve(p) \/ SetTelemetry(p) \/ SetBenchmark(p)

Worker ==
  \/ Wake \/ GetAllProvidersPubkeys \/ PubkeysFail \/ Released
  \/ UpdateTelemetry \/ UpdateTelemetryFails \/ UpdateBenchmarks \/ UpdateBenchmarksFails
  \/ \E p \in Providers : ReleaseTelemetry(p) \/ ReleaseBenchmark(p)

Next == Handler \/ Worker \/ cleanup \/ Tick \/ Crash

Spec == Init /\ [][Next]_vars

\* The goroutines of the worker and of the cache run, and time passes.
FairSpec == Spec /\ WF_vars(Worker) /\ WF_vars(cleanup) /\ WF_vars(Tick)

-----------------------------------------------------------------------------
(* Properties *)

\* The newest accepted report of a provider is in the buffer, in the worker's hands,
\* in the database, or was given up by a failed write, an expiry or a crash: an
\* older one never takes its place (SimpleCache.Set and Release, UpdateTelemetry,
\* UpdateBenchmarks).
ReportsAccounted == \A p \in Providers : issued[p] \in {buffer[p], items[p], stored[p], lost[p]}

\* The time to live outlasts the worker's period: a report expires in the buffer only
\* if the list of providers could not be read while it waited (main.go's two minutes
\* against the interval of both workers).  It rests on MaxCall, which the code does
\* not set: the statements run under a context without a deadline.
ExpiryExcused == \A p \in Providers : buffer[p] # 0 /\ Expired(p) => p \in skipped

\* Every accepted report is written, or a newer one is, or it was given up, with
\* whatever calls fail.
ReportsSettled ==
  \A p \in Providers : \A n \in 1..MaxReports :
    issued[p] = n ~> (stored[p] >= n \/ lost[p] >= n)
=============================================================================
