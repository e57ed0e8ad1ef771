------------------------- MODULE TelemetryBufferProofs -------------------------
(* Proofs about TelemetryBuffer, for any providers and any timings that meet *)
(* TimingAssumption.                                                         *)
EXTENDS TelemetryBuffer, TLAPS

\* Every step keeps the types.
LEMMA TypeStep == TypeOK /\ [Next]_vars => TypeOK'
<1> SUFFICES ASSUME TypeOK, [Next]_vars PROVE TypeOK'
  OBVIOUS
<1> USE TimingAssumption DEF TypeOK, Report
<1>l. \A f, g \in [Providers -> Report] : Upsert(f, g) \in [Providers -> Report]
  BY DEF Upsert
<1>n. None \in [Providers -> Report] /\ None \in [Providers -> 0..(ttl + 1)]
  BY DEF None
<1>1. ASSUME NEW p \in Providers, Resolve(p) PROVE TypeOK'
  BY <1>1 DEF Resolve
<1>2. ASSUME NEW p \in Providers, Accept(p) PROVE TypeOK'
  <2>1. issued[p] + 1 \in Report /\ 0 \in 0..(ttl + 1)
    BY <1>2 DEF Accept, Set, verifyProviderSourceIP
  <2> QED BY <1>2, <2>1 DEF Accept, Set, verifyProviderSourceIP
<1>3. CASE Wake
  BY <1>3 DEF Wake, httpVars
<1>4. CASE GetAllProvidersPubkeys
  BY <1>4 DEF GetAllProvidersPubkeys, httpVars
<1>5. CASE PubkeysFail
  BY <1>5 DEF PubkeysFail, Sleep, httpVars
<1>6. ASSUME NEW p \in Providers, Release(p) PROVE TypeOK'
  <2>1. 0 \in Report /\ 0 \in 0..(ttl + 1)
    OBVIOUS
  <2>2. items' \in [Providers -> Report] /\ lost' \in [Providers -> Report]
    BY <1>6 DEF Release, Expired
  <2> QED BY <1>6, <2>1, <2>2 DEF Release, Expired, httpVars
<1>7. CASE Released
  BY <1>7 DEF Released, Sleep, httpVars
<1>8. CASE Write
  BY <1>8, <1>l, <1>n DEF Write, Sleep, httpVars
<1>9. CASE WriteFails
  BY <1>9, <1>l, <1>n DEF WriteFails, Sleep, httpVars
<1>10. CASE cleanup
  BY <1>10 DEF cleanup, Expired, httpVars
<1>11. CASE Tick
  <2>1. age' \in [Providers -> 0..(ttl + 1)]
    BY <1>11 DEF Tick
  <2>2. timer' \in Nat
    BY <1>11 DEF Tick
  <2> QED BY <1>11, <2>1, <2>2 DEF Tick, httpVars
<1>12. CASE Crash
  BY <1>12, <1>l, <1>n DEF Crash, httpVars
<1>13. CASE UNCHANGED vars
  BY <1>13 DEF vars
<1> QED
  BY <1>1, <1>2, <1>3, <1>4, <1>5, <1>6, <1>7, <1>8, <1>9, <1>10, <1>11, <1>12, <1>13
  DEF Next, Handler, Worker, SetTelemetry, SetBenchmark, ReleaseTelemetry, ReleaseBenchmark,
      UpdateTelemetry, UpdateBenchmarks, UpdateTelemetryFails, UpdateBenchmarksFails

\* The initial state has its types.
LEMMA TypeInit == Init => TypeOK
BY TimingAssumption DEF Init, TypeOK, None, Report

\* The buffer, the worker and the table keep their types.
THEOREM TypeCorrect == Spec => []TypeOK
BY TypeInit, TypeStep, PTL DEF Spec

-----------------------------------------------------------------------------
(* Time *)

\* How old a report may be in each phase of the worker, unless a run failed while
\* it waited; and where such a report may be.
Fresh(p) ==
  /\ buffer[p] # 0 => p \in known
  /\ p \in skipped => buffer[p] # 0
  /\ p \in skipped /\ wpc \in {"pubkeys", "release"} => p \in todo
  /\ p \in skipped => wpc # "write"
  /\ buffer[p] # 0 /\ p \notin skipped =>
       /\ wpc = "pubkeys" => age[p] <= (IF p \in todo THEN 2 * MaxCall + successInterval ELSE 0) + timer
       /\ wpc = "release" => age[p] <= (IF p \in todo THEN ttl ELSE MaxCall)
       /\ wpc = "write" => age[p] <= MaxCall + timer
       /\ wpc = "sleep" => age[p] + timer <= 2 * MaxCall + successInterval

AgeInv ==
  /\ wpc \in {"pubkeys", "write"} => timer <= MaxCall
  /\ wpc = "sleep" => timer <= successInterval
  /\ wpc = "write" => todo = {}
  /\ \A p \in Providers : Fresh(p)

\* Every step keeps the ages within their bounds.
LEMMA AgeStep == TypeOK /\ AgeInv /\ [Next]_vars => AgeInv'
<1> SUFFICES ASSUME TypeOK, AgeInv, [Next]_vars PROVE AgeInv'
  OBVIOUS
<1> USE TimingAssumption
<1>t. /\ timer \in Nat /\ wpc \in {"sleep", "pubkeys", "release", "write"}
      /\ \A q \in Providers : age[q] \in Nat
  BY DEF TypeOK
<1>o. \A q \in Providers : Fresh(q)
  BY DEF AgeInv
<1>1. ASSUME NEW p \in Providers, Resolve(p) PROVE AgeInv'
  BY <1>1 DEF Resolve, AgeInv, Fresh
<1>2. ASSUME NEW p \in Providers, Accept(p) PROVE AgeInv'
  <2>1. ASSUME NEW q \in Providers PROVE Fresh(q)'
    <3>1. CASE p = q
      <4>1. age'[q] = 0 /\ q \notin skipped' /\ q \in known' /\ UNCHANGED <<wpc, timer, todo>>
        BY <1>2, <3>1 DEF Accept, Set, verifyProviderSourceIP, TypeOK
      <4> QED BY <1>t, <4>1 DEF Fresh, AgeInv
    <3>2. CASE p # q
      <4>1. /\ age'[q] = age[q] /\ buffer'[q] = buffer[q] /\ (q \in skipped' <=> q \in skipped)
            /\ UNCHANGED <<known, wpc, timer, todo>>
        BY <1>2, <3>2 DEF Accept, Set, verifyProviderSourceIP, TypeOK
      <4> QED BY <1>o, <4>1 DEF Fresh
    <3> QED BY <3>1, <3>2
  <2> QED BY <1>2, <2>1 DEF Accept, Set, verifyProviderSourceIP, AgeInv
<1>3. CASE Wake
  <2>1. ASSUME NEW q \in Providers PROVE Fresh(q)'
    BY <1>3, <1>t, <1>o DEF Wake, httpVars, Fresh
  <2> QED BY <1>3, <2>1 DEF Wake, AgeInv
<1>4. CASE GetAllProvidersPubkeys
  <2>1. ASSUME NEW q \in Providers PROVE Fresh(q)'
    BY <1>4, <1>t, <1>o DEF GetAllProvidersPubkeys, httpVars, Fresh, AgeInv
  <2> QED BY <1>4, <2>1 DEF GetAllProvidersPubkeys, AgeInv
<1>5. CASE PubkeysFail
  <2>1. ASSUME NEW q \in Providers PROVE Fresh(q)'
    BY <1>5, <1>o DEF PubkeysFail, Sleep, httpVars, Fresh
  <2> QED BY <1>5, <2>1 DEF PubkeysFail, Sleep, AgeInv
<1>6. ASSUME NEW p \in Providers, Release(p) PROVE AgeInv'
  <2>1. ASSUME NEW q \in Providers PROVE Fresh(q)'
    <3>1. CASE p = q
      BY <1>6, <3>1 DEF Release, Expired, TypeOK, Fresh
    <3>2. CASE p # q
      <4>1. /\ age'[q] = age[q] /\ buffer'[q] = buffer[q] /\ (q \in skipped' <=> q \in skipped)
            /\ (q \in todo' <=> q \in todo) /\ UNCHANGED <<known, wpc, timer>>
        BY <1>6, <3>2 DEF Release, Expired, TypeOK, httpVars
      <4> QED BY <1>o, <4>1 DEF Fresh
    <3> QED BY <3>1, <3>2
  <2> QED BY <1>6, <2>1 DEF Release, Expired, AgeInv
<1>7. CASE Released
  <2>1. ASSUME NEW q \in Providers PROVE Fresh(q)'
    BY <1>7, <1>t, <1>o DEF Released, Sleep, httpVars, Fresh
  <2> QED BY <1>7, <2>1 DEF Released, Sleep, AgeInv
<1>8. CASE Write
  <2>1. ASSUME NEW q \in Providers PROVE Fresh(q)'
    BY <1>8, <1>t, <1>o DEF Write, Sleep, httpVars, Fresh, AgeInv
  <2> QED BY <1>8, <2>1 DEF Write, Sleep, AgeInv
<1>9. CASE WriteFails
  <2>1. ASSUME NEW q \in Providers PROVE Fresh(q)'
    BY <1>9, <1>t, <1>o DEF WriteFails, Sleep, httpVars, Fresh, AgeInv
  <2> QED BY <1>9, <2>1 DEF WriteFails, Sleep, AgeInv
<1>10. CASE cleanup
  <2>1. ASSUME NEW q \in Providers PROVE Fresh(q)'
    <3>1. CASE buffer[q] # 0 /\ age[q] > ttl
      BY <1>10, <3>1 DEF cleanup, Expired, Fresh
    <3>2. CASE ~(buffer[q] # 0 /\ age[q] > ttl)
      <4>1. /\ age'[q] = age[q] /\ buffer'[q] = buffer[q] /\ (q \in skipped' <=> q \in skipped)
            /\ UNCHANGED <<known, wpc, timer, todo>>
        BY <1>10, <3>2 DEF cleanup, Expired, httpVars
      <4> QED BY <1>o, <4>1 DEF Fresh
    <3> QED BY <3>1, <3>2
  <2> QED BY <1>10, <2>1 DEF cleanup, Expired, AgeInv
<1>11. CASE Tick
  <2>1. ASSUME NEW q \in Providers PROVE Fresh(q)'
    <3>1. age'[q] \in Nat /\ age'[q] <= age[q] + 1
      BY <1>11, <1>t DEF Tick
    <3>2. UNCHANGED <<buffer, skipped, known, wpc, todo>>
      BY <1>11 DEF Tick, httpVars
    <3>3. CASE wpc = "sleep"
      BY <1>11, <1>t, <1>o, <3>1, <3>2, <3>3 DEF Tick, Fresh
    <3>4. CASE wpc \in {"pubkeys", "write"}
      BY <1>11, <1>t, <1>o, <3>1, <3>2, <3>4 DEF Tick, Fresh
    <3> QED BY <1>11, <3>3, <3>4 DEF Tick
  <2> QED BY <1>11, <1>t, <2>1 DEF Tick, AgeInv
<1>12. CASE Crash
  <2>1. ASSUME NEW q \in Providers PROVE Fresh(q)'
    BY <1>12 DEF Crash, httpVars, None, Fresh
  <2> QED BY <1>12, <2>1 DEF Crash, httpVars, AgeInv
<1>13. CASE UNCHANGED vars
  BY <1>13 DEF vars, AgeInv, Fresh
<1> QED
  BY <1>1, <1>2, <1>3, <1>4, <1>5, <1>6, <1>7, <1>8, <1>9, <1>10, <1>11, <1>12, <1>13
  DEF Next, Handler, Worker, SetTelemetry, SetBenchmark, ReleaseTelemetry, ReleaseBenchmark,
      UpdateTelemetry, UpdateBenchmarks, UpdateTelemetryFails, UpdateBenchmarksFails

\* The initial state has an empty buffer.
LEMMA AgeInit == Init => AgeInv
BY TimingAssumption DEF Init, AgeInv, Fresh, None

\* While runs do not fail, a report is released before it expires.
LEMMA FreshEnough == TypeOK /\ AgeInv => ExpiryExcused
<1> SUFFICES ASSUME TypeOK, AgeInv, NEW p \in Providers, buffer[p] # 0, p \notin skipped
             PROVE  age[p] <= ttl
  BY TimingAssumption DEF ExpiryExcused, Expired, TypeOK
<1>1. /\ age[p] \in Nat /\ timer \in Nat /\ Fresh(p)
      /\ wpc \in {"sleep", "pubkeys", "release", "write"}
  BY DEF TypeOK, AgeInv
<1> QED BY <1>1, TimingAssumption DEF Fresh, AgeInv

\* A report expires in the buffer only if a run of the worker failed while it was
\* there: the time to live covers a period of the worker and its database calls.
THEOREM ExpiryNeedsFailure == Spec => []ExpiryExcused
<1>1. TypeOK /\ AgeInv /\ [Next]_vars => (TypeOK /\ AgeInv)'
  BY TypeStep, AgeStep
<1> QED BY <1>1, TypeInit, AgeInit, FreshEnough, PTL DEF Spec

-----------------------------------------------------------------------------
(* Reports *)

\* The reports of a provider move in the order in which they were accepted.
Ordered(p) ==
  /\ buffer[p] \in {0, issued[p]}
  /\ items[p] <= issued[p] /\ stored[p] <= issued[p] /\ lost[p] <= issued[p]
  /\ items[p] # 0 => stored[p] < items[p] /\ lost[p] < items[p]
  /\ buffer[p] # 0 => stored[p] < buffer[p] /\ lost[p] < buffer[p] /\ items[p] < buffer[p]
  /\ buffer[p] = 0 => age[p] = 0
  /\ wpc \in {"sleep", "pubkeys"} \/ (wpc = "release" /\ p \in todo) => items[p] = 0
  /\ wpc = "write" => todo = {}
  /\ issued[p] \in {buffer[p], items[p], stored[p], lost[p]}

ReportInv == \A p \in Providers : Ordered(p)

\* Every step keeps the reports in order.
LEMMA ReportStep == TypeOK /\ AgeInv /\ ReportInv /\ [Next]_vars => ReportInv'
<1> SUFFICES ASSUME TypeOK, AgeInv, ReportInv, [Next]_vars, NEW q \in Providers PROVE Ordered(q)'
  BY DEF ReportInv
<1> USE TimingAssumption
<1>o. Ordered(q)
  BY DEF ReportInv
<1>t. /\ issued[q] \in Nat /\ buffer[q] \in Nat /\ items[q] \in Nat /\ stored[q] \in Nat
      /\ lost[q] \in Nat /\ age[q] \in Nat
  BY DEF TypeOK, Report
<1>f. \A f, g : Upsert(f, g)[q] = IF f[q] # 0 THEN f[q] ELSE g[q]
  BY DEF Upsert
<1>n. None[q] = 0
  BY DEF None
<1>1. ASSUME NEW p \in Providers, Resolve(p) PROVE Ordered(q)'
  BY <1>1, <1>o DEF Resolve, Ordered
<1>2. ASSUME NEW p \in Providers, Accept(p) PROVE Ordered(q)'
  <2>1. CASE p = q
    <3>1. issued'[q] = issued[q] + 1 /\ buffer'[q] = issued[q] + 1
      BY <1>2, <2>1 DEF Accept, Set, verifyProviderSourceIP, TypeOK
    <3> QED BY <1>2, <1>o, <1>t, <3>1 DEF Accept, Set, verifyProviderSourceIP, Ordered
  <2>2. CASE p # q
    BY <1>2, <1>o, <2>2 DEF Accept, Set, verifyProviderSourceIP, TypeOK, Ordered
  <2> QED BY <2>1, <2>2
<1>3. CASE Wake
  BY <1>3, <1>o DEF Wake, httpVars, Ordered
<1>4. CASE GetAllProvidersPubkeys
  BY <1>4, <1>o DEF GetAllProvidersPubkeys, httpVars, Ordered
<1>5. CASE PubkeysFail
  BY <1>5, <1>o DEF PubkeysFail, Sleep, httpVars, Ordered
<1>6. ASSUME NEW p \in Providers, Release(p) PROVE Ordered(q)'
  <2>1. CASE p # q
    BY <1>6, <1>o, <2>1 DEF Release, Expired, TypeOK, httpVars, Ordered
  <2>2. CASE p = q /\ age[p] <= ttl
    <3>1. /\ items'[q] = buffer[q] /\ buffer'[q] = 0 /\ age'[q] = 0 /\ q \notin todo'
          /\ wpc = "release" /\ items[q] = 0 /\ UNCHANGED <<lost, issued, stored, wpc>>
      BY <1>6, <1>o, <2>2 DEF Release, Expired, TypeOK, httpVars, Ordered
    <3> QED BY <1>o, <1>t, <3>1 DEF Ordered
  <2>3. CASE p = q /\ ~(age[p] <= ttl)
    <3>1. /\ lost'[q] = buffer[q] /\ buffer'[q] = 0 /\ age'[q] = 0 /\ q \notin todo'
          /\ wpc = "release" /\ items[q] = 0 /\ UNCHANGED <<items, issued, stored, wpc>>
      BY <1>6, <1>o, <2>3 DEF Release, Expired, TypeOK, httpVars, Ordered
    <3>2. buffer[q] # 0
      BY <1>o, <2>3 DEF Ordered
    <3> QED BY <1>o, <1>t, <3>1, <3>2 DEF Ordered
  <2> QED BY <2>1, <2>2, <2>3
<1>7. CASE Released
  <2>1. CASE items = None
    BY <1>7, <1>o, <1>n, <2>1 DEF Released, Sleep, httpVars, Ordered
  <2>2. CASE items # None
    BY <1>7, <1>o, <2>2 DEF Released, httpVars, Ordered
  <2> QED BY <2>1, <2>2
<1>8. CASE Write
  <2>1. /\ stored'[q] = IF items[q] # 0 THEN items[q] ELSE stored[q]
        /\ items'[q] = 0 /\ wpc' = "sleep" /\ UNCHANGED <<issued, buffer, age, lost>>
    BY <1>8, <1>f, <1>n DEF Write, Sleep, httpVars
  <2> QED BY <1>o, <1>t, <2>1 DEF Ordered
<1>9. CASE WriteFails
  <2>1. /\ lost'[q] = IF items[q] # 0 THEN items[q] ELSE lost[q]
        /\ items'[q] = 0 /\ wpc' = "sleep" /\ UNCHANGED <<issued, buffer, age, stored>>
    BY <1>9, <1>f, <1>n DEF WriteFails, Sleep, httpVars
  <2> QED BY <1>o, <1>t, <2>1 DEF Ordered
<1>10. CASE cleanup
  <2>1. CASE buffer[q] # 0 /\ age[q] > ttl
    <3>1. /\ lost'[q] = buffer[q] /\ buffer'[q] = 0 /\ age'[q] = 0
          /\ UNCHANGED <<issued, wpc, todo, items, stored>>
      BY <1>10, <2>1 DEF cleanup, Expired, httpVars
    <3>2. q \in skipped /\ q \in Providers
      BY <2>1, FreshEnough DEF ExpiryExcused, Expired
    <3>3. items[q] = 0
      BY <1>o, <3>2 DEF AgeInv, Fresh, Ordered, TypeOK
    <3> QED BY <1>o, <1>t, <2>1, <3>1, <3>3 DEF Ordered
  <2>2. CASE ~(buffer[q] # 0 /\ age[q] > ttl)
    <3>1. lost'[q] = lost[q] /\ buffer'[q] = buffer[q] /\ age'[q] = age[q]
      BY <1>10, <2>2 DEF cleanup, Expired
    <3> QED BY <1>10, <1>o, <3>1 DEF cleanup, Expired, httpVars, Ordered
  <2> QED BY <2>1, <2>2
<1>11. CASE Tick
  <2>1. buffer[q] = 0 => age'[q] = age[q]
    BY <1>11 DEF Tick
  <2> QED BY <1>11, <1>o, <2>1 DEF Tick, httpVars, Ordered
<1>12. CASE Crash
  <2>1. /\ lost'[q] = IF buffer[q] # 0 THEN buffer[q] ELSE IF items[q] # 0 THEN items[q] ELSE lost[q]
        /\ buffer'[q] = 0 /\ age'[q] = 0 /\ items'[q] = 0 /\ wpc' = "pubkeys"
        /\ UNCHANGED <<issued, stored>>
    BY <1>12, <1>f, <1>n DEF Crash, httpVars
  <2> QED BY <1>o, <1>t, <2>1 DEF Ordered
<1>13. CASE UNCHANGED vars
  BY <1>13, <1>o DEF vars, Ordered
<1> QED
  BY <1>1, <1>2, <1>3, <1>4, <1>5, <1>6, <1>7, <1>8, <1>9, <1>10, <1>11, <1>12, <1>13
  DEF Next, Handler, Worker, SetTelemetry, SetBenchmark, ReleaseTelemetry, ReleaseBenchmark,
      UpdateTelemetry, UpdateBenchmarks, UpdateTelemetryFails, UpdateBenchmarksFails

\* The newest report of a provider is never lost from sight, nor replaced by an
\* older one, whatever fails and whenever requests arrive.
THEOREM ReportsKept == Spec => []ReportsAccounted
<1> DEFINE Inv == TypeOK /\ AgeInv /\ ReportInv
<1>1. Init => Inv
  BY TypeInit, AgeInit DEF Init, ReportInv, Ordered, None
<1>2. Inv /\ [Next]_vars => Inv'
  BY TypeStep, AgeStep, ReportStep
<1>3. Inv => ReportsAccounted
  BY DEF ReportInv, Ordered, ReportsAccounted
<1> QED BY <1>1, <1>2, <1>3, PTL DEF Spec
=============================================================================
