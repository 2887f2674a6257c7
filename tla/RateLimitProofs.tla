--------------------------- MODULE RateLimitProofs ---------------------------
(* Proofs about the rate limiter, for any limits, keys, threads and clock. *)
EXTENDS RateLimit, FiniteSetTheorems, TLAPS

\* A multiple of Minute separates two seconds exactly as its quotient
\* separates their minutes.
LEMMA DivBound ==
    ASSUME NEW a \in Nat, NEW m \in Nat \ {0}, NEW x \in Nat
    PROVE  (a \div m < x) <=> (a < m * x)
OBVIOUS

\* A second is in no later hour than another second of its minute.
LEMMA HourBound ==
    ASSUME NEW a \in Nat, NEW b \in Nat, a \div Minute = b \div Minute
    PROVE  b \div Hour <= a \div Hour
<1> USE CalendarAssumption
<1>1. PICK q \in Nat : Hour = Minute * q
  OBVIOUS
<1> DEFINE u == a \div Hour
<1>2. u \in Nat /\ b \div Hour \in Nat /\ q * (u + 1) \in Nat
  OBVIOUS
<1>3. Hour * (u + 1) = Minute * (q * (u + 1))
  BY <1>1, <1>2
<1> HIDE DEF u
<1>4. a \div Hour < u + 1
  BY <1>2 DEF u
<1>5. a < Hour * (u + 1)
  BY <1>2, <1>4, DivBound
<1>6. b \div Minute < q * (u + 1)
  BY <1>2, <1>3, <1>5, DivBound
<1>7. b < Hour * (u + 1)
  BY <1>2, <1>3, <1>6, DivBound
<1>8. b \div Hour < u + 1
  BY <1>2, <1>7, DivBound
<1> QED
  BY <1>2, <1>8 DEF u

\* Two seconds of one minute are seconds of one hour.
LEMMA MinuteInHour ==
    ASSUME NEW a \in Nat, NEW b \in Nat, a \div Minute = b \div Minute
    PROVE  a \div Hour = b \div Hour
<1>1. a \div Hour \in Nat /\ b \div Hour \in Nat
  BY CalendarAssumption
<1>2. b \div Hour <= a \div Hour /\ a \div Hour <= b \div Hour
  BY HourBound
<1> QED
  BY <1>1, <1>2

\* The windows and limits of the calendar.
LEMMA WindowTypes ==
    /\ \A w \in Windows : \A t \in Nat : WindowOf(w, t) \in Nat
    /\ \A w \in Windows : Limit(w) \in Nat
    /\ \A t \in Nat : WindowOf("hour", t) <= WindowOf("hour", t + 1)
<1>1. \A t \in Nat : /\ WindowOf("second", t) = t
                     /\ WindowOf("minute", t) = t \div Minute
                     /\ WindowOf("hour", t) = t \div Hour
  BY DEF WindowOf, Length
<1>2. \A t \in Nat : /\ t \div Minute \in Nat /\ t \div Hour \in Nat
                     /\ t \div Hour <= (t + 1) \div Hour
  BY CalendarAssumption
<1>3. /\ Limit("second") = PerSecond /\ Limit("minute") = PerMinute
      /\ Limit("hour") = PerHour
  BY DEF Limit
<1> QED
  BY <1>1, <1>2, <1>3, LimitsAssumption DEF Windows

\* The windows of a second: equal shorter windows give equal longer ones.
LEMMA WindowsNest ==
    ASSUME NEW a \in Nat, NEW b \in Nat
    PROVE  /\ WindowOf("second", a) = WindowOf("second", b)
                => WindowOf("minute", a) = WindowOf("minute", b)
           /\ WindowOf("minute", a) = WindowOf("minute", b)
                => WindowOf("hour", a) = WindowOf("hour", b)
<1>1. \A t \in Nat : /\ WindowOf("second", t) = t
                     /\ WindowOf("minute", t) = t \div Minute
                     /\ WindowOf("hour", t) = t \div Hour
  BY DEF WindowOf, Length
<1> QED
  BY <1>1, MinuteInHour

\* A check that has read n finds counters that are nested and within their
\* limits after the reset, so that it may count itself.
LEMMA CurrentNested ==
    ASSUME TypeOK, BucketsNested, NEW g \in Sites, NEW k \in Keys, NEW n \in Times
    PROVE  /\ \A w \in Windows : Current(g, k, w, n) \in Nat
           /\ Current(g, k, "second", n) <= Current(g, k, "minute", n)
           /\ Current(g, k, "minute", n) <= Current(g, k, "hour", n)
           /\ \A w \in Windows : Limit(w) > 0 => Current(g, k, w, n) <= Limit(w)
<1>0. n \in Nat /\ \A t \in Times : t \in Nat
  BY LimitsAssumption DEF Times
<1>1. \A w \in Windows : count[g][k][w] \in Nat /\ Limit(w) \in Nat
  BY WindowTypes DEF TypeOK
<1>2. CASE k \notin table[g]
  BY <1>1, <1>2 DEF Current, Windows
<1>3. CASE k \in table[g]
  <2>1. Nested(g, k)
    BY <1>3 DEF BucketsNested
  <2>2. PICK t \in Times : \A w \in Windows : ts[g][k][w] = WindowOf(w, t)
    BY <2>1 DEF Nested
  <2>3. \A w \in Windows :
          Current(g, k, w, n) = IF WindowOf(w, t) = WindowOf(w, n)
                                THEN count[g][k][w] ELSE 0
    BY <1>3, <2>2 DEF Current
  <2>4. /\ WindowOf("second", t) = WindowOf("second", n)
             => WindowOf("minute", t) = WindowOf("minute", n)
        /\ WindowOf("minute", t) = WindowOf("minute", n)
             => WindowOf("hour", t) = WindowOf("hour", n)
    BY <1>0, WindowsNest
  <2>5. /\ count[g][k]["second"] <= count[g][k]["minute"]
        /\ count[g][k]["minute"] <= count[g][k]["hour"]
        /\ \A w \in Windows : Limit(w) > 0 => count[g][k][w] <= Limit(w)
    BY <2>1 DEF Nested
  <2>6. "second" \in Windows /\ "minute" \in Windows /\ "hour" \in Windows
    BY DEF Windows
  <2>7. \A w \in Windows : Current(g, k, w, n) \in Nat
    BY <1>1, <2>3
  <2>8. Current(g, k, "second", n) <= Current(g, k, "minute", n)
    BY <1>1, <2>3, <2>4, <2>5, <2>6
  <2>9. Current(g, k, "minute", n) <= Current(g, k, "hour", n)
    BY <1>1, <2>3, <2>4, <2>5, <2>6
  <2>10. \A w \in Windows : Limit(w) > 0 => Current(g, k, w, n) <= Limit(w)
    BY <1>1, <2>3, <2>5
  <2> QED
    BY <2>7, <2>8, <2>9, <2>10
<1> QED
  BY <1>2, <1>3

\* A bucket that no step touches stays nested.
LEMMA NestedFrame ==
    ASSUME NEW g \in Sites, NEW k \in Keys, Nested(g, k),
           ts'[g][k] = ts[g][k], count'[g][k] = count[g][k]
    PROVE  Nested(g, k)'
BY DEF Nested

\* Replacing the bucket of one key of one Site.
LEMMA BucketUpdate ==
    ASSUME NEW S, NEW f \in [Sites -> [Keys -> S]], NEW g \in Sites, NEW k \in Keys,
           NEW v \in S
    PROVE  LET f2 == [f EXCEPT ![g] = [@ EXCEPT ![k] = v]] IN
           /\ f2 \in [Sites -> [Keys -> S]]
           /\ f2[g][k] = v
           /\ \A h \in Sites : \A j \in Keys : ~(h = g /\ j = k) => f2[h][j] = f[h][j]
OBVIOUS

\* Adding to one entry of a table of counters.
LEMMA CountedUp ==
    ASSUME NEW T, NEW f \in [T -> Nat], NEW c, NEW a \in Nat
    PROVE  [f EXCEPT ![c] = @ + a] \in [T -> Nat]
<1> DEFINE v == f[c] + a
<1>1. c \in T => v \in Nat
  OBVIOUS
<1> HIDE DEF v
<1>2. [f EXCEPT ![c] = v] \in [T -> Nat]
  BY <1>1, Zenon
<1> QED
  BY <1>2 DEF v

\* What Update does to the buckets.
LEMMA UpdateBucket ==
    ASSUME TypeOK, BucketsNested, NEW t \in Threads, Update(t)
    PROVE  /\ table' = [table EXCEPT ![held[t]] = @ \cup {key[t]}]
           /\ ts' \in [Sites -> [Keys -> [Windows -> Nat]]]
           /\ count' \in [Sites -> [Keys -> [Windows -> Nat]]]
           /\ granted' \in [Sites -> [Keys -> [Windows -> [Times -> Nat]]]]
           /\ \A h \in Sites : \A j \in Keys : ~(h = held[t] /\ j = key[t]) =>
                ts'[h][j] = ts[h][j] /\ count'[h][j] = count[h][j]
           /\ \A h \in Sites : \A j \in Keys :
                h = held[t] /\ j = key[t] => Nested(h, j)'
<1> DEFINE g == held[t]
           k == key[t]
           n == read[t]
           add == IF Exceeded(g, k, n) = {} THEN 1 ELSE 0
           ts2 == [w \in Windows |-> WindowOf(w, n)]
           count2 == [w \in Windows |-> Current(g, k, w, n) + add]
<1>0. /\ g \in Sites /\ k \in Keys /\ n \in Times /\ n \in Nat /\ add \in Nat
      /\ site \in Sites /\ now \in Times
  BY LimitsAssumption DEF TypeOK, Sites, Times
<1>1. /\ table' = [table EXCEPT ![g] = @ \cup {k}]
      /\ ts' = [ts EXCEPT ![g] = [@ EXCEPT ![k] = ts2]]
      /\ count' = [count EXCEPT ![g] = [@ EXCEPT ![k] = count2]]
  BY Zenon DEF Update
<1>g. granted' \in [Sites -> [Keys -> [Windows -> [Times -> Nat]]]]
  <2> DEFINE granted2 == Booked(g, k, n, add)
  <2>1. granted' = [granted EXCEPT ![g] = [@ EXCEPT ![k] = granted2]]
    BY Zenon DEF Update
  <2>2. granted \in [Sites -> [Keys -> [Windows -> [Times -> Nat]]]]
    BY DEF TypeOK
  <2>3. granted2 \in [Windows -> [Times -> Nat]]
    <3>1. ASSUME NEW w \in Windows
          PROVE  [granted[g][k][w] EXCEPT ![WindowOf(w, n)] = @ + add] \in [Times -> Nat]
      <4> DEFINE f == granted[g][k][w]
                 c == WindowOf(w, n)
      <4>1. f \in [Times -> Nat]
        BY <1>0, <2>2
      <4>2. add \in Nat
        BY <1>0
      <4> HIDE DEF f, c, add, n, g, k
      <4>3. [f EXCEPT ![c] = @ + add] \in [Times -> Nat]
        BY <4>1, <4>2, CountedUp
      <4> QED
        BY <4>3 DEF f, c
    <3> HIDE DEF add, n, g, k
    <3> QED
      BY <3>1 DEF Booked
  <2> HIDE DEF granted2, g, k
  <2> QED
    BY <1>0, <2>1, <2>2, <2>3, BucketUpdate
<1>2. /\ \A w \in Windows : Current(g, k, w, n) \in Nat
      /\ Current(g, k, "second", n) <= Current(g, k, "minute", n)
      /\ Current(g, k, "minute", n) <= Current(g, k, "hour", n)
      /\ \A w \in Windows : Limit(w) > 0 => Current(g, k, w, n) <= Limit(w)
  BY <1>0, CurrentNested
<1>3. ts2 \in [Windows -> Nat] /\ count2 \in [Windows -> Nat]
  BY <1>0, <1>2, WindowTypes
<1>4. /\ ts \in [Sites -> [Keys -> [Windows -> Nat]]]
      /\ count \in [Sites -> [Keys -> [Windows -> Nat]]]
  BY DEF TypeOK
<1>5. /\ \A w \in Windows : ts2[w] = WindowOf(w, n)
      /\ \A w \in Windows : count2[w] = Current(g, k, w, n) + add
  OBVIOUS
<1>6. /\ add \in {0, 1}
      /\ add = 1 => \A w \in Windows : Limit(w) > 0 => ~(Current(g, k, w, n) >= Limit(w))
  BY DEF Exceeded
<1> HIDE DEF g, k, n, add, ts2, count2
<1>7. /\ ts' \in [Sites -> [Keys -> [Windows -> Nat]]] /\ ts'[g][k] = ts2
      /\ \A h \in Sites : \A j \in Keys : ~(h = g /\ j = k) => ts'[h][j] = ts[h][j]
  BY <1>0, <1>1, <1>3, <1>4, BucketUpdate
<1>8. /\ count' \in [Sites -> [Keys -> [Windows -> Nat]]] /\ count'[g][k] = count2
      /\ \A h \in Sites : \A j \in Keys : ~(h = g /\ j = k) => count'[h][j] = count[h][j]
  BY <1>0, <1>1, <1>3, <1>4, BucketUpdate
<1>9. "second" \in Windows /\ "minute" \in Windows /\ "hour" \in Windows
  BY DEF Windows
<1>10. /\ count2["second"] <= count2["minute"] /\ count2["minute"] <= count2["hour"]
       /\ \A w \in Windows : Limit(w) > 0 => count2[w] <= Limit(w)
  <2>1. count2["second"] <= count2["minute"] /\ count2["minute"] <= count2["hour"]
    BY <1>2, <1>5, <1>6, <1>9
  <2>2. ASSUME NEW w \in Windows, Limit(w) > 0 PROVE count2[w] <= Limit(w)
    <3>1. Limit(w) \in Nat /\ Current(g, k, w, n) \in Nat
      BY <1>2, WindowTypes
    <3>2. Current(g, k, w, n) <= Limit(w) /\ count2[w] = Current(g, k, w, n) + add
      BY <1>2, <1>5, <2>2
    <3>3. add = 0 \/ (add = 1 /\ ~(Current(g, k, w, n) >= Limit(w)))
      BY <1>6, <2>2
    <3> QED
      BY <3>1, <3>2, <3>3
  <2> QED
    BY <2>1, <2>2
<1>11. ASSUME NEW h \in Sites, NEW j \in Keys, h = g, j = k PROVE Nested(h, j)'
  BY <1>11, <1>0, <1>5, <1>7, <1>8, <1>10 DEF Nested
<1> QED
  BY <1>1, <1>g, <1>7, <1>8, <1>11 DEF g, k

\* Types and nested windows hold at the start.
LEMMA InitOK == Init => TypeOK /\ BucketsNested
<1> SUFFICES ASSUME Init PROVE TypeOK /\ BucketsNested
  OBVIOUS
<1>1. 0 \in Sites /\ 0 \in Times /\ WindowOf("hour", 0) \in Nat
  BY LimitsAssumption, WindowTypes DEF Sites, Times, Windows
<1>2. TypeOK
  BY <1>1 DEF Init, TypeOK
<1>3. BucketsNested
  BY DEF Init, BucketsNested
<1> QED
  BY <1>2, <1>3

\* Every step keeps the types and the nested windows.
LEMMA StepOK ==
    TypeOK /\ BucketsNested /\ [Next]_vars => TypeOK' /\ BucketsNested'
<1> SUFFICES ASSUME TypeOK, BucketsNested, [Next]_vars
             PROVE  TypeOK' /\ BucketsNested'
  OBVIOUS
<1>0. /\ now \in Times /\ site \in Sites /\ now \in Nat /\ site \in Nat
      /\ table \in [Sites -> SUBSET Keys]
      /\ \A t \in 0 .. now : t \in Times
      /\ \A g \in 0 .. site : g \in Sites
  BY LimitsAssumption DEF TypeOK, Sites, Times
<1>a. ASSUME UNCHANGED bucketVars PROVE BucketsNested'
  BY <1>a DEF bucketVars, BucketsNested, Nested
<1>1. ASSUME NEW t \in Threads, Request(t) PROVE TypeOK' /\ BucketsNested'
  <2>1. TypeOK'
    BY <1>0, <1>1 DEF TypeOK, Request, bucketVars, sweepVars, histVars
  <2> QED
    BY <1>1, <1>a, <2>1 DEF Request
<1>2. ASSUME NEW t \in Threads, NEW k \in Keys, ReadClock(t, k)
      PROVE  TypeOK' /\ BucketsNested'
  <2>1. TypeOK'
    BY <1>0, <1>2 DEF TypeOK, ReadClock, bucketVars, sweepVars, histVars
  <2> QED
    BY <1>2, <1>a, <2>1 DEF ReadClock
<1>3. ASSUME NEW t \in Threads, ContainsKey(t) PROVE TypeOK' /\ BucketsNested'
  <2>1. TypeOK'
    BY <1>0, <1>3 DEF TypeOK, ContainsKey, bucketVars, sweepVars, histVars
  <2> QED
    BY <1>3, <1>a, <2>1 DEF ContainsKey
<1>4. ASSUME NEW t \in Threads, BucketLimit(t) PROVE TypeOK' /\ BucketsNested'
  <2>1. TypeOK'
    BY <1>0, <1>4 DEF TypeOK, BucketLimit, Return, bucketVars, sweepVars, histVars
  <2> QED
    BY <1>4, <1>a, <2>1 DEF BucketLimit
<1>5. ASSUME NEW t \in Threads, BelowLimit(t) PROVE TypeOK' /\ BucketsNested'
  <2>1. TypeOK'
    BY <1>0, <1>5 DEF TypeOK, BelowLimit, bucketVars, sweepVars, histVars
  <2> QED
    BY <1>5, <1>a, <2>1 DEF BelowLimit
<1>6. ASSUME NEW t \in Threads, Update(t) PROVE TypeOK' /\ BucketsNested'
  <2>1. /\ table' = [table EXCEPT ![held[t]] = @ \cup {key[t]}]
        /\ ts' \in [Sites -> [Keys -> [Windows -> Nat]]]
        /\ count' \in [Sites -> [Keys -> [Windows -> Nat]]]
        /\ granted' \in [Sites -> [Keys -> [Windows -> [Times -> Nat]]]]
        /\ \A h \in Sites : \A j \in Keys : ~(h = held[t] /\ j = key[t]) =>
             ts'[h][j] = ts[h][j] /\ count'[h][j] = count[h][j]
        /\ \A h \in Sites : \A j \in Keys :
             h = held[t] /\ j = key[t] => Nested(h, j)'
    BY <1>6, UpdateBucket
  <2>2. held[t] \in Sites /\ key[t] \in Keys
    BY <1>0 DEF TypeOK
  <2>3. /\ now' = now /\ site' = site /\ key' = key /\ held' = held
        /\ sweepHour' = sweepHour /\ toSweep' = toSweep /\ sweepSite' = sweepSite
        /\ pc' = [pc EXCEPT ![t] = "idle"] /\ read' = [read EXCEPT ![t] = 0]
        /\ isNew' = [isNew EXCEPT ![t] = FALSE]
        /\ straddled' = straddled \cup {w \in Windows : WindowOf(w, read[t]) # WindowOf(w, now)}
    BY <1>6, Zenon DEF Update, Return, sweepVars
  <2>4. TypeOK'
    BY <1>0, <2>1, <2>2, <2>3, SMTT(30) DEF TypeOK
  <2>5. ASSUME NEW h \in Sites, NEW j \in table'[h] PROVE Nested(h, j)'
    <3>1. j \in Keys /\ (j \in table[h] \/ (h = held[t] /\ j = key[t]))
      BY <1>0, <2>1, <2>2
    <3>2. CASE h = held[t] /\ j = key[t]
      BY <2>1, <3>1, <3>2
    <3>3. CASE ~(h = held[t] /\ j = key[t])
      <4>1. Nested(h, j)
        BY <3>1, <3>3 DEF BucketsNested
      <4> QED
        BY <2>1, <3>1, <3>3, <4>1, NestedFrame
    <3> QED
      BY <3>2, <3>3
  <2> QED
    BY <2>4, <2>5 DEF BucketsNested
<1>7. CASE SweepStart
  <2>0. WindowOf("hour", now) \in Nat
    BY <1>0, WindowTypes DEF Windows
  <2>1. TypeOK'
    BY <1>0, <1>7, <2>0 DEF TypeOK, SweepStart, bucketVars, threadVars, histVars
  <2> QED
    BY <1>7, <1>a, <2>1 DEF SweepStart
<1>8. ASSUME NEW k \in Keys, SweepKey(k) PROVE TypeOK' /\ BucketsNested'
  <2> DEFINE zero == [w \in Windows |-> 0]
  <2>1. /\ now' = now /\ site' = site /\ pc' = pc /\ key' = key /\ held' = held
        /\ read' = read /\ isNew' = isNew
        /\ sweepHour' = sweepHour /\ sweepSite' = sweepSite
        /\ toSweep' = toSweep \ {k} /\ granted' = granted
    BY <1>8, Zenon DEF SweepKey, threadVars
  <2>2. CASE ~Stale(k)
    <3>1. UNCHANGED bucketVars /\ straddled' = straddled
      BY <1>8, <2>2, Zenon DEF SweepKey
    <3>2. TypeOK'
      BY <1>0, <2>1, <3>1 DEF TypeOK, bucketVars
    <3> QED
      BY <1>a, <3>1, <3>2
  <2>3. CASE Stale(k)
    <3>1. /\ table' = [table EXCEPT ![sweepSite] = @ \ {k}]
          /\ ts' = [ts EXCEPT ![sweepSite] = [@ EXCEPT ![k] = zero]]
          /\ count' = [count EXCEPT ![sweepSite] = [@ EXCEPT ![k] = zero]]
          /\ straddled' \in {Windows, straddled}
      BY <1>8, <2>3, Zenon DEF SweepKey
    <3>2. zero \in [Windows -> Nat] /\ sweepSite \in Sites
      BY <1>0 DEF TypeOK
    <3> HIDE DEF zero
    <3>3. /\ ts' \in [Sites -> [Keys -> [Windows -> Nat]]]
          /\ \A h \in Sites : \A j \in Keys :
               ~(h = sweepSite /\ j = k) => ts'[h][j] = ts[h][j]
      BY <3>1, <3>2, BucketUpdate DEF TypeOK
    <3>4. /\ count' \in [Sites -> [Keys -> [Windows -> Nat]]]
          /\ \A h \in Sites : \A j \in Keys :
               ~(h = sweepSite /\ j = k) => count'[h][j] = count[h][j]
      BY <3>1, <3>2, BucketUpdate DEF TypeOK
    <3>5. TypeOK'
      BY <1>0, <2>1, <3>1, <3>2, <3>3, <3>4, SMTT(30) DEF TypeOK
    <3>6. ASSUME NEW h \in Sites, NEW j \in table'[h] PROVE Nested(h, j)'
      <4>1. j \in Keys /\ j \in table[h] /\ ~(h = sweepSite /\ j = k)
        BY <1>0, <3>1, <3>2
      <4>2. Nested(h, j)
        BY <4>1 DEF BucketsNested
      <4> QED
        BY <3>3, <3>4, <4>1, <4>2, NestedFrame
    <3> QED
      BY <3>5, <3>6 DEF BucketsNested
  <2> QED
    BY <2>2, <2>3
<1>9. CASE Tick
  <2>1. now' \in Times /\ now' \in Nat /\ now' = now + 1 /\ 0 .. now \subseteq 0 .. now'
    BY <1>0, <1>9, LimitsAssumption DEF Tick, Times
  <2>2. 0 .. WindowOf("hour", now) \subseteq 0 .. WindowOf("hour", now')
    BY <1>0, <2>1, WindowTypes DEF Windows
  <2>3. TypeOK'
    BY <1>9, <2>1, <2>2, Zenon DEF TypeOK, Tick, bucketVars, threadVars, sweepVars, histVars
  <2> QED
    BY <1>9, <1>a, <2>3 DEF Tick
<1>10. CASE Reload
  <2>1. site' \in Sites /\ 0 .. site \subseteq 0 .. site'
    BY <1>0, <1>10, LimitsAssumption DEF Reload, Sites
  <2>2. TypeOK'
    BY <1>10, <2>1 DEF TypeOK, Reload, bucketVars, threadVars, sweepVars, histVars
  <2> QED
    BY <1>10, <1>a, <2>2 DEF Reload
<1>11. CASE UNCHANGED vars
  <2>1. TypeOK'
    BY <1>11 DEF TypeOK, vars, bucketVars, threadVars, sweepVars, histVars
  <2> QED
    BY <1>11, <1>a, <2>1 DEF vars
<1> QED
  BY <1>1, <1>2, <1>3, <1>4, <1>5, <1>6, <1>7, <1>8, <1>9, <1>10, <1>11, Zenon DEF Next

\* Types and nested windows are invariant.
LEMMA Invariance == Spec => [](TypeOK /\ BucketsNested)
BY InitOK, StepOK, PTL DEF Spec

\* The buckets, the checks in progress and the sweep stay well-typed.
THEOREM TypeCorrect == Spec => []TypeOK
BY Invariance, PTL

\* Whatever the limits and the interleaving of checks, sweeps and reloads, a
\* bucket counts nested windows and no counter passes its limit.
THEOREM NestedBuckets == Spec => []BucketsNested
BY Invariance, PTL

-----------------------------------------------------------------------------
(* The bound of the table.                                                 *)

\* Checks that will insert their key whatever the size of the table: those
\* past the test, and those that found their key before it.
Tickets(g) ==
    {t \in Threads : held[t] = g /\ (pc[t] = "update" \/ (pc[t] = "len" /\ ~isNew[t]))}

\* The keys in the table, and those that such checks may still bring in.
Claimed(g) == table[g] \cup {key[t] : t \in Tickets(g)}

ClaimsBounded ==
    \A g \in Sites : Cardinality(Claimed(g)) < MaxBuckets + Cardinality(Threads)

\* A table below the limit leaves room for one key of every thread.
LEMMA RoomForAll ==
    ASSUME NEW A \in SUBSET Keys, NEW T \in SUBSET Threads, NEW f \in [Threads -> Keys],
           Cardinality(A) < MaxBuckets
    PROVE  Cardinality(A \cup {f[t] : t \in T}) < MaxBuckets + Cardinality(Threads)
<1> DEFINE B == {f[t] : t \in T}
           h == [t \in T |-> f[t]]
<1>1. /\ IsFiniteSet(T) /\ IsFiniteSet(A)
      /\ Cardinality(T) \in Nat /\ Cardinality(A) \in Nat /\ Cardinality(Threads) \in Nat
      /\ Cardinality(T) <= Cardinality(Threads)
  BY ThreadsAssumption, FS_Subset, FS_CardinalityType
<1>2. h \in Surjection(T, B)
  BY DEF Surjection
<1>3. IsFiniteSet(B) /\ Cardinality(B) <= Cardinality(T)
  BY <1>1, <1>2, FS_Surjection DEF ExistsSurjection
<1> HIDE DEF B
<1>4. IsFiniteSet(A \cap B)
  BY <1>1, FS_Subset
<1>5. Cardinality(B) \in Nat /\ Cardinality(A \cap B) \in Nat
  BY <1>3, <1>4, FS_CardinalityType
<1>6. Cardinality(A \cup B) = Cardinality(A) + Cardinality(B) - Cardinality(A \cap B)
  BY <1>1, <1>3, FS_Union
<1>7. Cardinality(A \cup B) < MaxBuckets + Cardinality(Threads)
  BY <1>1, <1>3, <1>5, <1>6, LimitsAssumption
<1> QED
  BY <1>7 DEF B

\* Fewer claims take less room.
LEMMA FewerClaims ==
    ASSUME TypeOK, NEW g \in Sites, NEW C \in SUBSET Claimed(g),
           Cardinality(Claimed(g)) < MaxBuckets + Cardinality(Threads)
    PROVE  Cardinality(C) < MaxBuckets + Cardinality(Threads)
<1>1. Claimed(g) \in SUBSET Keys
  BY DEF TypeOK, Claimed, Tickets
<1>2. IsFiniteSet(Claimed(g)) /\ IsFiniteSet(C)
  BY <1>1, ThreadsAssumption, FS_Subset
<1>3. Cardinality(C) <= Cardinality(Claimed(g))
  BY <1>2, FS_Subset
<1>4. /\ Cardinality(C) \in Nat /\ Cardinality(Claimed(g)) \in Nat
      /\ Cardinality(Threads) \in Nat
  BY <1>2, ThreadsAssumption, FS_CardinalityType
<1> QED
  BY <1>3, <1>4, LimitsAssumption

\* Every step keeps the claims bounded: only a check that found the table
\* below the limit adds one.
LEMMA ClaimsStep ==
    TypeOK /\ ClaimsBounded /\ [Next]_vars => ClaimsBounded'
<1> SUFFICES ASSUME TypeOK, ClaimsBounded, [Next]_vars, NEW g \in Sites
             PROVE  Cardinality(Claimed(g)') < MaxBuckets + Cardinality(Threads)
  BY DEF ClaimsBounded
<1>0. /\ pc \in [Threads -> {"idle", "contains", "len", "update"}]
      /\ key \in [Threads -> Keys] /\ held \in [Threads -> 0 .. site]
      /\ read \in [Threads -> 0 .. now]
      /\ isNew \in [Threads -> BOOLEAN] /\ table \in [Sites -> SUBSET Keys]
      /\ 0 .. site \subseteq Sites /\ sweepSite \in Sites
  BY LimitsAssumption DEF TypeOK, Sites
<1>a. ASSUME Claimed(g)' \subseteq Claimed(g)
      PROVE  Cardinality(Claimed(g)') < MaxBuckets + Cardinality(Threads)
  BY <1>a, FewerClaims DEF ClaimsBounded
<1>b. ASSUME UNCHANGED bucketVars, UNCHANGED threadVars
      PROVE  Claimed(g)' \subseteq Claimed(g)
  BY <1>b DEF Claimed, Tickets, bucketVars, threadVars
<1>1. ASSUME NEW t \in Threads, Request(t) PROVE Claimed(g)' \subseteq Claimed(g)
  BY <1>0, <1>1 DEF Request, Claimed, Tickets, bucketVars
<1>2. ASSUME NEW t \in Threads, NEW k \in Keys, ReadClock(t, k)
      PROVE  Claimed(g)' \subseteq Claimed(g)
  BY <1>0, <1>2 DEF ReadClock, Claimed, Tickets, bucketVars
<1>3. ASSUME NEW t \in Threads, ContainsKey(t) PROVE Claimed(g)' \subseteq Claimed(g)
  <2>1. /\ table' = table /\ key' = key /\ held' = held
        /\ pc' = [pc EXCEPT ![t] = "len"]
        /\ isNew' = [isNew EXCEPT ![t] = key[t] \notin table[held[t]]]
        /\ pc[t] = "contains"
    BY <1>3, Zenon DEF ContainsKey, bucketVars
  <2>2. \A u \in Tickets(g)' : u \in Tickets(g) \/ (u = t /\ key[t] \in table[g])
    BY <1>0, <2>1, Zenon DEF Tickets
  <2> QED
    BY <2>1, <2>2 DEF Claimed
<1>4. ASSUME NEW t \in Threads, BucketLimit(t) PROVE Claimed(g)' \subseteq Claimed(g)
  BY <1>0, <1>4 DEF BucketLimit, Return, Claimed, Tickets, bucketVars
<1>5. ASSUME NEW t \in Threads, BelowLimit(t)
      PROVE  Cardinality(Claimed(g)') < MaxBuckets + Cardinality(Threads)
  <2>1. /\ table' = table /\ key' = key /\ held' = held /\ isNew' = isNew
        /\ pc' = [pc EXCEPT ![t] = "update"] /\ pc[t] = "len"
        /\ ~isNew[t] \/ ~AtCapacity(held[t])
    BY <1>5, Zenon DEF BelowLimit, bucketVars
  <2>2. CASE ~isNew[t] \/ held[t] # g
    <3>1. Tickets(g)' = Tickets(g)
      BY <1>0, <2>1, <2>2 DEF Tickets
    <3> QED
      BY <1>a, <2>1, <3>1 DEF Claimed
  <2>3. CASE isNew[t] /\ held[t] = g
    <3>1. Cardinality(table[g]) < MaxBuckets
      <4>1. ~(Cardinality(table[g]) >= MaxBuckets)
        BY <2>1, <2>3 DEF AtCapacity
      <4>2. Cardinality(table[g]) \in Nat
        BY <1>0, ThreadsAssumption, FS_Subset, FS_CardinalityType
      <4> QED
        BY <4>1, <4>2, LimitsAssumption
    <3>2. Tickets(g)' \in SUBSET Threads /\ table[g] \in SUBSET Keys
      BY <1>0 DEF Tickets
    <3>3. Claimed(g)' = table[g] \cup {key[u] : u \in Tickets(g)'}
      BY <2>1 DEF Claimed
    <3> QED
      BY <1>0, <3>1, <3>2, <3>3, RoomForAll
  <2> QED
    BY <2>2, <2>3
<1>6. ASSUME NEW t \in Threads, Update(t) PROVE Claimed(g)' \subseteq Claimed(g)
  <2>1. /\ table' = [table EXCEPT ![held[t]] = @ \cup {key[t]}]
        /\ key' = key /\ held' = held /\ pc[t] = "update"
        /\ pc' = [pc EXCEPT ![t] = "idle"] /\ isNew' = [isNew EXCEPT ![t] = FALSE]
    BY <1>6, Zenon DEF Update, Return
  <2>2. Tickets(g)' \subseteq Tickets(g)
    BY <1>0, <2>1 DEF Tickets
  <2>3. table'[g] \subseteq table[g] \cup {key[u] : u \in Tickets(g)}
    BY <1>0, <2>1 DEF Tickets
  <2> QED
    BY <2>1, <2>2, <2>3 DEF Claimed
<1>7. CASE SweepStart
  BY <1>7, <1>a, <1>b DEF SweepStart
<1>8. ASSUME NEW k \in Keys, SweepKey(k) PROVE Claimed(g)' \subseteq Claimed(g)
  <2>1. /\ \/ table' = table
           \/ table' = [table EXCEPT ![sweepSite] = @ \ {k}]
        /\ UNCHANGED threadVars
    BY <1>8, Zenon DEF SweepKey, bucketVars
  <2>2. table'[g] \subseteq table[g]
    BY <1>0, <2>1
  <2> QED
    BY <2>1, <2>2 DEF Claimed, Tickets, threadVars
<1>9. CASE Tick \/ Reload \/ UNCHANGED vars
  BY <1>9, <1>a, <1>b DEF Tick, Reload, vars
<1> QED
  BY <1>a, <1>1, <1>2, <1>3, <1>4, <1>5, <1>6, <1>7, <1>8, <1>9, <1>b, Zenon DEF Next

\* However checks and sweeps interleave, the table exceeds its limit by fewer
\* keys than there are threads.
THEOREM Overshoot == Spec => []BucketOvershoot
<1>1. Init => ClaimsBounded
  <2> SUFFICES ASSUME Init, NEW g \in Sites
               PROVE  Cardinality(Claimed(g)) < MaxBuckets + Cardinality(Threads)
    BY DEF ClaimsBounded
  <2>1. Claimed(g) = {}
    BY DEF Init, Claimed, Tickets
  <2>2. Cardinality(Threads) \in Nat /\ Cardinality(Threads) # 0
    BY ThreadsAssumption, FS_EmptySet, FS_CardinalityType
  <2>3. Cardinality(Claimed(g)) = 0
    BY <2>1, FS_EmptySet
  <2> QED
    BY <2>2, <2>3, LimitsAssumption
<1>2. TypeOK /\ ClaimsBounded => BucketOvershoot
  <2> SUFFICES ASSUME TypeOK, ClaimsBounded, NEW g \in Sites
               PROVE  Cardinality(table[g]) < MaxBuckets + Cardinality(Threads)
    BY DEF BucketOvershoot
  <2>1. table[g] \in SUBSET Claimed(g)
    BY DEF Claimed
  <2> QED
    BY <2>1, FewerClaims DEF ClaimsBounded
<1> QED
  BY <1>1, <1>2, ClaimsStep, TypeCorrect, PTL DEF Spec

-----------------------------------------------------------------------------
(* The limits.                                                             *)

\* The history agrees with the bucket in the window of now: it has counted no
\* more checks than the bucket would, none in windows to come, and in no window
\* more than the limit.
Ledger(g, k, w) ==
    /\ granted[g][k][w][WindowOf(w, now)] <= Current(g, k, w, now)
    /\ \A i \in Times : i > WindowOf(w, now) => granted[g][k][w][i] = 0
    /\ \A i \in Times : Limit(w) > 0 => granted[g][k][w][i] <= Limit(w)

LedgerInv == \A w \in Windows \ straddled : \A g \in Sites : \A k \in Keys : Ledger(g, k, w)

\* The windows of the clock are among those the history tells apart, and come
\* one after the other.
LEMMA WindowsPass ==
    ASSUME NEW w \in Windows, NEW t \in Times
    PROVE  /\ WindowOf(w, t) \in Times
           /\ t + 1 \in Times => WindowOf(w, t) <= WindowOf(w, t + 1)
<1>0. t \in Nat /\ t <= MaxNow /\ MaxNow \in Nat
  BY LimitsAssumption DEF Times
<1>1. /\ WindowOf("second", t) = t /\ WindowOf("second", t + 1) = t + 1
      /\ WindowOf("minute", t) = t \div Minute /\ WindowOf("minute", t + 1) = (t + 1) \div Minute
      /\ WindowOf("hour", t) = t \div Hour /\ WindowOf("hour", t + 1) = (t + 1) \div Hour
  BY <1>0 DEF WindowOf, Length
<1>2. \A m \in Nat \ {0} : /\ t \div m \in Nat /\ (t + 1) \div m \in Nat
                           /\ t \div m <= t /\ t \div m <= (t + 1) \div m
  BY <1>0
<1>3. \A m \in Nat \ {0} : t \div m \in Times
  BY <1>0, <1>2 DEF Times
<1>4. CASE w = "second"
  BY <1>0, <1>1, <1>4
<1>5. CASE w = "minute"
  BY <1>1, <1>2, <1>3, <1>5, CalendarAssumption
<1>6. CASE w = "hour"
  BY <1>1, <1>2, <1>3, <1>6, CalendarAssumption
<1> QED
  BY <1>4, <1>5, <1>6 DEF Windows

\* After the reset, the counter of a window is one of the bucket's.
LEMMA CurrentType ==
    ASSUME TypeOK, NEW g \in Sites, NEW k \in Keys, NEW w \in Windows, NEW n
    PROVE  Current(g, k, w, n) \in Nat
BY DEF TypeOK, Current

\* A step that touches neither the bucket nor its history nor the clock.
LEMMA LedgerFrame ==
    ASSUME NEW g \in Sites, NEW k \in Keys, NEW w \in Windows, Ledger(g, k, w),
           now' = now, (k \in table'[g]) <=> (k \in table[g]),
           ts'[g][k] = ts[g][k], count'[g][k] = count[g][k],
           granted'[g][k] = granted[g][k]
    PROVE  Ledger(g, k, w)'
<1>1. Current(g, k, w, now)' = Current(g, k, w, now)
  BY DEF Current
<1> QED
  BY <1>1 DEF Ledger

\* The bounds of the clock and of the site generations, spelled out.
LEMMA ClockTypes ==
    ASSUME TypeOK
    PROVE  /\ now \in Times /\ now \in Nat /\ site \in Nat
           /\ \A x \in 0 .. site : x \in Sites
           /\ \A x \in 0 .. now : x \in Times
           /\ \A i \in Times : i \in Nat
<1>1. now \in Times /\ site \in Sites
  BY SMTT(30) DEF TypeOK
<1> QED
  BY <1>1, LimitsAssumption DEF Sites, Times

\* A check that read the clock in the window in which it counts itself.
LEMMA LedgerUpdate ==
    ASSUME TypeOK, NEW t \in Threads, Update(t), NEW w \in Windows,
           NEW g, NEW k, g = held[t], k = key[t],
           Ledger(g, k, w), WindowOf(w, read[t]) = WindowOf(w, now)
    PROVE  Ledger(g, k, w)'
<1> DEFINE n == read[t]
           c == WindowOf(w, n)
           add == IF Exceeded(g, k, n) = {} THEN 1 ELSE 0
           ts2 == [x \in Windows |-> WindowOf(x, n)]
           count2 == [x \in Windows |-> Current(g, k, x, n) + add]
           granted2 == Booked(g, k, n, add)
<1>t. g \in 0 .. site /\ k \in Keys /\ n \in 0 .. now
  BY DEF TypeOK
<1>0. /\ g \in Sites /\ k \in Keys /\ n \in Times /\ add \in {0, 1}
      /\ now \in Times /\ now \in Nat /\ n \in Nat /\ add \in Nat
  BY <1>t, ClockTypes
<1>1. /\ table' = [table EXCEPT ![g] = @ \cup {k}]
      /\ ts' = [ts EXCEPT ![g] = [@ EXCEPT ![k] = ts2]]
      /\ count' = [count EXCEPT ![g] = [@ EXCEPT ![k] = count2]]
      /\ now' = now
  BY Zenon DEF Update
<1>2. granted' = [granted EXCEPT ![g] = [@ EXCEPT ![k] = granted2]]
  BY Zenon DEF Update
<1>3. c \in Times /\ c \in Nat /\ c = WindowOf(w, now)
  BY <1>0, WindowsPass, LimitsAssumption DEF Times
<1>4. Current(g, k, w, n) \in Nat /\ Current(g, k, w, now) = Current(g, k, w, n)
  <2>1. Current(g, k, w, n) \in Nat
    BY <1>0, CurrentType
  <2>2. Current(g, k, w, now) = Current(g, k, w, n)
    BY DEF Current
  <2> QED
    BY <2>1, <2>2
<1>5. add = 1 => (Limit(w) > 0 => ~(Current(g, k, w, n) >= Limit(w)))
  BY DEF Exceeded
<1>6. /\ ts2[w] = c /\ count2[w] = Current(g, k, w, n) + add
      /\ granted2[w] = [granted[g][k][w] EXCEPT ![c] = @ + add]
  BY Zenon DEF Booked
<1>7. table'[g] = table[g] \cup {k} /\ ts'[g][k] = ts2 /\ count'[g][k] = count2
      /\ granted'[g][k] = granted2
  BY <1>0, <1>1, <1>2 DEF TypeOK
<1>8. granted[g][k][w] \in [Times -> Nat] /\ Limit(w) \in Nat
  BY <1>0, WindowTypes DEF TypeOK
<1>9. /\ granted[g][k][w][c] <= Current(g, k, w, n)
      /\ \A i \in Times : i > c => granted[g][k][w][i] = 0
      /\ \A i \in Times : Limit(w) > 0 => granted[g][k][w][i] <= Limit(w)
  BY <1>3, <1>4, ZenonT(30) DEF Ledger
<1> HIDE DEF add, ts2, count2, granted2, c
<1>10. /\ granted2[w][c] = granted[g][k][w][c] + add
       /\ \A i \in Times : i # c => granted2[w][i] = granted[g][k][w][i]
  BY <1>3, <1>6, <1>8, ZenonT(30)
<1>11. count2[w] = Current(g, k, w, now)'
  BY <1>1, <1>3, <1>6, <1>7, SMTT(30) DEF Current
<1>v. granted[g][k][w][c] \in Nat
  BY <1>3, <1>8
<1> HIDE DEF n
<1>12. granted2[w][c] <= count2[w]
  <2> DEFINE have == granted[g][k][w][c]
             cur == Current(g, k, w, n)
  <2>1. /\ have \in Nat /\ cur \in Nat /\ have <= cur
        /\ granted2[w][c] = have + add /\ count2[w] = cur + add
    BY <1>v, <1>4, <1>6, <1>9, <1>10, ZenonT(30)
  <2> HIDE DEF have, cur
  <2> QED
    BY <1>0, <2>1
<1>13. ASSUME NEW i \in Times, i > c PROVE granted2[w][i] = 0
  <2>1. i # c
    BY <1>3, <1>13, ClockTypes
  <2> QED
    BY <1>9, <1>10, <1>13, <2>1, Zenon
<1>14. ASSUME NEW i \in Times, Limit(w) > 0 PROVE granted2[w][i] <= Limit(w)
  <2>1. granted[g][k][w][i] \in Nat /\ granted[g][k][w][i] <= Limit(w)
    BY <1>8, <1>9, <1>14, ZenonT(30)
  <2>2. CASE i # c
    BY <1>10, <2>1, <2>2
  <2>3. CASE i = c
    <3> DEFINE have == granted[g][k][w][c]
               cur == Current(g, k, w, n)
               limit == Limit(w)
    <3>1. /\ have \in Nat /\ cur \in Nat /\ limit \in Nat /\ have <= cur /\ have <= limit
          /\ add = 1 => ~(cur >= limit)
          /\ granted2[w][i] = have + add
      BY <1>v, <1>4, <1>5, <1>8, <1>9, <1>10, <1>14, <2>1, <2>3, ZenonT(30)
    <3> HIDE DEF have, cur, limit
    <3>2. granted2[w][i] <= limit
      BY <1>0, <3>1
    <3> QED
      BY <3>2 DEF limit
  <2> QED
    BY <2>2, <2>3
<1>15. WindowOf(w, now)' = c
  BY <1>1, <1>3 DEF WindowOf
<1> QED
  BY <1>1, <1>7, <1>11, <1>12, <1>13, <1>14, <1>15 DEF Ledger

\* Every step keeps the books: a check counts itself in the bucket and in the
\* history alike, a sweep that is not late drops only buckets of past windows,
\* and the clock moves on to windows in which nothing was counted.
LEMMA LedgerStep ==
    TypeOK /\ BucketsNested /\ LedgerInv /\ [Next]_vars => LedgerInv'
<1> SUFFICES ASSUME TypeOK, BucketsNested, LedgerInv, [Next]_vars,
                    NEW w \in Windows, w \notin straddled', NEW g \in Sites, NEW k \in Keys
             PROVE  Ledger(g, k, w)'
  BY DEF LedgerInv
<1>0. /\ now \in Times /\ now \in Nat /\ site \in Nat
      /\ table \in [Sites -> SUBSET Keys]
      /\ ts \in [Sites -> [Keys -> [Windows -> Nat]]]
      /\ count \in [Sites -> [Keys -> [Windows -> Nat]]]
      /\ granted \in [Sites -> [Keys -> [Windows -> [Times -> Nat]]]]
      /\ \A x \in 0 .. site : x \in Sites
      /\ \A x \in 0 .. now : x \in Times
  BY ClockTypes, SMTT(30) DEF TypeOK
<1>a. ASSUME w \notin straddled PROVE Ledger(g, k, w)
  BY <1>a DEF LedgerInv
<1>b. ASSUME UNCHANGED <<now, table, ts, count, granted, straddled>>
      PROVE  Ledger(g, k, w)'
  BY <1>a, <1>b, LedgerFrame
<1>1. ASSUME NEW t \in Threads, Update(t) PROVE Ledger(g, k, w)'
  <2> DEFINE n == read[t]
             add == IF Exceeded(held[t], key[t], n) = {} THEN 1 ELSE 0
             ts2 == [x \in Windows |-> WindowOf(x, n)]
             count2 == [x \in Windows |-> Current(held[t], key[t], x, n) + add]
             granted2 == Booked(held[t], key[t], n, add)
  <2>1. straddled' = straddled \cup {x \in Windows : WindowOf(x, n) # WindowOf(x, now)}
    BY <1>1, Zenon DEF Update
  <2>2. w \notin straddled /\ WindowOf(w, n) = WindowOf(w, now)
    BY <2>1
  <2>3. Ledger(g, k, w)
    BY <1>a, <2>2
  <2>4. CASE g = held[t] /\ k = key[t]
    BY <1>1, <2>2, <2>3, <2>4, LedgerUpdate
  <2>5. CASE ~(g = held[t] /\ k = key[t])
    <3>1. /\ table' = [table EXCEPT ![held[t]] = @ \cup {key[t]}]
          /\ ts' = [ts EXCEPT ![held[t]] = [@ EXCEPT ![key[t]] = ts2]]
          /\ count' = [count EXCEPT ![held[t]] = [@ EXCEPT ![key[t]] = count2]]
          /\ now' = now
      BY <1>1, Zenon DEF Update
    <3>2. granted' = [granted EXCEPT ![held[t]] = [@ EXCEPT ![key[t]] = granted2]]
      BY <1>1, Zenon DEF Update
    <3> HIDE DEF ts2, count2, granted2
    <3>3. /\ (k \in table'[g]) <=> (k \in table[g])
          /\ ts'[g][k] = ts[g][k] /\ count'[g][k] = count[g][k]
          /\ granted'[g][k] = granted[g][k]
      BY <1>0, <2>5, <3>1, <3>2
    <3> QED
      BY <2>3, <3>1, <3>3, LedgerFrame
  <2> QED
    BY <2>4, <2>5
<1>2. ASSUME NEW j \in Keys, SweepKey(j) PROVE Ledger(g, k, w)'
  <2> DEFINE zero == [x \in Windows |-> 0]
  <2>1. now' = now /\ granted' = granted /\ sweepSite \in Sites
    BY <1>0, <1>2, Zenon DEF SweepKey, TypeOK
  <2>2. CASE ~Stale(j)
    <3>1. UNCHANGED <<now, table, ts, count, granted, straddled>>
      BY <1>2, <2>1, <2>2, Zenon DEF SweepKey, bucketVars
    <3> QED
      BY <1>b, <3>1
  <2>3. CASE Stale(j)
    <3>1. /\ table' = [table EXCEPT ![sweepSite] = @ \ {j}]
          /\ ts' = [ts EXCEPT ![sweepSite] = [@ EXCEPT ![j] = zero]]
          /\ count' = [count EXCEPT ![sweepSite] = [@ EXCEPT ![j] = zero]]
          /\ straddled' = IF sweepHour # WindowOf("hour", now) THEN Windows ELSE straddled
      BY <1>2, <2>3, Zenon DEF SweepKey
    <3>2. w \notin straddled /\ sweepHour = WindowOf("hour", now)
      BY <3>1
    <3>3. Ledger(g, k, w)
      BY <1>a, <3>2
    <3> HIDE DEF zero
    <3>4. CASE ~(g = sweepSite /\ k = j)
      <4>1. /\ (k \in table'[g]) <=> (k \in table[g])
            /\ ts'[g][k] = ts[g][k] /\ count'[g][k] = count[g][k]
        BY <1>0, <2>1, <3>1, <3>4, SMTT(30)
      <4> QED
        BY <2>1, <3>3, <4>1, LedgerFrame
    <3>5. CASE g = sweepSite /\ k = j
      <4>1. k \in table[g] /\ ts[g][k]["hour"] # WindowOf("hour", now)
        BY <2>3, <3>2, <3>5 DEF Stale
      <4>2. PICK s \in Times : \A x \in Windows : ts[g][k][x] = WindowOf(x, s)
        BY <4>1 DEF BucketsNested, Nested
      <4>3. s \in Nat
        BY LimitsAssumption DEF Times
      <4>4. WindowOf("hour", s) # WindowOf("hour", now)
        BY <4>1, <4>2 DEF Windows
      <4>5. WindowOf(w, s) # WindowOf(w, now)
        BY <1>0, <4>3, <4>4, WindowsNest DEF Windows
      <4>6. Current(g, k, w, now) = 0
        BY <4>2, <4>5 DEF Current
      <4>7. k \notin table'[g]
        BY <1>0, <2>1, <3>1, <3>5
      <4>8. Current(g, k, w, now)' = 0
        BY <4>7, SMTT(30) DEF Current
      <4> QED
        BY <2>1, <3>3, <4>6, <4>8 DEF Ledger
    <3> QED
      BY <3>4, <3>5
  <2> QED
    BY <2>2, <2>3
<1>3. CASE Tick
  <2>1. /\ now' = now + 1 /\ now + 1 \in Times
        /\ UNCHANGED <<table, ts, count, granted, straddled>>
    BY <1>0, <1>3, LimitsAssumption DEF Tick, bucketVars, histVars, Times
  <2> DEFINE c == WindowOf(w, now)
             d == WindowOf(w, now + 1)
             f == granted[g][k][w]
  <2>2. /\ c \in Times /\ d \in Times /\ c <= d
        /\ \A i \in Times : i \in Nat
    BY <1>0, <2>1, WindowsPass, ClockTypes
  <2>3. Ledger(g, k, w)
    BY <1>a, <2>1
  <2>4. f \in [Times -> Nat] /\ Current(g, k, w, now + 1) \in Nat
    BY <1>0, CurrentType
  <2>5. WindowOf(w, now)' = d /\ Current(g, k, w, now)' = Current(g, k, w, now + 1)
    BY <2>1 DEF Current, WindowOf
  <2>6. /\ f[c] <= Current(g, k, w, now)
        /\ \A i \in Times : i > c => f[i] = 0
        /\ \A i \in Times : Limit(w) > 0 => f[i] <= Limit(w)
    BY <2>3 DEF Ledger
  <2>7. c = d => Current(g, k, w, now + 1) = Current(g, k, w, now)
    BY DEF Current
  <2> HIDE DEF c, d
  <2>8. f[d] <= Current(g, k, w, now + 1)
    BY <2>2, <2>4, <2>6, <2>7
  <2>9. \A i \in Times : i > d => f[i] = 0
    BY <2>2, <2>6
  <2> QED
    BY <2>1, <2>5, <2>6, <2>8, <2>9 DEF Ledger
<1>4. CASE \/ \E t \in Threads : \/ Request(t) \/ (\E j \in Keys : ReadClock(t, j))
                                 \/ ContainsKey(t) \/ BucketLimit(t) \/ BelowLimit(t)
           \/ SweepStart \/ Reload \/ UNCHANGED vars
  <2>1. UNCHANGED <<now, table, ts, count, granted, straddled>>
    BY <1>4, Zenon DEF Request, ReadClock, ContainsKey, BucketLimit, BelowLimit, SweepStart,
                Reload, vars, bucketVars, histVars
  <2> QED
    BY <1>b, <2>1
<1> QED
  BY <1>1, <1>2, <1>3, <1>4, Zenon DEF Next

\* However checks, sweeps and reloads interleave, no window of a key gets more
\* checks than its limit from one Site, unless a check or a sweep has straddled
\* the end of a window of that kind.
THEOREM LimitKept == Spec => []LimitUnlessStraddled
<1>1. Init => LedgerInv
  <2> SUFFICES ASSUME Init, NEW w \in Windows, NEW g \in Sites, NEW k \in Keys
               PROVE  Ledger(g, k, w)
    BY DEF LedgerInv
  <2>1. now = 0 /\ 0 \in Times /\ WindowOf(w, now) \in Times
    BY WindowsPass, LimitsAssumption DEF Init, Times
  <2>2. \A i \in Times : granted[g][k][w][i] = 0
    BY DEF Init
  <2>3. Current(g, k, w, now) = 0 /\ Limit(w) \in Nat
    BY WindowTypes DEF Init, Current
  <2> QED
    BY <2>1, <2>2, <2>3 DEF Ledger
<1>2. LedgerInv => LimitUnlessStraddled
  BY DEF LedgerInv, Ledger, LimitUnlessStraddled
<1> QED
  BY <1>1, <1>2, LedgerStep, Invariance, PTL DEF Spec
=============================================================================
