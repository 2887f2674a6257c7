------------------------------ MODULE RateLimit ------------------------------
(***************************************************************************)
(* The rate limiter (src/src/ratelimit.rs): buckets of counters per key,   *)
(* shared by the requests of all workers, swept by the reload coordinator  *)
(* and owned by the loaded Site.  A check reads the clock, then looks at   *)
(* the table, then updates its bucket, each under its own lock; the sweep  *)
(* reads the clock once and visits the buckets one by one.                 *)
(***************************************************************************)
EXTENDS Naturals, FiniteSets

CONSTANTS
    Threads,        \* workers running a script
    Keys,           \* keys passed to zs_rate_limit
    MaxBuckets,     \* --max-rate-limit-buckets
    PerSecond, PerMinute, PerHour,      \* the script's limits, 0: unlimited
    Minute, Hour,   \* seconds of a minute and of an hour (60 and 3600)
    MaxNow,         \* bound: the clock stops here
    MaxReloads      \* bound: hot reloads

ASSUME LimitsAssumption ==
    /\ PerSecond \in Nat /\ PerMinute \in Nat /\ PerHour \in Nat
    /\ MaxBuckets \in Nat /\ MaxNow \in Nat /\ MaxReloads \in Nat
ASSUME ThreadsAssumption == IsFiniteSet(Threads) /\ Threads # {} /\ IsFiniteSet(Keys)
ASSUME CalendarAssumption ==
    Minute \in Nat \ {0} /\ Hour \in Nat \ {0} /\ Hour % Minute = 0

Windows == {"second", "minute", "hour"}

Length(w) == CASE w = "second" -> 1 [] w = "minute" -> Minute [] w = "hour" -> Hour

Limit(w) ==
    CASE w = "second" -> PerSecond [] w = "minute" -> PerMinute [] w = "hour" -> PerHour

\* The window of kind w that second t belongs to.
WindowOf(w, t) == t \div Length(w)

VARIABLES
    now,        \* Unix time
    site,       \* generation of the current Site
    table,      \* per generation: the keys that have a bucket
    ts, count,  \* per generation, key and window kind: the bucket's fields
    pc,         \* per thread: where its check is
    key,        \* per thread: the key it checks
    held,       \* per thread: the Site of its request
    read,       \* per thread: the time its check has read
    isNew,      \* per thread: contains_key said no
    sweepHour,  \* the hour the sweep has read
    toSweep,    \* keys the sweep has still to visit
    sweepSite,  \* the Site it sweeps
    granted,    \* history, per generation, key and window: checks allowed
    straddled   \* history: kinds of windows a check or sweep has straddled

bucketVars == <<table, ts, count>>
threadVars == <<pc, key, held, read, isNew>>
sweepVars == <<sweepHour, toSweep, sweepSite>>
histVars == <<granted, straddled>>
vars == <<now, site, bucketVars, threadVars, sweepVars, histVars>>

Sites == 0 .. MaxReloads
Times == 0 .. MaxNow

Init ==
    /\ now = 0
    /\ site = 0
    /\ table = [g \in Sites |-> {}]
    /\ ts = [g \in Sites |-> [k \in Keys |-> [w \in Windows |-> 0]]]
    /\ count = [g \in Sites |-> [k \in Keys |-> [w \in Windows |-> 0]]]
    /\ pc = [t \in Threads |-> "idle"]
    /\ key \in [Threads -> Keys]
    /\ held = [t \in Threads |-> 0]
    /\ read = [t \in Threads |-> 0]
    /\ isNew = [t \in Threads |-> FALSE]
    /\ sweepHour = 0 /\ toSweep = {} /\ sweepSite = 0
    /\ granted = [g \in Sites |-> [k \in Keys |-> [w \in Windows |-> [i \in Times |-> 0]]]]
    /\ straddled = {}

-----------------------------------------------------------------------------
(* check                                                                   *)

\* A request is begun: it holds the Site that is current.
Request(t) ==
    /\ pc[t] = "idle" /\ held[t] # site
    /\ held' = [held EXCEPT ![t] = site]
    /\ UNCHANGED <<now, site, bucketVars, pc, key, read, isNew, sweepVars, histVars>>

\* The clock is read first.
ReadClock(t, k) ==
    /\ pc[t] = "idle"
    /\ key' = [key EXCEPT ![t] = k]
    /\ read' = [read EXCEPT ![t] = now]
    /\ pc' = [pc EXCEPT ![t] = "contains"]
    /\ UNCHANGED <<now, site, bucketVars, held, isNew, sweepVars, histVars>>

ContainsKey(t) ==
    /\ pc[t] = "contains"
    /\ isNew' = [isNew EXCEPT ![t] = key[t] \notin table[held[t]]]
    /\ pc' = [pc EXCEPT ![t] = "len"]
    /\ UNCHANGED <<now, site, bucketVars, key, held, read, sweepVars, histVars>>

\* The check returns; its locals are gone.
Return(t) ==
    /\ pc' = [pc EXCEPT ![t] = "idle"]
    /\ read' = [read EXCEPT ![t] = 0]
    /\ isNew' = [isNew EXCEPT ![t] = FALSE]

\* Mutant: > for >= in the test of the table's size.
AtCapacityOffByOne(g) == Cardinality(table[g]) > MaxBuckets

AtCapacity(g) == Cardinality(table[g]) >= MaxBuckets

BucketLimit(t) ==
    /\ pc[t] = "len" /\ isNew[t] /\ AtCapacity(held[t])
    /\ Return(t)
    /\ UNCHANGED <<now, site, bucketVars, key, held, sweepVars, histVars>>

BelowLimit(t) ==
    /\ pc[t] = "len" /\ ~(isNew[t] /\ AtCapacity(held[t]))
    /\ pc' = [pc EXCEPT ![t] = "update"]
    /\ UNCHANGED <<now, site, bucketVars, key, held, read, isNew, sweepVars, histVars>>

\* The counter of window kind w after the reset, for a check that has read n.
Current(g, k, w, n) ==
    IF k \in table[g] /\ ts[g][k][w] = WindowOf(w, n) THEN count[g][k][w] ELSE 0

\* Mutant: > for >= in the comparison with the limits.
ExceededOffByOne(g, k, n) ==
    {w \in Windows : Limit(w) > 0 /\ Current(g, k, w, n) > Limit(w)}

Exceeded(g, k, n) == {w \in Windows : Limit(w) > 0 /\ Current(g, k, w, n) >= Limit(w)}

\* The history of a bucket after a check at n that was granted add times.
Booked(g, k, n, add) ==
    [w \in Windows |-> [granted[g][k][w] EXCEPT ![WindowOf(w, n)] = @ + add]]

\* The bucket is found or made, reset, compared with the limits and counted
\* up under its lock.  Which limit was exceeded only selects the result.
Update(t) ==
    LET g == held[t]
        k == key[t]
        n == read[t]
        add == IF Exceeded(g, k, n) = {} THEN 1 ELSE 0
    IN  /\ pc[t] = "update"
        /\ table' = [table EXCEPT ![g] = @ \cup {k}]
        /\ ts' = [ts EXCEPT ![g] = [@ EXCEPT ![k] =
                     [w \in Windows |-> WindowOf(w, n)]]]
        /\ count' = [count EXCEPT ![g] = [@ EXCEPT ![k] =
                        [w \in Windows |-> Current(g, k, w, n) + add]]]
        /\ granted' = [granted EXCEPT ![g] = [@ EXCEPT ![k] = Booked(g, k, n, add)]]
        /\ straddled' = straddled \cup
              {w \in Windows : WindowOf(w, n) # WindowOf(w, now)}
        /\ Return(t)
        /\ UNCHANGED <<now, site, key, held, sweepVars>>

-----------------------------------------------------------------------------
(* cleanup_expired, called by the coordinator for the current main site.   *)

SweepStart ==
    /\ toSweep = {}
    /\ sweepHour' = WindowOf("hour", now)
    /\ sweepSite' = site
    /\ toSweep' = Keys
    /\ UNCHANGED <<now, site, bucketVars, threadVars, histVars>>

Stale(k) == k \in table[sweepSite] /\ ts[sweepSite][k]["hour"] # sweepHour

SweepKey(k) ==
    /\ k \in toSweep
    /\ toSweep' = toSweep \ {k}
    /\ IF Stale(k)
       THEN /\ table' = [table EXCEPT ![sweepSite] = @ \ {k}]
            /\ ts' = [ts EXCEPT ![sweepSite] = [@ EXCEPT ![k] =
                         [w \in Windows |-> 0]]]
            /\ count' = [count EXCEPT ![sweepSite] = [@ EXCEPT ![k] =
                            [w \in Windows |-> 0]]]
            /\ straddled' = IF sweepHour # WindowOf("hour", now)
                            THEN Windows ELSE straddled
       ELSE UNCHANGED <<bucketVars, straddled>>
    /\ UNCHANGED <<now, site, threadVars, sweepHour, sweepSite, granted>>

-----------------------------------------------------------------------------
(* The clock and hot reloads.                                              *)

Tick ==
    /\ now < MaxNow
    /\ now' = now + 1
    /\ UNCHANGED <<site, bucketVars, threadVars, sweepVars, histVars>>

\* A reload loads a new Site, with a RateLimitManager of its own.
Reload ==
    /\ site < MaxReloads
    /\ site' = site + 1
    /\ UNCHANGED <<now, bucketVars, threadVars, sweepVars, histVars>>

-----------------------------------------------------------------------------
Next ==
    \/ \E t \in Threads :
          \/ Request(t) \/ (\E k \in Keys : ReadClock(t, k)) \/ ContainsKey(t)
          \/ BucketLimit(t) \/ BelowLimit(t) \/ Update(t)
    \/ SweepStart \/ (\E k \in Keys : SweepKey(k))
    \/ Tick \/ Reload

Spec == Init /\ [][Next]_vars

-----------------------------------------------------------------------------
(* Properties.                                                             *)

\* Type invariant of the buckets and of the checks in progress.
TypeOK ==
    /\ now \in Times /\ site \in Sites
    /\ table \in [Sites -> SUBSET Keys]
    /\ ts \in [Sites -> [Keys -> [Windows -> Nat]]]
    /\ count \in [Sites -> [Keys -> [Windows -> Nat]]]
    /\ pc \in [Threads -> {"idle", "contains", "len", "update"}]
    /\ key \in [Threads -> Keys]
    /\ held \in [Threads -> 0 .. site]
    /\ read \in [Threads -> 0 .. now]
    /\ isNew \in [Threads -> BOOLEAN]
    /\ sweepHour \in 0 .. WindowOf("hour", now)
    /\ toSweep \subseteq Keys
    /\ sweepSite \in 0 .. site
    /\ granted \in [Sites -> [Keys -> [Windows -> [Times -> Nat]]]]
    /\ straddled \subseteq Windows

\* The bucket of key k describes nested windows.
Nested(g, k) ==
    /\ \E t \in Times : \A w \in Windows : ts[g][k][w] = WindowOf(w, t)
    /\ count[g][k]["second"] <= count[g][k]["minute"]
    /\ count[g][k]["minute"] <= count[g][k]["hour"]
    /\ \A w \in Windows : Limit(w) > 0 => count[g][k][w] <= Limit(w)

\* The three counters of a bucket always describe nested windows: they were
\* set from one reading of the clock, a shorter window has counted no more
\* than a longer one, and none has passed its limit.
BucketsNested == \A g \in Sites : \A k \in table[g] : Nested(g, k)

\* "Max requests per second/minute/hour" (helpers/ratelimit.rs:11-13): one
\* loaded Site allows no more checks than its limit in a window, unless a check
\* or a sweep that read the clock in an earlier window finished in a later one.
\* The grants are counted for each Site apart, because the counters are: every
\* load makes new ones (site.rs:115), so a key has a fresh allowance after a
\* reload, and another with the requests that still hold the old Site.  The
\* manual says that they persist (docs/user_manual.md:690-691); for the grants of
\* all Sites together the limit does not hold.
LimitUnlessStraddled ==
    \A w \in Windows \ straddled : Limit(w) > 0 =>
        \A g \in Sites : \A k \in Keys : \A i \in Times : granted[g][k][w][i] <= Limit(w)

\* The table passes --max-rate-limit-buckets by no more than the checks that
\* were between the test of its size and the insertion.
BucketOvershoot ==
    \A g \in Sites : Cardinality(table[g]) < MaxBuckets + Cardinality(Threads)
=============================================================================
