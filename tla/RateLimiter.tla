---------------------------- MODULE RateLimiter ----------------------------
(***************************************************************************)
(* The rate limits of the HTTP API: RateLimiter and its middleware         *)
(* (backend/app/middleware/rate_limit.py), the task that removes idle      *)
(* buckets (rate_limit_cleanup.py) and the change of the /mcp limits.      *)
(*                                                                         *)
(* A bucket is one client and one prefix of paths.  Its two lists of       *)
(* arrival times are two windows that slide over the clock; its tokens     *)
(* bound a burst.  A list is a set here: the request <<t, n>> is the n-th  *)
(* that came at tick t.  check_rate_limit runs under one lock, so that a   *)
(* check is one step.  The clock counts whole ticks and the lengths of the *)
(* windows, the inactivity and the limits are small numbers that stand in  *)
(* the order of the real ones: minute < hour < a day.                      *)
(***************************************************************************)
EXTENDS Naturals, FiniteSets

CONSTANTS Buckets,      \* the pairs of a client's address and a prefix of paths
          Limits,       \* the configurations: requests_per_minute, requests_per_hour,
                        \* burst_size, and the tokens a tick adds (requests_per_minute / 60)
          FirstTokens,  \* the tokens of a new bucket
          Minute, Hour, Inactive,  \* 60, 3600 and 86400 seconds
          MaxTime,      \* bound: the clock
          MaxUpdates    \* bound: the changes of the configuration

ASSUME LimiterConstantsOK ==
    /\ {Minute, Hour, Inactive, FirstTokens, MaxTime, MaxUpdates} \subseteq Nat
    /\ 0 < Minute /\ Minute <= Hour /\ Hour < Inactive
    /\ Limits # {}
    /\ Limits \subseteq [minute : Nat \ {0}, hour : Nat \ {0}, burst : Nat, refill : Nat]

VARIABLES clock,    \* time.monotonic()
          limit,    \* the configuration of the path
          buckets,  \* _buckets
          updates,  \* the changes of the configuration so far
          admitted  \* history: the requests let through, per bucket

limiterVars == <<clock, limit, buckets, updates, admitted>>

NoBucket == [tokens |-> 0, last |-> 0, minute |-> {}, hour |-> {}, exists |-> FALSE]

NewBucket == [tokens |-> FirstTokens, last |-> clock, minute |-> {}, hour |-> {},
              exists |-> TRUE]

ArrivedAt(requests, t) == {q \in requests : q[1] = t}
Recent(requests, length) == {q \in requests : q[1] + length > clock}
CapAt(a, b) == IF a < b THEN a ELSE b

LimiterInit ==
    /\ clock = 0 /\ updates = 0 /\ limit \in Limits
    /\ buckets = [b \in Buckets |-> NoBucket]
    /\ admitted = [b \in Buckets |-> {}]

\* _cleanup_old_requests, the first thing a check does with its bucket.
CleanedUp(b) ==
    LET bucket == IF buckets[b].exists THEN buckets[b] ELSE NewBucket IN
    [bucket EXCEPT !.minute = Recent(@, Minute), !.hour = Recent(@, Hour)]

\* Mutant of WithinWindows: the request that fills a window is not counted.
WithinWindowsAndOne(bucket) ==
    Cardinality(bucket.minute) <= limit.minute /\ Cardinality(bucket.hour) <= limit.hour

WithinWindows(bucket) ==
    Cardinality(bucket.minute) < limit.minute /\ Cardinality(bucket.hour) < limit.hour

Refilled(bucket) ==
    [bucket EXCEPT !.tokens = CapAt(limit.burst, @ + (clock - bucket.last) * limit.refill),
                   !.last = clock]

\* A window is full: 429, and nothing but the clean-up is kept.
RefuseWindow(b) ==
    /\ ~WithinWindows(CleanedUp(b))
    /\ buckets' = [buckets EXCEPT ![b] = CleanedUp(b)]
    /\ UNCHANGED <<clock, limit, updates, admitted>>

\* The windows allow it and the burst does not.
RefuseBurst(b) ==
    LET bucket == Refilled(CleanedUp(b)) IN
    /\ WithinWindows(bucket) /\ bucket.tokens < 1
    /\ buckets' = [buckets EXCEPT ![b] = bucket]
    /\ UNCHANGED <<clock, limit, updates, admitted>>

\* The request that comes now.
Arrival(b) == <<clock, Cardinality(ArrivedAt(admitted[b], clock)) + 1>>

Counted(bucket, request) ==
    [bucket EXCEPT !.tokens = @ - 1, !.minute = @ \union {request},
                   !.hour = @ \union {request}]

Allow(b) ==
    LET bucket == Refilled(CleanedUp(b)) IN
    /\ WithinWindows(bucket) /\ bucket.tokens >= 1
    /\ buckets' = [buckets EXCEPT ![b] = Counted(bucket, Arrival(b))]
    /\ admitted' = [admitted EXCEPT ![b] = Recent(@, Hour) \union {Arrival(b)}]
    /\ UNCHANGED <<clock, limit, updates>>

\* cleanup_inactive_buckets, once an hour, for every bucket that is there.
IdleBucket(bucket) ==
    /\ bucket.exists /\ bucket.last + Inactive < clock
    /\ \/ bucket.minute = {} /\ bucket.hour = {}
       \/ bucket.minute # {} /\ \A q \in bucket.minute : q[1] + Inactive < clock

CleanupInactive ==
    /\ \E b \in Buckets : IdleBucket(buckets[b])
    /\ buckets' = [b \in Buckets |-> IF IdleBucket(buckets[b]) THEN NoBucket ELSE buckets[b]]
    /\ UNCHANGED <<clock, limit, updates, admitted>>

\* update_mcp_config, when the admin changes the setting: the buckets stay.
UpdateConfig(l) ==
    /\ updates < MaxUpdates /\ l # limit
    /\ limit' = l /\ updates' = updates + 1
    /\ UNCHANGED <<clock, buckets, admitted>>

ClockTicks ==
    /\ clock < MaxTime
    /\ clock' = clock + 1
    /\ UNCHANGED <<limit, buckets, updates, admitted>>

LimiterNext ==
    \/ \E b \in Buckets : RefuseWindow(b) \/ RefuseBurst(b) \/ Allow(b)
    \/ CleanupInactive \/ ClockTicks
    \/ \E l \in Limits : UpdateConfig(l)

LimiterSpec == LimiterInit /\ [][LimiterNext]_limiterVars

-----------------------------------------------------------------------------
(* Every variable has its type, a bucket never has more tokens than the    *)
(* largest burst, and the requests of a tick are numbered from 1.          *)
Numbered(requests) ==
    \A t \in 0..clock :
        ArrivedAt(requests, t) = {<<t, i>> : i \in 1..Cardinality(ArrivedAt(requests, t))}

LimiterTypeOK ==
    /\ clock \in 0..MaxTime /\ updates \in 0..MaxUpdates /\ limit \in Limits
    /\ \A b \in Buckets :
          /\ buckets[b].exists \in BOOLEAN
          /\ buckets[b].last \in 0..clock
          /\ \E l \in Limits : buckets[b].tokens \in 0..l.burst
          /\ buckets[b].minute \subseteq buckets[b].hour
          /\ \A q \in buckets[b].hour \union admitted[b] : q[1] \in 0..clock
          /\ Numbered(admitted[b])

During(requests, length) == Cardinality(Recent(requests, length))

(* However the limits, the clean-up of idle buckets and the requests       *)
(* interleave, no window of an hour or of a minute that ends now holds     *)
(* more admitted requests than the largest limit that was ever configured, *)
(* and no more than the present one when it was never changed: forgetting  *)
(* an idle bucket gives nobody a fresh allowance.                          *)
Allowances == IF updates = 0 THEN {limit} ELSE Limits

WindowsHold ==
    \A b \in Buckets :
        /\ \E l \in Allowances : During(admitted[b], Minute) <= l.minute
        /\ \E l \in Allowances : During(admitted[b], Hour) <= l.hour
=============================================================================
