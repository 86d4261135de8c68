----------------------------- MODULE Suppressor -----------------------------
(***************************************************************************)
(* AlertSuppressor (sentinel/src/suppress.rs): a sliding-window rate       *)
(* limiter with one bucket of grant timestamps per (rule id, pid).  The    *)
(* main loop is its only caller and passes the kernel timestamp of the     *)
(* event that matched.  A timestamp is taken before its record is written  *)
(* to the ring (sentinel-ebpf/src/helpers.rs), so records of two CPUs may  *)
(* reach the suppressor out of timestamp order: a call is at most MaxSkew  *)
(* behind the newest timestamp seen so far.                                *)
(***************************************************************************)
EXTENDS Integers, Sequences, FiniteSets

CONSTANTS
  Rules,          \* rule ids
  Pids,           \* process ids
  PerRule,        \* suppression.rules: a function from some rules to limits
  Default,        \* suppression.default
  NanosPerSec,    \* 1_000_000_000 in the code
  U64Max,         \* the largest u64
  Timestamps,     \* the timestamps an event can carry
  MaxSkew,        \* how far behind the newest timestamp a call may be
  MaxGrants,      \* bound: grants explored per bucket
  MaxSuppressed   \* bound: suppressions explored

RateLimitConfig == [max_alerts : Nat, window_secs : Nat]

ASSUME ConfigAssumption ==
  /\ Default \in RateLimitConfig
  /\ DOMAIN PerRule \subseteq Rules
  /\ \A r \in DOMAIN PerRule : PerRule[r] \in RateLimitConfig
ASSUME NumberAssumption ==
  /\ NanosPerSec \in Nat \ {0}
  /\ U64Max \in Nat
  /\ Timestamps \subseteq 0..U64Max
  /\ MaxSkew \in Nat
ASSUME BoundAssumption == MaxGrants \in Nat /\ MaxSuppressed \in Nat

VARIABLES
  buckets,     \* (rule, pid) -> timestamps of the grants still remembered
  suppressed,  \* the counter behind suppressed_total()
  clock,       \* environment: the newest timestamp passed to allow() so far
  granted,     \* history: every timestamp granted per (rule, pid), in call order
  lastCall     \* history: the last call of allow() and its outcome

vars == <<buckets, suppressed, clock, granted, lastCall>>

Keys == Rules \X Pids

\* Mutant of SatMul: the product wraps.
WrappingMul(a, b) == (a * b) % (U64Max + 1)

\* u64::saturating_mul and u64::saturating_sub
SatMul(a, b) == IF a * b > U64Max THEN U64Max ELSE a * b
\* Mutant of SatSub: the operands are swapped.
SwappedSub(a, b) == IF a > b THEN 0 ELSE b - a

SatSub(a, b) == IF b > a THEN 0 ELSE a - b

Config(rule) == IF rule \in DOMAIN PerRule THEN PerRule[rule] ELSE Default

\* RateLimit::from, applied to the limit the lookup finds
Limit(rule) == [max_alerts |-> Config(rule).max_alerts,
                window_ns  |-> SatMul(Config(rule).window_secs, NanosPerSec)]

\* Mutant of Expires: an entry as old as the cutoff is popped too.
ExpiresAtCutoff(bucket, cutoff, n) ==
  /\ n \in 0..Len(bucket)
  /\ \A i \in 1..n : bucket[i] <= cutoff
  /\ n < Len(bucket) => bucket[n + 1] > cutoff

\* The while-let loop pops exactly n entries: it stops at the first one that
\* is not older than the cutoff, whatever lies behind it.
Expires(bucket, cutoff, n) ==
  /\ n \in 0..Len(bucket)
  /\ \A i \in 1..n : bucket[i] < cutoff
  /\ n < Len(bucket) => ~ (bucket[n + 1] < cutoff)

Kept(bucket, n) == SubSeq(bucket, n + 1, Len(bucket))

Outcomes == {"none", "off", "denied", "granted"}

TypeOK ==
  /\ buckets \in [Keys -> Seq(Timestamps)]
  /\ granted \in [Keys -> Seq(Timestamps)]
  /\ suppressed \in Nat
  /\ clock \in 0..U64Max
  /\ lastCall.outcome \in Outcomes
  /\ lastCall.outcome # "none" => /\ lastCall.key \in Keys
                                  /\ lastCall.ts \in Timestamps

Init ==
  /\ buckets = [key \in Keys |-> <<>>]
  /\ suppressed = 0
  /\ clock = 0
  /\ granted = [key \in Keys |-> <<>>]
  /\ lastCall = [outcome |-> "none"]

\* What a call of allow() for this key at time ts leaves behind besides its result.
Called(key, ts, outcome) ==
  /\ ts + MaxSkew >= clock
  /\ clock' = (IF ts > clock THEN ts ELSE clock)
  /\ lastCall' = [outcome |-> outcome, key |-> key, ts |-> ts]

\* max_alerts = 0 switches the rule off: no bucket, and no count either.
Off(key, ts) ==
  /\ Limit(key[1]).max_alerts = 0
  /\ Called(key, ts, "off")
  /\ UNCHANGED <<buckets, suppressed, granted>>

Deny(key, ts) ==
  LET limit == Limit(key[1]) IN
  /\ limit.max_alerts # 0
  /\ suppressed < MaxSuppressed
  /\ \E n \in 0..Len(buckets[key]) :
       /\ Expires(buckets[key], SatSub(ts, limit.window_ns), n)
       /\ Len(buckets[key]) - n >= limit.max_alerts
       /\ buckets' = [buckets EXCEPT ![key] = Kept(buckets[key], n)]
  /\ suppressed' = suppressed + 1
  /\ Called(key, ts, "denied")
  /\ UNCHANGED granted

\* Mutant of Grant: expired entries are passed over, not removed.
GrantKeepsExpired(key, ts) ==
  LET limit == Limit(key[1]) IN
  /\ limit.max_alerts # 0
  /\ Len(granted[key]) < MaxGrants
  /\ \E n \in 0..Len(buckets[key]) :
       /\ Expires(buckets[key], SatSub(ts, limit.window_ns), n)
       /\ Len(buckets[key]) - n < limit.max_alerts
       /\ buckets' = [buckets EXCEPT ![key] = Append(buckets[key], ts)]
  /\ granted' = [granted EXCEPT ![key] = Append(granted[key], ts)]
  /\ Called(key, ts, "granted")
  /\ UNCHANGED suppressed

Grant(key, ts) ==
  LET limit == Limit(key[1]) IN
  /\ limit.max_alerts # 0
  /\ Len(granted[key]) < MaxGrants
  /\ \E n \in 0..Len(buckets[key]) :
       /\ Expires(buckets[key], SatSub(ts, limit.window_ns), n)
       /\ Len(buckets[key]) - n < limit.max_alerts
       /\ buckets' = [buckets EXCEPT ![key] = Append(Kept(buckets[key], n), ts)]
  /\ granted' = [granted EXCEPT ![key] = Append(granted[key], ts)]
  /\ Called(key, ts, "granted")
  /\ UNCHANGED suppressed

Next == \E key \in Keys, ts \in Timestamps :
          Off(key, ts) \/ Deny(key, ts) \/ Grant(key, ts)

Spec == Init /\ [][Next]_vars

-----------------------------------------------------------------------------
\* The window the configuration asks for, in exact arithmetic.
Window(rule) == Config(rule).window_secs * NanosPerSec

\* The rate limit: a grant and the grants from the max_alerts-th after it on (of
\* the same rule and pid) are more than a window apart, short of the skew between
\* CPUs.  allow() keeps only a suffix of what it granted, pops from the front
\* only, and computes the cutoff in saturating arithmetic.
RateLimited ==
  \A key \in Keys : \A i, j \in 1..Len(granted[key]) :
    i + Config(key[1]).max_alerts <= j =>
      granted[key][i] + Window(key[1]) < granted[key][j] + MaxSkew

\* No alert is suppressed without cause: when a call is denied, max_alerts
\* grants of that very rule and pid lie inside its window, short of the skew.
DeniedOnlyWhenBusy ==
  lastCall.outcome = "denied" =>
    LET key == lastCall.key
        max == Config(key[1]).max_alerts
    IN  /\ Len(granted[key]) >= max
        /\ \A i \in (Len(granted[key]) - max + 1)..Len(granted[key]) :
             granted[key][i] + Window(key[1]) + MaxSkew >= lastCall.ts

\* The memory of one bucket stays below the limit of its rule, whatever the
\* order of the timestamps (the number of buckets is not bounded: the map is
\* never pruned).
BucketBounded ==
  \A key \in Keys : Len(buckets[key]) <= Config(key[1]).max_alerts

\* The bucket is as good as the full history: every call is decided as the
\* sliding window of SlidingWindow decides it, short of the skew, and exactly
\* so where there is none.
Exact == INSTANCE SlidingWindow WITH
           MaxAlerts <- [key \in Keys |-> Config(key[1]).max_alerts],
           Span      <- [key \in Keys |-> Window(key[1])],
           Slack     <- MaxSkew,
           grants    <- granted,
           refused   <- IF lastCall.outcome \in {"off", "denied"}
                          THEN {<<lastCall.key, lastCall.ts>>} ELSE {}
ImplementsSlidingWindow == Exact!Spec

-----------------------------------------------------------------------------
(***************************************************************************)
(* Why the three properties hold: the inductive invariant.  The bucket is  *)
(* the tail of the history that has not expired.                           *)
(***************************************************************************)
Forgotten(key) == Len(granted[key]) - Len(buckets[key])

\* The bucket holds the most recent grants, in the order they were made.
BucketIsTail ==
  \A key \in Keys :
    /\ Len(buckets[key]) <= Len(granted[key])
    /\ \A i \in 1..Len(buckets[key]) :
         buckets[key][i] = granted[key][Forgotten(key) + i]

\* No grant lies after the clock, and none lies before an earlier one by
\* more than the skew.
GrantsSkewed ==
  \A key \in Keys : \A j \in 1..Len(granted[key]) :
    /\ granted[key][j] <= clock
    /\ \A i \in 1..(j - 1) : granted[key][i] <= granted[key][j] + MaxSkew

\* What has left the bucket is out of the window, for good.
ForgottenExpired ==
  \A key \in Keys : \A j \in 1..Forgotten(key) :
    granted[key][j] + Window(key[1]) < clock

IInv == /\ TypeOK
        /\ BucketIsTail
        /\ BucketBounded
        /\ GrantsSkewed
        /\ ForgottenExpired
        /\ RateLimited
        /\ DeniedOnlyWhenBusy
=============================================================================
