-------------------------- MODULE SuppressorProofs --------------------------
(***************************************************************************)
(* The rate limit of Suppressor, for every configuration, clock width and  *)
(* skew.                                                                   *)
(***************************************************************************)
EXTENDS Suppressor, SequenceTheorems, FiniteSetTheorems, TLAPS

LEMMA Numbers ==
  /\ NanosPerSec \in Nat /\ U64Max \in Nat /\ MaxSkew \in Nat
  /\ \A t \in Timestamps : t \in Int /\ t \in Nat /\ t \in 0..U64Max
  BY NumberAssumption

\* The configuration found for a rule is a limit, its window a natural number.
LEMMA ConfigType ==
  ASSUME NEW r \in Rules
  PROVE  /\ Config(r).max_alerts \in Nat
         /\ Config(r).window_secs \in Nat
         /\ Window(r) \in Nat
         /\ Limit(r).max_alerts = Config(r).max_alerts
<1>1. Config(r) \in RateLimitConfig
  BY ConfigAssumption DEF Config
<1>2. Config(r).max_alerts \in Nat /\ Config(r).window_secs \in Nat
  BY <1>1 DEF RateLimitConfig
<1>3. Window(r) \in Nat
  BY <1>2, Numbers DEF Window
<1>4. Limit(r).max_alerts = Config(r).max_alerts
  BY DEF Limit
<1> QED
  BY <1>2, <1>3, <1>4

\* Saturation does no harm: a grant is older than the cutoff allow() computes
\* exactly if the exact window, added to it, ends before the call.
LEMMA CutoffExact ==
  ASSUME NEW r \in Rules, NEW g \in Timestamps, NEW ts \in Timestamps
  PROVE  g < SatSub(ts, Limit(r).window_ns) <=> g + Window(r) < ts
<1> DEFINE w == Window(r)
<1>1. w \in Nat /\ g \in 0..U64Max /\ ts \in 0..U64Max /\ U64Max \in Nat
  BY ConfigType, Numbers
<1>2. Limit(r).window_ns = IF w > U64Max THEN U64Max ELSE w
  BY DEF Limit, SatMul, Window
<1> HIDE DEF w
<1>3. g < SatSub(ts, Limit(r).window_ns) <=> g + w < ts
  BY <1>1, <1>2 DEF SatSub
<1> QED
  BY <1>3 DEF w

\* What the while-let loop leaves of a bucket b that is the tail of the history
\* g: still a tail of it; all that is gone has expired, the front has not.
LEMMA Expiry ==
  ASSUME NEW r \in Rules, NEW ts \in Timestamps, NEW c \in Nat, NEW c2 \in Nat,
         NEW b \in Seq(Timestamps), NEW g \in Seq(Timestamps),
         Len(b) <= Len(g),
         \A i \in 1..Len(b) : b[i] = g[Len(g) - Len(b) + i],
         \A j \in 1..(Len(g) - Len(b)) : g[j] + Window(r) < c,
         c <= c2, ts <= c2,
         NEW n \in 0..Len(b),
         Expires(b, SatSub(ts, Limit(r).window_ns), n)
  PROVE  /\ Kept(b, n) \in Seq(Timestamps)
         /\ Len(Kept(b, n)) = Len(b) - n
         /\ \A i \in 1..(Len(b) - n) : Kept(b, n)[i] = g[Len(g) - (Len(b) - n) + i]
         /\ \A j \in 1..(Len(g) - (Len(b) - n)) : g[j] + Window(r) < c2
         /\ n < Len(b) => g[Len(g) - (Len(b) - n) + 1] + Window(r) >= ts
<1>1. /\ Len(b) \in Nat /\ Len(g) \in Nat
      /\ \A i \in 1..Len(b) : b[i] \in Timestamps /\ b[i] \in Int
      /\ \A i \in 1..Len(g) : g[i] \in Timestamps /\ g[i] \in Int
      /\ Window(r) \in Nat
      /\ ts \in Int
  <2>1. \A i \in 1..Len(b) : b[i] \in Timestamps
    OBVIOUS
  <2>2. \A i \in 1..Len(g) : g[i] \in Timestamps
    OBVIOUS
  <2> QED
    BY <2>1, <2>2, ConfigType, Numbers
<1>2. /\ Kept(b, n) \in Seq(Timestamps)
      /\ Len(Kept(b, n)) = Len(b) - n
      /\ \A i \in 1..(Len(b) - n) : Kept(b, n)[i] = b[n + i]
  BY <1>1, SubSeqProperties DEF Kept
<1>3. \A i \in 1..(Len(b) - n) : Kept(b, n)[i] = g[Len(g) - (Len(b) - n) + i]
  BY <1>1, <1>2
<1>4. ASSUME NEW j \in 1..(Len(g) - (Len(b) - n))
      PROVE  g[j] + Window(r) < c2
  <2>1. CASE j <= Len(g) - Len(b)
    <3>1. g[j] + Window(r) < c
      BY <2>1, <1>1
    <3>2. j \in 1..Len(g)
      BY <1>1
    <3>3. g[j] \in Int
      BY <3>2, <1>1
    <3> QED
      BY <3>1, <3>3, <1>1
  <2>2. CASE j > Len(g) - Len(b)
    <3> DEFINE i == j - (Len(g) - Len(b))
    <3>1. i \in 1..n /\ i \in 1..Len(b) /\ g[j] = b[i]
      BY <2>2, <1>1
    <3>2. b[i] < SatSub(ts, Limit(r).window_ns)
      BY <3>1 DEF Expires
    <3>3. b[i] + Window(r) < ts
      BY <3>1, <3>2, <1>1, CutoffExact
    <3>4. b[i] \in Int
      BY <3>1, <1>1
    <3> HIDE DEF i
    <3> QED
      BY <3>1, <3>3, <3>4, <1>1
  <2> QED
    BY <2>1, <2>2, <1>1
<1>5. ASSUME n < Len(b)
      PROVE  g[Len(g) - (Len(b) - n) + 1] + Window(r) >= ts
  <2>1. ~ (b[n + 1] < SatSub(ts, Limit(r).window_ns))
    BY <1>5 DEF Expires
  <2>2. n + 1 \in 1..Len(b) /\ b[n + 1] \in Timestamps /\ b[n + 1] \in Int
    BY <1>5, <1>1
  <2>3. ~ (b[n + 1] + Window(r) < ts)
    BY <2>1, <2>2, CutoffExact
  <2>4. b[n + 1] = g[Len(g) - (Len(b) - n) + 1]
    BY <2>2, <1>1
  <2> QED
    BY <2>2, <2>3, <2>4, <1>1
<1> QED
  BY <1>2, <1>3, <1>4, <1>5

\* Facts about one key of a state that satisfies the invariant.
LEMMA KeyFacts ==
  ASSUME IInv, NEW key \in Keys
  PROVE  /\ key[1] \in Rules
         /\ buckets[key] \in Seq(Timestamps) /\ granted[key] \in Seq(Timestamps)
         /\ Len(buckets[key]) \in Nat /\ Len(granted[key]) \in Nat
         /\ \A i \in 1..Len(granted[key]) : granted[key][i] \in Int
         /\ Window(key[1]) \in Nat
         /\ Config(key[1]).max_alerts \in Nat
         /\ clock \in Nat
<1>1. key[1] \in Rules
  BY DEF Keys
<1>2. buckets[key] \in Seq(Timestamps) /\ granted[key] \in Seq(Timestamps)
  BY DEF IInv, TypeOK
<1>3. \A i \in 1..Len(granted[key]) : granted[key][i] \in Timestamps
  BY <1>2
<1>4. \A i \in 1..Len(granted[key]) : granted[key][i] \in Int
  BY <1>3, Numbers
<1>5. clock \in Nat
  BY Numbers DEF IInv, TypeOK
<1>6. Len(buckets[key]) \in Nat /\ Len(granted[key]) \in Nat
  BY <1>2
<1>7. Window(key[1]) \in Nat /\ Config(key[1]).max_alerts \in Nat
  BY <1>1, ConfigType
<1> QED
  BY <1>1, <1>2, <1>4, <1>5, <1>6, <1>7

\* The invariants about the clock survive its advance.
LEMMA LaterClock ==
  ASSUME IInv, clock' \in Nat, clock <= clock', UNCHANGED <<buckets, granted>>
  PROVE  GrantsSkewed' /\ ForgottenExpired'
<1>1. ASSUME NEW key \in Keys, NEW j \in 1..Len(granted[key])
      PROVE  /\ granted[key][j] <= clock'
             /\ \A i \in 1..(j - 1) : granted[key][i] <= granted[key][j] + MaxSkew
  BY KeyFacts DEF IInv, GrantsSkewed
<1>2. ASSUME NEW key \in Keys, NEW j \in 1..Forgotten(key)
      PROVE  granted[key][j] + Window(key[1]) < clock'
  <2>1. granted[key][j] + Window(key[1]) < clock
    BY DEF IInv, ForgottenExpired
  <2>2. j \in 1..Len(granted[key])
    <3>1. Len(buckets[key]) \in Nat /\ Len(granted[key]) \in Nat
      BY KeyFacts
    <3>2. j \in 1..(Len(granted[key]) - Len(buckets[key]))
      BY DEF Forgotten
    <3> QED
      BY <3>1, <3>2
  <2>3. granted[key][j] \in Int /\ Window(key[1]) \in Nat /\ clock \in Nat
    BY <2>2, KeyFacts
  <2> QED
    BY <2>1, <2>3
<1>3. GrantsSkewed'
  BY <1>1 DEF GrantsSkewed
<1>4. ForgottenExpired'
  BY <1>2 DEF ForgottenExpired, Forgotten
<1> QED
  BY <1>3, <1>4

LEMMA InitInv == Init => IInv
<1> SUFFICES ASSUME Init PROVE IInv
  OBVIOUS
<1>1. TypeOK
  BY Numbers DEF Init, TypeOK, Outcomes
<1>2. \A key \in Keys : buckets[key] = <<>> /\ granted[key] = <<>>
  BY DEF Init
<1>3. BucketIsTail /\ BucketBounded
  <2>1. \A key \in Keys : Config(key[1]).max_alerts \in Nat
    BY ConfigType DEF Keys
  <2> QED
    BY <1>2, <2>1 DEF BucketIsTail, BucketBounded, Forgotten
<1>4. GrantsSkewed /\ ForgottenExpired /\ RateLimited
  BY <1>2 DEF GrantsSkewed, ForgottenExpired, Forgotten, RateLimited
<1>5. DeniedOnlyWhenBusy
  BY DEF Init, DeniedOnlyWhenBusy
<1> QED
  BY <1>1, <1>3, <1>4, <1>5 DEF IInv

\* Switching a rule off leaves the buckets and their history alone.
LEMMA OffInv ==
  ASSUME IInv, NEW key \in Keys, NEW ts \in Timestamps, Off(key, ts)
  PROVE  IInv'
<1> USE DEF IInv
<1>1. /\ UNCHANGED <<buckets, suppressed, granted>>
      /\ lastCall' = [outcome |-> "off", key |-> key, ts |-> ts]
      /\ clock' \in 0..U64Max /\ clock <= clock'
  BY Numbers DEF Off, Called, TypeOK
<1>2. TypeOK'
  BY <1>1 DEF TypeOK, Outcomes
<1>3. BucketIsTail' /\ BucketBounded' /\ RateLimited'
  BY <1>1 DEF BucketIsTail, BucketBounded, RateLimited, Forgotten
<1>4. DeniedOnlyWhenBusy'
  BY <1>1 DEF DeniedOnlyWhenBusy
<1>5. GrantsSkewed' /\ ForgottenExpired'
  BY <1>1, LaterClock
<1> QED
  BY <1>2, <1>3, <1>4, <1>5

\* Expiry, for the bucket of a key in a state that satisfies the invariant.
LEMMA ExpiryOfKey ==
  ASSUME IInv, NEW key \in Keys, NEW ts \in Timestamps,
         clock' \in Nat, clock <= clock', ts <= clock',
         NEW n \in 0..Len(buckets[key]),
         Expires(buckets[key], SatSub(ts, Limit(key[1]).window_ns), n)
  PROVE  LET b == buckets[key]
             g == granted[key]
             w == Window(key[1])
         IN  /\ Kept(b, n) \in Seq(Timestamps)
             /\ Len(Kept(b, n)) = Len(b) - n
             /\ \A i \in 1..(Len(b) - n) : Kept(b, n)[i] = g[Len(g) - (Len(b) - n) + i]
             /\ \A j \in 1..(Len(g) - (Len(b) - n)) : g[j] + w < clock'
             /\ n < Len(b) => g[Len(g) - (Len(b) - n) + 1] + w >= ts
<1> DEFINE r == key[1]  b == buckets[key]  g == granted[key]
<1>1. /\ r \in Rules /\ b \in Seq(Timestamps) /\ g \in Seq(Timestamps)
      /\ clock \in Nat
  BY KeyFacts
<1>2. /\ Len(b) <= Len(g)
      /\ \A i \in 1..Len(b) : b[i] = g[Len(g) - Len(b) + i]
      /\ \A j \in 1..(Len(g) - Len(b)) : g[j] + Window(r) < clock
  BY DEF IInv, BucketIsTail, ForgottenExpired, Forgotten
<1> HIDE DEF r, b, g
<1>3. Expires(b, SatSub(ts, Limit(r).window_ns), n) /\ n \in 0..Len(b)
  BY DEF r, b
<1>4. /\ Kept(b, n) \in Seq(Timestamps)
      /\ Len(Kept(b, n)) = Len(b) - n
      /\ \A i \in 1..(Len(b) - n) : Kept(b, n)[i] = g[Len(g) - (Len(b) - n) + i]
      /\ \A j \in 1..(Len(g) - (Len(b) - n)) : g[j] + Window(r) < clock'
      /\ n < Len(b) => g[Len(g) - (Len(b) - n) + 1] + Window(r) >= ts
  BY <1>1, <1>2, <1>3, Expiry
<1> QED
  BY <1>4 DEF r, b, g

\* A denied call only forgets expired grants.
LEMMA DenyInv ==
  ASSUME IInv, NEW key \in Keys, NEW ts \in Timestamps, Deny(key, ts)
  PROVE  IInv'
<1> DEFINE r == key[1]  b == buckets[key]  g == granted[key]
           max == Config(key[1]).max_alerts
<1>1. PICK n \in 0..Len(b) :
        /\ Expires(b, SatSub(ts, Limit(r).window_ns), n)
        /\ Len(b) - n >= max
        /\ buckets' = [buckets EXCEPT ![key] = Kept(b, n)]
  BY KeyFacts, ConfigType DEF Deny
<1>2. /\ granted' = granted
      /\ suppressed' = suppressed + 1
      /\ ts + MaxSkew >= clock
      /\ clock' \in 0..U64Max /\ clock' \in Nat /\ clock <= clock' /\ ts <= clock'
      /\ lastCall' = [outcome |-> "denied", key |-> key, ts |-> ts]
      /\ Limit(r).max_alerts = max
      /\ max # 0
      /\ ts \in Int
  BY Numbers, KeyFacts, ConfigType DEF Deny, Called, IInv, TypeOK
<1>3. /\ Kept(b, n) \in Seq(Timestamps)
      /\ Len(Kept(b, n)) = Len(b) - n
      /\ \A i \in 1..(Len(b) - n) : Kept(b, n)[i] = g[Len(g) - (Len(b) - n) + i]
      /\ \A j \in 1..(Len(g) - (Len(b) - n)) : g[j] + Window(r) < clock'
      /\ n < Len(b) => g[Len(g) - (Len(b) - n) + 1] + Window(r) >= ts
  <2>1. clock' \in Nat /\ clock <= clock' /\ ts <= clock'
    BY <1>2
  <2> QED
    BY <1>1, <2>1, ExpiryOfKey
<1>4. TypeOK'
  BY <1>1, <1>2, <1>3 DEF IInv, TypeOK, Outcomes
<1>5. /\ buckets' \in [Keys -> Seq(Timestamps)]
      /\ \A k \in Keys : buckets'[k] = IF k = key THEN Kept(b, n) ELSE buckets[k]
  BY <1>1, <1>4 DEF IInv, TypeOK
<1>6. n \in Nat /\ Len(b) \in Nat /\ Len(g) \in Nat /\ Len(b) <= Len(g) /\ max \in Nat
  BY KeyFacts DEF IInv, BucketIsTail
<1>7. BucketIsTail'
  <2> SUFFICES ASSUME NEW k \in Keys
               PROVE  /\ Len(buckets'[k]) <= Len(granted[k])
                      /\ \A i \in 1..Len(buckets'[k]) :
                           buckets'[k][i]
                             = granted[k][Len(granted[k]) - Len(buckets'[k]) + i]
    BY <1>2 DEF BucketIsTail, Forgotten
  <2>1. CASE k = key
    <3>1. buckets'[k] = Kept(b, n) /\ granted[k] = g
      BY <2>1, <1>5
    <3> HIDE DEF b, g
    <3>2. Len(b) - n <= Len(g)
      BY <1>6
    <3> QED
      BY <3>1, <3>2, <1>3
  <2>2. CASE k # key
    BY <2>2, <1>5 DEF IInv, BucketIsTail, Forgotten
  <2> QED
    BY <2>1, <2>2
<1>8. BucketBounded'
  <2> SUFFICES ASSUME NEW k \in Keys
               PROVE  Len(buckets'[k]) <= Config(k[1]).max_alerts
    BY DEF BucketBounded
  <2>1. CASE k = key
    <3>1. Len(b) <= max
      BY DEF IInv, BucketBounded
    <3>2. Len(buckets'[k]) = Len(b) - n
      BY <2>1, <1>3, <1>5
    <3> HIDE DEF b, max
    <3>3. Len(b) - n <= max
      BY <3>1, <1>6
    <3> QED
      BY <3>2, <3>3, <2>1 DEF max
  <2>2. CASE k # key
    BY <2>2, <1>5 DEF IInv, BucketBounded
  <2> QED
    BY <2>1, <2>2
<1>9. GrantsSkewed'
  <2> SUFFICES ASSUME NEW k \in Keys, NEW j \in 1..Len(granted[k])
               PROVE  /\ granted[k][j] <= clock'
                      /\ \A i \in 1..(j - 1) : granted[k][i] <= granted[k][j] + MaxSkew
    BY <1>2 DEF GrantsSkewed
  <2>1. /\ granted[k][j] <= clock
        /\ \A i \in 1..(j - 1) : granted[k][i] <= granted[k][j] + MaxSkew
    BY DEF IInv, GrantsSkewed
  <2>2. granted[k][j] \in Int /\ clock \in Nat
    BY KeyFacts
  <2>3. granted[k][j] <= clock'
    BY <1>2, <2>1, <2>2
  <2> QED
    BY <2>1, <2>3
<1>10. ForgottenExpired'
  <2> SUFFICES ASSUME NEW k \in Keys,
                      NEW j \in 1..(Len(granted[k]) - Len(buckets'[k]))
               PROVE  granted[k][j] + Window(k[1]) < clock'
    BY <1>2 DEF ForgottenExpired, Forgotten
  <2>1. CASE k = key
    <3>1. Len(granted[k]) - Len(buckets'[k]) = Len(g) - (Len(b) - n)
      BY <2>1, <1>3, <1>5
    <3>2. j \in 1..(Len(g) - (Len(b) - n))
      BY <3>1
    <3>3. g[j] + Window(r) < clock'
      BY <3>2, <1>3
    <3> QED
      BY <2>1, <3>3
  <2>2. CASE k # key
    <3>1. j \in 1..Forgotten(k) /\ j \in 1..Len(granted[k])
      <4>1. buckets'[k] = buckets[k]
        BY <2>2, <1>5
      <4>2. Len(buckets[k]) \in Nat /\ Len(granted[k]) \in Nat
        BY KeyFacts
      <4>3. j \in 1..(Len(granted[k]) - Len(buckets[k]))
        BY <4>1
      <4> QED
        BY <4>2, <4>3 DEF Forgotten
    <3>2. granted[k][j] + Window(k[1]) < clock
      BY <3>1 DEF IInv, ForgottenExpired
    <3>3. granted[k][j] \in Int /\ Window(k[1]) \in Nat /\ clock \in Nat
      BY <3>1, KeyFacts
    <3> QED
      BY <3>2, <3>3, <1>2
  <2> QED
    BY <2>1, <2>2
<1>11. RateLimited'
  BY <1>2 DEF IInv, RateLimited
<1>12. DeniedOnlyWhenBusy'
  <2> DEFINE f == Len(g) - (Len(b) - n) + 1
  <2>1. Len(g) >= max /\ n < Len(b) /\ f \in 1..Len(g)
    <3>1. Len(b) - n >= max
      BY <1>1
    <3> HIDE DEF b, g, max
    <3> QED
      BY <3>1, <1>2, <1>6
  <2>2. g[f] + Window(r) >= ts
    BY <2>1, <1>3
  <2>3. ASSUME NEW i \in (Len(g) - max + 1)..Len(g)
        PROVE  g[i] + Window(r) + MaxSkew >= ts
    <3>1. i \in 1..Len(g) /\ i >= f
      BY <1>1, <1>6, <2>1
    <3>2. g[i] \in Int /\ g[f] \in Int /\ Window(r) \in Nat
      BY <3>1, <2>1, KeyFacts
    <3> HIDE DEF f, g, r
    <3>3. CASE i = f
      <4>1. ts \in Int /\ MaxSkew \in Nat
        BY <1>2, Numbers
      <4> QED
        BY <4>1, <3>2, <3>3, <2>2
    <3>4. CASE i > f
      <4>1. f \in 1..(i - 1)
        BY <3>1, <3>4, <2>1
      <4>2. \A m \in 1..(i - 1) : g[m] <= g[i] + MaxSkew
        <5>1. GrantsSkewed /\ i \in 1..Len(granted[key])
          BY <3>1 DEF IInv, g
        <5> QED
          BY <5>1 DEF GrantsSkewed, g
      <4>3. g[f] <= g[i] + MaxSkew
        BY <4>1, <4>2
      <4>4. ts \in Int /\ MaxSkew \in Nat
        BY <1>2, Numbers
      <4> QED
        BY <4>3, <4>4, <3>2, <2>2
    <3> QED
      BY <3>1, <3>3, <3>4, <2>1
  <2> QED
    BY <2>1, <2>3, <1>2 DEF DeniedOnlyWhenBusy
<1> QED
  BY <1>4, <1>7, <1>8, <1>9, <1>10, <1>11, <1>12 DEF IInv

\* A grant is at most the max-th inside its window.
LEMMA GrantInv ==
  ASSUME IInv, NEW key \in Keys, NEW ts \in Timestamps, Grant(key, ts)
  PROVE  IInv'
<1> DEFINE r == key[1]  b == buckets[key]  g == granted[key]
           max == Config(key[1]).max_alerts
<1>1. PICK n \in 0..Len(b) :
        /\ Expires(b, SatSub(ts, Limit(r).window_ns), n)
        /\ Len(b) - n < max
        /\ buckets' = [buckets EXCEPT ![key] = Append(Kept(b, n), ts)]
  BY KeyFacts, ConfigType DEF Grant
<1>2. /\ granted' = [granted EXCEPT ![key] = Append(g, ts)]
      /\ suppressed' = suppressed
      /\ ts + MaxSkew >= clock
      /\ clock' \in 0..U64Max /\ clock' \in Nat /\ clock <= clock' /\ ts <= clock'
      /\ lastCall' = [outcome |-> "granted", key |-> key, ts |-> ts]
      /\ ts \in Int
  BY Numbers, KeyFacts DEF Grant, Called, IInv, TypeOK
<1>3. /\ Kept(b, n) \in Seq(Timestamps)
      /\ Len(Kept(b, n)) = Len(b) - n
      /\ \A i \in 1..(Len(b) - n) : Kept(b, n)[i] = g[Len(g) - (Len(b) - n) + i]
      /\ \A j \in 1..(Len(g) - (Len(b) - n)) : g[j] + Window(r) < clock'
  <2>1. clock' \in Nat /\ clock <= clock' /\ ts <= clock'
    BY <1>2
  <2> QED
    BY <1>1, <2>1, ExpiryOfKey
<1>4. ASSUME NEW k \in Keys
      PROVE  /\ Window(k[1]) \in Nat /\ clock \in Nat
             /\ \A i \in 1..Len(granted[k]) : granted[k][i] \in Int
  BY KeyFacts
<1>5. n \in Nat /\ Len(b) \in Nat /\ Len(g) \in Nat /\ Len(b) <= Len(g) /\ max \in Nat
  BY KeyFacts DEF IInv, BucketIsTail
<1>6. /\ Append(Kept(b, n), ts) \in Seq(Timestamps)
      /\ Len(Append(Kept(b, n), ts)) = Len(b) - n + 1
      /\ \A i \in 1..(Len(b) - n) :
           Append(Kept(b, n), ts)[i] = g[Len(g) - (Len(b) - n) + i]
      /\ Append(Kept(b, n), ts)[Len(b) - n + 1] = ts
  <2> HIDE DEF b, g
  <2> QED
    BY <1>3, <1>5, AppendProperties
<1>7. /\ Append(g, ts) \in Seq(Timestamps)
      /\ Len(Append(g, ts)) = Len(g) + 1
      /\ \A i \in 1..Len(g) : Append(g, ts)[i] = g[i]
      /\ Append(g, ts)[Len(g) + 1] = ts
  BY KeyFacts, AppendProperties
<1>8. TypeOK'
  BY <1>1, <1>2, <1>6, <1>7 DEF IInv, TypeOK, Outcomes
<1>9. \A k \in Keys :
        /\ buckets'[k] = IF k = key THEN Append(Kept(b, n), ts) ELSE buckets[k]
        /\ granted'[k] = IF k = key THEN Append(g, ts) ELSE granted[k]
  BY <1>1, <1>2 DEF IInv, TypeOK
<1>10. BucketIsTail'
  <2> SUFFICES ASSUME NEW k \in Keys
               PROVE  /\ Len(buckets'[k]) <= Len(granted'[k])
                      /\ \A i \in 1..Len(buckets'[k]) :
                           buckets'[k][i]
                             = granted'[k][Len(granted'[k]) - Len(buckets'[k]) + i]
    BY DEF BucketIsTail, Forgotten
  <2>1. CASE k = key
    <3> DEFINE b2 == Append(Kept(b, n), ts)  g2 == Append(g, ts)
    <3>1. buckets'[k] = b2 /\ granted'[k] = g2
      BY <2>1, <1>9
    <3>2. Len(b2) <= Len(g2)
      <4> HIDE DEF b, g
      <4> QED
        BY <1>5, <1>6, <1>7
    <3>3. ASSUME NEW i \in 1..Len(b2)
          PROVE  b2[i] = g2[Len(g2) - Len(b2) + i]
      <4> HIDE DEF b, g
      <4>1. CASE i = Len(b) - n + 1
        BY <4>1, <1>5, <1>6, <1>7
      <4>2. CASE i \in 1..(Len(b) - n)
        <5>1. /\ Len(g) - (Len(b) - n) + i \in 1..Len(g)
              /\ Len(g2) - Len(b2) + i = Len(g) - (Len(b) - n) + i
          BY <4>2, <1>5, <1>6, <1>7
        <5> QED
          BY <4>2, <5>1, <1>6, <1>7
      <4>3. i \in 1..(Len(b) - n + 1)
        BY <1>6
      <4>4. i \in 1..(Len(b) - n) \/ i = Len(b) - n + 1
        BY <4>3, <1>5
      <4> QED
        BY <4>1, <4>2, <4>4
    <3> HIDE DEF b2, g2
    <3> QED
      BY <3>1, <3>2, <3>3
  <2>2. CASE k # key
    BY <2>2, <1>9 DEF IInv, BucketIsTail, Forgotten
  <2> QED
    BY <2>1, <2>2
<1>11. BucketBounded'
  <2> SUFFICES ASSUME NEW k \in Keys
               PROVE  Len(buckets'[k]) <= Config(k[1]).max_alerts
    BY DEF BucketBounded
  <2>1. CASE k = key
    <3>1. Len(buckets'[k]) = Len(b) - n + 1
      BY <2>1, <1>6, <1>9
    <3> HIDE DEF b, max
    <3>2. Len(b) - n + 1 <= max
      BY <1>1, <1>5
    <3> QED
      BY <3>1, <3>2, <2>1 DEF max
  <2>2. CASE k # key
    BY <2>2, <1>9 DEF IInv, BucketBounded
  <2> QED
    BY <2>1, <2>2
<1>12. GrantsSkewed'
  <2> SUFFICES ASSUME NEW k \in Keys, NEW j \in 1..Len(granted'[k])
               PROVE  /\ granted'[k][j] <= clock'
                      /\ \A i \in 1..(j - 1) : granted'[k][i] <= granted'[k][j] + MaxSkew
    BY DEF GrantsSkewed
  <2>1. ASSUME NEW m \in 1..Len(granted[k])
        PROVE  /\ granted[k][m] <= clock' /\ granted[k][m] <= ts + MaxSkew
               /\ \A i \in 1..(m - 1) : granted[k][i] <= granted[k][m] + MaxSkew
    <3>1. /\ granted[k][m] <= clock
          /\ \A i \in 1..(m - 1) : granted[k][i] <= granted[k][m] + MaxSkew
      BY DEF IInv, GrantsSkewed
    <3>2. granted[k][m] \in Int /\ clock \in Nat
      BY <1>4
    <3> QED
      BY <3>1, <3>2, <1>2, Numbers
  <2>2. CASE k # key
    BY <2>1, <2>2, <1>9
  <2>3. CASE k = key /\ j \in 1..Len(g)
    <3>1. granted'[k] = Append(g, ts)
      BY <2>3, <1>9
    <3>2. \A i \in 1..j : Append(g, ts)[i] = granted[k][i]
      BY <2>3, <1>5, <1>7
    <3> QED
      BY <2>1, <2>3, <3>1, <3>2
  <2>4. CASE k = key /\ j = Len(g) + 1
    <3>1. granted'[k] = Append(g, ts)
      BY <2>4, <1>9
    <3>2. \A i \in 1..(j - 1) : Append(g, ts)[i] = granted[k][i] /\ i \in 1..Len(granted[k])
      BY <2>4, <1>5, <1>7
    <3> QED
      BY <2>1, <2>4, <3>1, <3>2, <1>2, <1>7
  <2>5. k = key => j \in 1..Len(g) \/ j = Len(g) + 1
    <3>1. k = key => j \in 1..(Len(g) + 1)
      BY <1>7, <1>9
    <3> HIDE DEF g
    <3> QED
      BY <3>1, <1>5
  <2> QED
    BY <2>2, <2>3, <2>4, <2>5
<1>13. ForgottenExpired'
  <2> SUFFICES ASSUME NEW k \in Keys,
                      NEW j \in 1..(Len(granted'[k]) - Len(buckets'[k]))
               PROVE  granted'[k][j] + Window(k[1]) < clock'
    BY DEF ForgottenExpired, Forgotten
  <2>1. CASE k = key
    <3>1. Len(granted'[k]) - Len(buckets'[k]) = Len(g) - (Len(b) - n)
      <4>1. Len(granted'[k]) = Len(g) + 1 /\ Len(buckets'[k]) = Len(b) - n + 1
        BY <2>1, <1>6, <1>7, <1>9
      <4> HIDE DEF b, g
      <4> QED
        BY <4>1, <1>5
    <3>2. j \in 1..Len(g)
      <4>1. j \in 1..(Len(g) - (Len(b) - n))
        BY <3>1
      <4> HIDE DEF b, g
      <4> QED
        BY <4>1, <1>5
    <3> QED
      BY <2>1, <3>1, <3>2, <1>3, <1>7, <1>9
  <2>2. CASE k # key
    <3>1. j \in 1..Forgotten(k)
      BY <2>2, <1>9 DEF Forgotten
    <3>2. j \in 1..Len(granted[k])
      <4>1. Len(buckets[k]) \in Nat /\ Len(granted[k]) \in Nat
        BY KeyFacts
      <4>2. j \in 1..(Len(granted[k]) - Len(buckets[k]))
        BY <3>1 DEF Forgotten
      <4> QED
        BY <4>1, <4>2
    <3>3. granted[k][j] + Window(k[1]) < clock
      BY <3>1 DEF IInv, ForgottenExpired
    <3> QED
      BY <2>2, <3>3, <3>2, <1>2, <1>4, <1>9
  <2> QED
    BY <2>1, <2>2
<1>14. RateLimited'
  <2> SUFFICES ASSUME NEW k \in Keys, NEW i \in 1..Len(granted'[k]), NEW j \in 1..Len(granted'[k]),
                      i + Config(k[1]).max_alerts <= j
               PROVE  granted'[k][i] + Window(k[1]) < granted'[k][j] + MaxSkew
    BY DEF RateLimited
  <2>1. CASE k # key
    BY <2>1, <1>9 DEF IInv, RateLimited
  <2>2. CASE k = key /\ j \in 1..Len(g)
    <3>1. i \in 1..Len(g)
      <4>1. i \in Nat \ {0}
        OBVIOUS
      <4> HIDE DEF g, max
      <4> QED
        BY <2>2, <4>1, <1>5 DEF max
    <3>2. g[i] + Window(r) < g[j] + MaxSkew
      BY <2>2, <3>1 DEF IInv, RateLimited
    <3> QED
      BY <2>2, <3>1, <3>2, <1>7, <1>9
  <2>3. CASE k = key /\ j = Len(g) + 1
    <3>1. i \in 1..(Len(g) - (Len(b) - n)) /\ i \in 1..Len(g)
      <4>1. i + max <= Len(g) + 1 /\ i \in Nat \ {0}
        BY <2>3
      <4> HIDE DEF b, g, max
      <4> QED
        BY <4>1, <1>1, <1>5
    <3>2. g[i] + Window(r) < clock'
      BY <3>1, <1>3
    <3>3. clock' <= ts + MaxSkew
      BY <1>2, Numbers, KeyFacts DEF Grant, Called
    <3>4. g[i] \in Int /\ Window(r) \in Nat
      BY <3>1, <1>4
    <3>5. g[i] + Window(r) < ts + MaxSkew
      <4> HIDE DEF g, r
      <4> QED
        BY <3>2, <3>3, <3>4, <1>2, Numbers
    <3> QED
      BY <2>3, <3>1, <3>5, <1>7, <1>9
  <2>4. k = key => j \in 1..Len(g) \/ j = Len(g) + 1
    <3>1. k = key => j \in 1..(Len(g) + 1)
      BY <1>7, <1>9
    <3> HIDE DEF g
    <3> QED
      BY <3>1, <1>5
  <2> QED
    BY <2>1, <2>2, <2>3, <2>4
<1>15. DeniedOnlyWhenBusy'
  BY <1>2 DEF DeniedOnlyWhenBusy
<1> QED
  BY <1>8, <1>10, <1>11, <1>12, <1>13, <1>14, <1>15 DEF IInv

LEMMA StepInv == IInv /\ [Next]_vars => IInv'
<1> SUFFICES ASSUME IInv, [Next]_vars PROVE IInv'
  OBVIOUS
<1>1. ASSUME NEW key \in Keys, NEW ts \in Timestamps, Off(key, ts)
      PROVE  IInv'
  BY <1>1, OffInv
<1>2. ASSUME NEW key \in Keys, NEW ts \in Timestamps, Deny(key, ts)
      PROVE  IInv'
  BY <1>2, DenyInv
<1>3. ASSUME NEW key \in Keys, NEW ts \in Timestamps, Grant(key, ts)
      PROVE  IInv'
  BY <1>3, GrantInv
<1>4. CASE UNCHANGED vars
  BY <1>4 DEF vars, IInv, TypeOK, BucketIsTail, BucketBounded, GrantsSkewed,
              ForgottenExpired, Forgotten, RateLimited, DeniedOnlyWhenBusy
<1> QED
  BY <1>1, <1>2, <1>3, <1>4 DEF Next

\* The inductive invariant holds of every behaviour of the suppressor.
THEOREM SuppressorInvariant == Spec => []IInv
<1> QED
  BY InitInv, StepInv, PTL DEF Spec

\* allow() keeps a well-formed bucket per (rule, pid), whatever the limits.
THEOREM SuppressorTypeOK == Spec => []TypeOK
<1>1. IInv => TypeOK
  BY DEF IInv
<1> QED
  BY <1>1, SuppressorInvariant, PTL

\* Of any max_alerts + 1 grants of a (rule, pid) the last is more than a window,
\* shortened by the skew between CPUs, after the first, for every limit, window, skew and width of u64.
THEOREM RateLimitHolds == Spec => []RateLimited
<1>1. IInv => RateLimited
  BY DEF IInv
<1> QED
  BY <1>1, SuppressorInvariant, PTL

\* An alert is suppressed only if max_alerts grants of its rule and pid lie in
\* its window, lengthened by the skew.
THEOREM NoGroundlessDenial == Spec => []DeniedOnlyWhenBusy
<1>1. IInv => DeniedOnlyWhenBusy
  BY DEF IInv
<1> QED
  BY <1>1, SuppressorInvariant, PTL

\* A bucket never holds more timestamps than its rule allows alerts.
THEOREM BucketsBounded == Spec => []BucketBounded
<1>1. IInv => BucketBounded
  BY DEF IInv
<1> QED
  BY <1>1, SuppressorInvariant, PTL

-----------------------------------------------------------------------------
(* The refinement: bucket and cutoff decide as the sliding window does.    *)

\* A set of positions from m on, in a sequence of length n, has at most
\* n - m + 1 members; one that has all of them has as many.
LEMMA Positions ==
  ASSUME NEW m \in Int, NEW n \in Nat, m <= n + 1, NEW S \in SUBSET (1..n)
  PROVE  /\ Cardinality(S) \in Nat
         /\ S \subseteq m..n => Cardinality(S) <= n - m + 1
         /\ m..n \subseteq S => Cardinality(S) >= n - m + 1
<1>1. IsFiniteSet(m..n) /\ Cardinality(m..n) = n - m + 1
  BY FS_Interval
<1>2. IsFiniteSet(1..n)
  BY FS_Interval
<1>3. IsFiniteSet(S)
  BY <1>2, FS_Subset
<1>4. Cardinality(S) \in Nat
  BY <1>3, FS_CardinalityType
<1>5. ASSUME S \subseteq m..n PROVE Cardinality(S) <= n - m + 1
  <2>1. Cardinality(S) <= Cardinality(m..n)
    BY <1>1, <1>5, FS_Subset
  <2> QED
    BY <2>1, <1>1
<1>6. ASSUME m..n \subseteq S PROVE Cardinality(S) >= n - m + 1
  <2>1. Cardinality(m..n) <= Cardinality(S)
    BY <1>3, <1>6, FS_Subset
  <2> QED
    BY <2>1, <1>1, <1>4
<1> QED
  BY <1>4, <1>5, <1>6

\* The cardinality that the instance of SlidingWindow speaks of is the usual one.
LEMMA SameCardinality ==
  ASSUME NEW S PROVE Exact!Cardinality(S) = Cardinality(S)
BY DEF Exact!Cardinality, Cardinality

\* What a grant leaves in the shortened window is still in the bucket, whose
\* newest entry is the grant itself.
LEMMA GrantIsAllow ==
  ASSUME IInv, IInv', NEW key \in Keys, NEW ts \in Timestamps, Grant(key, ts)
  PROVE  Exact!Allow(key, ts)
<1> DEFINE g == granted[key]  w == Window(key[1])  max == Config(key[1]).max_alerts
           f == Len(granted'[key]) - Len(buckets'[key])
           S == Exact!Within(key, ts, w - MaxSkew)
<1>1. /\ granted' = [granted EXCEPT ![key] = Append(g, ts)]
      /\ ts + MaxSkew >= clock
      /\ clock' = IF ts > clock THEN ts ELSE clock
      /\ lastCall' = [outcome |-> "granted", key |-> key, ts |-> ts]
  BY DEF Grant, Called
<1>2. /\ g \in Seq(Timestamps) /\ Len(g) \in Nat /\ w \in Nat /\ max \in Nat
      /\ DOMAIN g = 1..Len(g)
      /\ \A i \in 1..Len(g) : g[i] \in Int
  BY KeyFacts, ConfigType
<1>3. /\ granted'[key] = Append(g, ts)
      /\ Len(granted'[key]) = Len(g) + 1
      /\ \A i \in 1..Len(g) : granted'[key][i] = g[i]
  BY <1>1, <1>2 DEF IInv, TypeOK
<1>4. /\ Len(buckets'[key]) <= max /\ Len(buckets'[key]) \in Nat
      /\ Len(buckets'[key]) <= Len(granted'[key])
      /\ \A j \in 1..f : granted'[key][j] + w < clock'
  BY DEF IInv, TypeOK, BucketBounded, BucketIsTail, ForgottenExpired, Forgotten
<1>5. ts \in Int /\ clock \in Int /\ MaxSkew \in Nat
  BY Numbers DEF IInv, TypeOK
<1>6. f \in Nat /\ f <= Len(g) + 1 /\ Len(g) - f < max
  <2> DEFINE b == Len(buckets'[key])  n == Len(granted'[key])
  <2>1. b \in Nat /\ n \in Nat /\ b <= max /\ b <= n /\ n = Len(g) + 1
    BY <1>2, <1>3, <1>4
  <2>2. f = n - b
    OBVIOUS
  <2> HIDE DEF b, n, f, g, max
  <2> QED
    BY <2>1, <2>2, <1>2
<1>7. S \subseteq 1..Len(g) /\ S \subseteq (f + 1)..Len(g)
  <2> SUFFICES ASSUME NEW i \in 1..Len(g), g[i] + (w - MaxSkew) >= ts
               PROVE  i \in (f + 1)..Len(g)
    BY <1>2 DEF Exact!Within
  <2>1. ~ (i \in 1..f)
    <3> SUFFICES ASSUME i \in 1..f PROVE FALSE
      OBVIOUS
    <3>1. g[i] + w < clock' /\ g[i] \in Int
      BY <1>2, <1>3, <1>4
    <3>2. clock' <= ts + MaxSkew /\ clock' \in Int
      BY <1>1, <1>5
    <3> HIDE DEF g, w
    <3> QED
      BY <3>1, <3>2, <1>2, <1>5
  <2> HIDE DEF f, g
  <2> QED
    BY <2>1, <1>2, <1>6
<1>8. Cardinality(S) < max
  <2>1. CASE f <= Len(g)
    <3>1. Cardinality(S) <= Len(g) - (f + 1) + 1 /\ Cardinality(S) \in Nat
      <4> HIDE DEF S, f, g
      <4> QED
        <5>1. f + 1 \in Int /\ f + 1 <= Len(g) + 1
          BY <1>2, <1>6, <2>1
        <5> QED
          BY <5>1, <1>2, <1>7, Positions
    <3> HIDE DEF S, f, g, max
    <3> QED
      BY <3>1, <1>2, <1>6
  <2>2. CASE f = Len(g) + 1
    <3>1. S = {}
      <4> HIDE DEF S, f, g
      <4> QED
        BY <1>2, <1>7, <2>2
    <3>2. Cardinality(S) = 0
      BY <3>1, FS_EmptySet
    <3>3. max # 0
      BY DEF Grant, Limit
    <3> HIDE DEF S, max
    <3> QED
      BY <3>2, <3>3, <1>2
  <2> HIDE DEF S, f, g, max
  <2> QED
    BY <2>1, <2>2, <1>2, <1>6
<1> QED
  BY <1>1, <1>8, SameCardinality DEF Exact!Allow

\* max_alerts grants lie in the lengthened window when a call is denied.
LEMMA DenyIsRefuse ==
  ASSUME IInv, IInv', NEW key \in Keys, NEW ts \in Timestamps, Deny(key, ts)
  PROVE  Exact!Refuse(key, ts)
<1> DEFINE g == granted[key]  w == Window(key[1])  max == Config(key[1]).max_alerts
           S == Exact!Within(key, ts, w + MaxSkew)
<1>1. /\ UNCHANGED granted
      /\ lastCall' = [outcome |-> "denied", key |-> key, ts |-> ts]
  BY DEF Deny, Called
<1>2. /\ Len(g) \in Nat /\ w \in Nat /\ max \in Nat
      /\ \A i \in 1..Len(g) : g[i] \in Int
  BY KeyFacts, ConfigType
<1>3. /\ Len(g) >= max
      /\ \A i \in (Len(g) - max + 1)..Len(g) : g[i] + w + MaxSkew >= ts
  BY <1>1 DEF IInv, DeniedOnlyWhenBusy
<1>4. S \subseteq 1..Len(g)
  BY <1>2, KeyFacts DEF Exact!Within
<1>5. (Len(g) - max + 1)..Len(g) \subseteq S
  <2> SUFFICES ASSUME NEW i \in (Len(g) - max + 1)..Len(g)
               PROVE  i \in DOMAIN g /\ g[i] + (w + MaxSkew) >= ts
    BY DEF Exact!Within
  <2>1. i \in 1..Len(g) /\ DOMAIN g = 1..Len(g)
    <3>1. g \in Seq(Timestamps)
      BY KeyFacts
    <3> HIDE DEF g, max
    <3> QED
      BY <3>1, <1>2, <1>3
  <2>2. g[i] + w + MaxSkew >= ts /\ g[i] \in Int
    BY <2>1, <1>2, <1>3
  <2> HIDE DEF g, w
  <2> QED
    BY <2>1, <2>2, <1>2, Numbers
<1>6. Cardinality(S) >= max
  <2> HIDE DEF S, g, max
  <2>1. Len(g) - max + 1 \in Int /\ Len(g) - max + 1 <= Len(g) + 1
    BY <1>2
  <2>2. Cardinality(S) >= Len(g) - (Len(g) - max + 1) + 1
    BY <2>1, <1>2, <1>4, <1>5, Positions
  <2> QED
    BY <2>2, <1>2
<1> QED
  BY <1>1, <1>6, SameCardinality DEF Exact!Refuse

\* With max_alerts = 0 every call is refused, whatever the window holds.
LEMMA OffIsRefuse ==
  ASSUME IInv, NEW key \in Keys, NEW ts \in Timestamps, Off(key, ts)
  PROVE  Exact!Refuse(key, ts)
<1> DEFINE g == granted[key]  S == Exact!Within(key, ts, Window(key[1]) + MaxSkew)
<1>1. /\ UNCHANGED granted
      /\ lastCall' = [outcome |-> "off", key |-> key, ts |-> ts]
      /\ Config(key[1]).max_alerts = 0
  BY KeyFacts, ConfigType DEF Off, Called
<1>2. S \in SUBSET (1..Len(g)) /\ IsFiniteSet(1..Len(g))
  <2>1. DOMAIN g = 1..Len(g) /\ Len(g) \in Nat
    BY KeyFacts
  <2> QED
    BY <2>1, FS_Interval DEF Exact!Within
<1>3. Cardinality(S) >= 0
  <2>1. IsFiniteSet(S)
    BY <1>2, FS_Subset
  <2> QED
    BY <2>1, FS_CardinalityType
<1> QED
  BY <1>1, <1>3, SameCardinality DEF Exact!Refuse

\* Every call of allow() is a step of the sliding window: a grant when fewer
\* than max_alerts grants lie in the window shortened by the skew, a refusal
\* when that many lie in the window lengthened by it.  With MaxSkew = 0 the two
\* windows are one, and the bucket decides exactly as the full history does.
THEOREM SuppressorIsSlidingWindow == Spec => ImplementsSlidingWindow
<1>1. Init => Exact!Init
  BY DEF Init, Exact!Init
<1>2. IInv /\ IInv' /\ [Next]_vars => [Exact!Next]_(Exact!vars)
  <2> SUFFICES ASSUME IInv, IInv', [Next]_vars
               PROVE  Exact!Next \/ UNCHANGED Exact!vars
    OBVIOUS
  <2>1. ASSUME NEW key \in Keys, NEW ts \in Timestamps,
               Off(key, ts) \/ Deny(key, ts) \/ Grant(key, ts)
        PROVE  Exact!Next
    <3>1. Exact!Allow(key, ts) \/ Exact!Refuse(key, ts)
      BY <2>1, OffIsRefuse, DenyIsRefuse, GrantIsAllow
    <3> QED
      BY <3>1 DEF Exact!Next
  <2>2. CASE UNCHANGED vars
    BY <2>2 DEF vars, Exact!vars
  <2> QED
    BY <2>1, <2>2 DEF Next
<1> QED
  BY <1>1, <1>2, SuppressorInvariant, PTL DEF Spec, ImplementsSlidingWindow, Exact!Spec
=============================================================================
