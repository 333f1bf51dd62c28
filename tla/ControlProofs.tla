----------------------------- MODULE ControlProofs ----------------------------
(***************************************************************************)
(* Who may go on, how fast, and what is kept: the rate limiter, the smart  *)
(* scheduler, the server table and the limits of the API keys; then the    *)
(* stored records and their index, the file of the API keys, and the       *)
(* configuration that wires the providers to the storage.  For all         *)
(* servers, keys, domains, goroutines, rates, bursts, windows and seconds. *)
(***************************************************************************)
EXTENDS RateLimiter, SmartScheduler, ServerTable, KeyLimits, History, ApiKeys, Setup,
        SequenceTheorems, TLAPS
------------------------------------------------------------------------------
(***************************************************************************)
(* The rate limiter holds its rates over every stretch of time; the smart  *)
(* scheduler, whose limiter is such a bucket, leaves a server alone as     *)
(* long as its refusals ask for, and stays within its bounds.              *)
(***************************************************************************)
(* What the bucket owes: what it gave since a second until it was last      *)
(* asked, together with what it holds, is covered by a full bucket and the  *)
(* refills between the two.                                                 *)
BucketsKept ==
  \A b \in Buckets :
    /\ bucket[b].rate = Rate(b) /\ bucket[b].capacity = Capacity(Rate(b), BurstSize)
    /\ bucket[b].tokens <= bucket[b].capacity
    /\ bucket[b].last <= now

Covered(b, t) ==
  /\ t <= bucket[b].last => Unit * granted[b][t] + bucket[b].tokens
                              <= bucket[b].capacity + bucket[b].rate * (bucket[b].last - t)
  /\ t > bucket[b].last => granted[b][t] = 0

LimiterInv ==
  /\ LimiterTypeOK
  /\ BucketsKept
  /\ \A b \in Buckets : \A t \in Time : Covered(b, t)
-----------------------------------------------------------------------------
(* Rates and capacities are numbers of parts.                               *)
LEMMA RateNat ==
  ASSUME NEW b \in Buckets
  PROVE  Rate(b) \in Nat /\ Capacity(Rate(b), BurstSize) \in Nat
BY LimiterAssumption, BucketAssumption DEF Buckets, Rate, Capacity

(* A bucket that is asked is filled up to now, never above its capacity, and *)
(* loses a token if it grants one.                                           *)
LEMMA DrawnBucket ==
  ASSUME NEW b \in Bucket, now \in Time, b.last <= now, b.tokens <= b.capacity
  PROVE  /\ Drawn(b) \in Bucket
         /\ Drawn(b).rate = b.rate /\ Drawn(b).capacity = b.capacity
         /\ Drawn(b).last = now /\ Drawn(b).tokens <= b.capacity
         /\ Drawn(b).tokens + (IF Grants(b) THEN Unit ELSE 0)
              <= b.tokens + b.rate * (now - b.last)
         /\ Drawn(b).tokens + (IF Grants(b) THEN Unit ELSE 0) <= b.capacity
<1>1. now \in Nat /\ b.last \in Nat /\ now - b.last \in Nat
  BY BucketAssumption DEF Bucket, Time
<1>2. b.rate * (now - b.last) \in Nat
  <2>1. \A m, n \in Nat : m * n \in Nat
    OBVIOUS
  <2> QED
    BY <1>1, <2>1 DEF Bucket
<1>3. /\ Refilled(b) \in Nat /\ Refilled(b) <= b.capacity
      /\ Refilled(b) <= b.tokens + b.rate * (now - b.last)
  BY <1>2 DEF Refilled, Bucket
<1> DEFINE left == IF Grants(b) THEN Refilled(b) - Unit ELSE Refilled(b)
<1>4. left \in Nat /\ left + (IF Grants(b) THEN Unit ELSE 0) = Refilled(b)
  BY <1>3, BucketAssumption DEF Grants
<1>5. Drawn(b) = [tokens |-> left, last |-> now, rate |-> b.rate, capacity |-> b.capacity]
  <2>1. Drawn(b) = [b EXCEPT !.tokens = left, !.last = now]
    BY DEF Drawn
  <2> HIDE DEF left
  <2> QED
    BY <2>1, <1>4 DEF Bucket
<1> HIDE DEF left
<1> QED
  BY <1>3, <1>4, <1>5, BucketAssumption DEF Bucket

(* The limiter begins with full buckets that have given nothing.            *)
LEMMA LimiterBegins == LimiterInit => LimiterInv
<1> SUFFICES ASSUME LimiterInit PROVE LimiterInv
  OBVIOUS
<1>1. now = 0 /\ 0 \in Time
  BY BucketAssumption DEF LimiterInit, Time
<1>2. ASSUME NEW b \in Buckets
      PROVE  /\ bucket[b].tokens = Capacity(Rate(b), BurstSize) /\ bucket[b].last = 0
             /\ bucket[b].rate = Rate(b)
             /\ bucket[b].capacity = Capacity(Rate(b), BurstSize)
  BY <1>1 DEF LimiterInit, NewBucket
<1>3. LimiterTypeOK
  BY <1>1, RateNat DEF LimiterInit, LimiterTypeOK, Bucket, NewBucket
<1>4. BucketsKept
  <2> SUFFICES ASSUME NEW b \in Buckets
               PROVE  /\ bucket[b].rate = Rate(b)
                      /\ bucket[b].capacity = Capacity(Rate(b), BurstSize)
                      /\ bucket[b].tokens <= bucket[b].capacity
                      /\ bucket[b].last <= now
    BY DEF BucketsKept
  <2> QED
    BY <1>1, <1>2, RateNat
<1>5. ASSUME NEW b \in Buckets, NEW t \in Time PROVE Covered(b, t)
  <2>1. granted[b][t] = 0
    BY DEF LimiterInit
  <2>2. t <= bucket[b].last => t = 0
    BY <1>2, BucketAssumption DEF Time
  <2> QED
    BY <1>2, <2>1, <2>2, RateNat, BucketAssumption DEF Covered
<1> QED
  BY <1>3, <1>4, <1>5 DEF LimiterInv

(* Every call, and the passing of time, keeps the invariant.                *)
LEMMA LimiterKeeps == LimiterInv /\ [LimiterNext]_limiter => LimiterInv'
<1> SUFFICES ASSUME LimiterInv, [LimiterNext]_limiter PROVE LimiterInv'
  OBVIOUS
<1> USE DEF LimiterInv
<1>1. CASE Tick /\ UNCHANGED limits
  <2>1. now' \in Time /\ now' = now + 1 /\ now \in Nat
    BY <1>1, BucketAssumption DEF Tick, Time, LimiterTypeOK
  <2>2. LimiterTypeOK'
    BY <1>1, <2>1 DEF limits, LimiterTypeOK
  <2>3. BucketsKept'
    BY <1>1, <2>1 DEF limits, BucketsKept, LimiterTypeOK, Bucket, Time
  <2>4. (\A b \in Buckets : \A t \in Time : Covered(b, t))'
    BY <1>1 DEF limits, Covered
  <2> QED
    BY <2>2, <2>3, <2>4
<1>2. ASSUME NEW s \in Servers, Allow(s) PROVE LimiterInv'
  <2>1. now' = now /\ now \in Time
    BY <1>2 DEF Allow, LimiterTypeOK
  <2>2. ASSUME NEW b \in Buckets
        PROVE  /\ bucket[b] \in Bucket /\ bucket[b].last <= now
               /\ bucket[b].tokens <= bucket[b].capacity
    BY DEF LimiterTypeOK, BucketsKept
  <2>3. ASSUME NEW b \in Buckets
        PROVE  bucket'[b] = IF b \in Asked(s) THEN Drawn(bucket[b]) ELSE bucket[b]
    BY <1>2 DEF Allow
  <2>4. ASSUME NEW b \in Buckets, NEW t \in Time
        PROVE  granted'[b][t] = IF b \in Asked(s) /\ Grants(bucket[b]) /\ t <= now
                                THEN granted[b][t] + 1 ELSE granted[b][t]
    BY <1>2 DEF Allow
  <2>5. LimiterTypeOK'
    <3>1. bucket' \in [Buckets -> Bucket]
      <4>1. ASSUME NEW b \in Buckets PROVE bucket'[b] \in Bucket
        BY <2>1, <2>2, <2>3, DrawnBucket
      <4> QED
        BY <1>2, <4>1 DEF Allow
    <3>2. granted' \in [Buckets -> [Time -> Nat]]
      BY <1>2 DEF Allow, LimiterTypeOK
    <3> QED
      BY <2>1, <3>1, <3>2 DEF LimiterTypeOK
  <2>6. BucketsKept'
    <3> SUFFICES ASSUME NEW b \in Buckets
                 PROVE  /\ bucket'[b].rate = Rate(b)
                        /\ bucket'[b].capacity = Capacity(Rate(b), BurstSize)
                        /\ bucket'[b].tokens <= bucket'[b].capacity
                        /\ bucket'[b].last <= now
      BY <2>1 DEF BucketsKept
    <3>1. CASE b \in Asked(s)
      <4>1. bucket'[b] = Drawn(bucket[b])
        BY <2>3, <3>1
      <4>2. now <= now
        BY <2>1, BucketAssumption DEF Time
      <4> QED
        BY <4>1, <4>2, <2>1, <2>2, DrawnBucket DEF BucketsKept
    <3>2. CASE b \notin Asked(s)
      BY <2>3, <3>2 DEF BucketsKept
    <3> QED
      BY <3>1, <3>2
  <2>7. ASSUME NEW b \in Buckets, NEW t \in Time PROVE Covered(b, t)'
    <3>1. CASE b \in Asked(s)
      <4> DEFINE old == bucket[b]  new == Drawn(bucket[b])
                 spent == IF Grants(old) THEN Unit ELSE 0
      <4>1. /\ new.last = now /\ new.rate = old.rate /\ new.capacity = old.capacity
            /\ new \in Bucket
            /\ new.tokens + spent <= old.tokens + old.rate * (now - old.last)
            /\ new.tokens + spent <= old.capacity
        BY <2>1, <2>2, DrawnBucket
      <4>2. bucket'[b] = new
        BY <2>3, <3>1
      <4>3. /\ granted[b][t] \in Nat /\ Covered(b, t)
            /\ old \in Bucket /\ now \in Nat /\ t \in Nat /\ old.last \in Nat
            /\ spent \in Nat
        BY <2>1, <2>2, BucketAssumption DEF LimiterTypeOK, Time, Bucket
      <4>4. CASE t > now
        <5>1. granted'[b][t] = granted[b][t]
          BY <2>1, <2>4, <4>4, <4>3
        <5> QED
          BY <2>2, <4>1, <4>2, <4>3, <4>4, <5>1 DEF Covered
      <4>5. CASE t <= now
        <5>1. Unit * granted'[b][t] = Unit * granted[b][t] + spent
          BY <2>4, <3>1, <4>3, <4>5, BucketAssumption
        <5>2. CASE t <= old.last
          <6>1. Unit * granted[b][t] + old.tokens
                  <= old.capacity + old.rate * (old.last - t)
            BY <4>3, <5>2 DEF Covered
          <6>2. old.rate * (old.last - t) + old.rate * (now - old.last)
                  = old.rate * (now - t)
            BY <4>3 DEF Bucket
          <6>3. Unit * granted'[b][t] + new.tokens <= old.capacity + old.rate * (now - t)
            <7> DEFINE g == Unit * granted[b][t]
                       x == old.rate * (old.last - t)
                       y == old.rate * (now - old.last)
            <7>1. g \in Int /\ x \in Int /\ y \in Int
              BY <4>3, BucketAssumption DEF Bucket
            <7> HIDE DEF g, x, y
            <7>2. g + spent + new.tokens <= old.capacity + x + y
              BY <4>1, <4>3, <6>1, <7>1 DEF g, x, y, Bucket
            <7> QED
              BY <5>1, <6>2, <7>1, <7>2, <4>1, <4>3 DEF g, x, y, Bucket
          <6> QED
            BY <4>1, <4>2, <4>3, <4>5, <6>3 DEF Covered
        <5>3. CASE t > old.last
          <6>1. granted[b][t] = 0
            BY <4>3, <5>3 DEF Covered
          <6>2. old.rate * (now - t) \in Nat
            <7>1. \A m, n \in Nat : m * n \in Nat
              OBVIOUS
            <7>2. old.rate \in Nat /\ now - t \in Nat
              BY <4>3, <4>5 DEF Bucket
            <7> QED
              BY <7>1, <7>2
          <6>3. Unit * granted'[b][t] = spent
            BY <5>1, <6>1, <4>3, BucketAssumption
          <6>4. Unit * granted'[b][t] + new.tokens <= old.capacity + old.rate * (now - t)
            BY <4>1, <4>3, <6>2, <6>3 DEF Bucket
          <6> QED
            BY <4>1, <4>2, <4>3, <4>5, <6>4 DEF Covered
        <5> QED
          BY <4>3, <5>2, <5>3
      <4> QED
        BY <4>3, <4>4, <4>5
    <3>2. CASE b \notin Asked(s)
      <4>1. bucket'[b] = bucket[b] /\ granted'[b][t] = granted[b][t]
        BY <2>3, <2>4, <3>2
      <4> QED
        BY <4>1 DEF Covered
    <3> QED
      BY <3>1, <3>2
  <2> QED
    BY <2>5, <2>6, <2>7
<1>3. CASE UNCHANGED limiter
  BY <1>3 DEF limiter, limits, LimiterTypeOK, BucketsKept, Covered
<1> QED
  BY <1>1, <1>2, <1>3 DEF LimiterNext

(* The invariant covers what RateHeld allows: since the bucket was last     *)
(* asked it has given nothing.                                              *)
LEMMA InvRateHeld == LimiterInv => RateHeld
<1> SUFFICES ASSUME LimiterInv, NEW b \in Buckets, NEW t \in 0 .. now
             PROVE  Unit * granted[b][t]
                      <= Capacity(Rate(b), BurstSize) + Rate(b) * (now - t)
  BY DEF RateHeld
<1>1. /\ t \in Time /\ t \in Nat /\ now \in Nat /\ t <= now
      /\ bucket[b] \in Bucket /\ bucket[b].last \in Nat /\ bucket[b].last <= now
      /\ granted[b][t] \in Nat /\ Covered(b, t)
      /\ bucket[b].rate = Rate(b) /\ bucket[b].capacity = Capacity(Rate(b), BurstSize)
  BY BucketAssumption DEF LimiterInv, LimiterTypeOK, BucketsKept, Time, Bucket
<1>2. \A m, n \in Nat : m * n \in Nat
  OBVIOUS
<1>3. Rate(b) * (now - t) \in Nat /\ Rate(b) * (now - bucket[b].last) \in Nat
  BY <1>1, <1>2, RateNat
<1>4. CASE t <= bucket[b].last
  <2>1. Rate(b) * (bucket[b].last - t) + Rate(b) * (now - bucket[b].last)
          = Rate(b) * (now - t)
    BY <1>1, RateNat
  <2> DEFINE g == Unit * granted[b][t]
             x == Rate(b) * (bucket[b].last - t)
             y == Rate(b) * (now - bucket[b].last)
             z == Rate(b) * (now - t)
             cap == Capacity(Rate(b), BurstSize)
  <2>2. /\ g \in Int /\ x \in Int /\ y \in Nat /\ z \in Nat /\ cap \in Nat
        /\ bucket[b].tokens \in Nat /\ x + y = z /\ g + bucket[b].tokens <= cap + x
    BY <1>1, <1>3, <1>4, <2>1, RateNat, BucketAssumption DEF Covered, Bucket
  <2> HIDE DEF g, x, y, z, cap
  <2>3. g <= cap + z
    BY <2>2
  <2> QED
    BY <2>3 DEF g, z, cap
<1>5. CASE t > bucket[b].last
  BY <1>1, <1>3, <1>5, RateNat, BucketAssumption DEF Covered
<1> QED
  BY <1>1, <1>4, <1>5
-----------------------------------------------------------------------------
(* Any configuration of the limiter holds its rates: over every stretch of  *)
(* time no bucket grants more than its capacity and its refills, although   *)
(* refused calls draw from the global bucket too.                           *)
THEOREM RatesHold == LimiterSpec => []RateHeld
<1>1. LimiterSpec => []LimiterInv
  BY LimiterBegins, LimiterKeeps, PTL DEF LimiterSpec
<1> QED
  BY <1>1, InvRateHeld, PTL
-----------------------------------------------------------------------------
(* The scheduler.  Where back-offs grow, a refusal never asks for more than  *)
(* the back-off from now on, which never shrinks until the owner ends it: so *)
(* the next refusal asks for no less.                                       *)
BackoffReaches ==
  BackoffGrows =>
    \A s \in Scheduled : /\ server[s].backoff <= BackoffMax
                         /\ refused[s] <= server[s].nextAllowed
                         /\ refused[s] <= now + server[s].backoff

SchedulerInv == SchedulerTypeOK /\ adaptive.last <= now /\ BackoffReaches

LEMMA Percent ==
  ASSUME NEW i \in Nat, NEW p \in 1 .. 100
  PROVE  /\ (i * (100 + p)) \div 100 \in Nat /\ (i * (100 + p)) \div 100 >= i
         /\ (i * (200 - p)) \div 200 \in Nat /\ (i * (200 - p)) \div 200 <= i
<1>1. \A m, n \in Nat : m * n \in Nat
  OBVIOUS
<1>2. PICK q \in Nat : q = i * p
  BY <1>1
<1>3. i * (100 + p) = 100 * i + q
  BY <1>2
<1>4. i * (200 - p) = 200 * i - q /\ 200 * i - q \in Nat
  <2>1. i * (200 - p) = 200 * i - q
    BY <1>2
  <2>2. 200 - p \in Nat
    OBVIOUS
  <2> QED BY <1>1, <2>1, <2>2
<1>5. (100 * i + q) \div 100 \in Nat /\ (100 * i + q) \div 100 >= i
  OBVIOUS
<1>6. (200 * i - q) \div 200 \in Nat /\ (200 * i - q) \div 200 <= i
  BY <1>4
<1> QED BY <1>3, <1>4, <1>5, <1>6

(* A multiplier that is not below one never shortens.                       *)
LEMMA Grown ==
  ASSUME NEW b \in Nat, NEW p \in Nat
  PROVE  /\ (b * p) \div 100 \in Nat
         /\ p >= 100 => (b * p) \div 100 >= b
<1>1. b * p \in Nat
  OBVIOUS
<1>2. (b * p) \div 100 \in Nat
  BY <1>1
<1>3. ASSUME p >= 100 PROVE (b * p) \div 100 >= b
  <2>1. PICK k \in Nat : p = 100 + k
    <3>1. p - 100 \in Nat /\ p = 100 + (p - 100)
      BY <1>3
    <3> QED BY <3>1
  <2>2. PICK q \in Nat : q = b * k
    OBVIOUS
  <2>3. b * p = 100 * b + q
    BY <2>1, <2>2
  <2>4. (100 * b + q) \div 100 >= b
    BY <2>2
  <2> QED BY <2>3, <2>4
<1> QED BY <1>2, <1>3

(* A new bucket is full, now.                                               *)
LEMMA AdaptiveIsBucket ==
  ASSUME NEW r \in Nat, now \in Time
  PROVE  /\ AdaptiveBucket(r) \in Bucket /\ AdaptiveBucket(r).rate = r
         /\ AdaptiveBucket(r).tokens <= AdaptiveBucket(r).capacity
         /\ AdaptiveBucket(r).last <= now
<1>1. (2 * r) \div Unit \in Nat
  BY BucketAssumption
<1>2. \A m, n \in Nat : m * n \in Nat
  OBVIOUS
<1>3. Capacity(r, (2 * r) \div Unit) \in Nat
  BY <1>1, <1>2, BucketAssumption DEF Capacity
<1>4. now \in Nat
  BY BucketAssumption DEF Time
<1> QED BY <1>3, <1>4 DEF AdaptiveBucket, NewBucket, Bucket

(* A rate, raised or lowered, stays in its range.                           *)
LEMMA RatesInRange ==
  ASSUME SchedulerTypeOK
  PROVE  Raised \in Rates /\ Lowered \in Rates
<1>1. /\ rate \in Nat /\ MinRate \in Nat /\ MaxRate \in Nat /\ InitialRate \in Nat
      /\ \E low \in {InitialRate, MinRate, MaxRate} : low <= rate
      /\ \E high \in {InitialRate, MinRate, MaxRate} : rate <= high
  BY SchedulerAssumption DEF SchedulerTypeOK, Rates, Between
<1>2. (rate * 11) \div 10 \in Nat /\ (rate * 11) \div 10 >= rate
  BY <1>1
<1>3. (rate * 7) \div 10 \in Nat /\ (rate * 7) \div 10 <= rate
  BY <1>1
<1>4. ASSUME NEW r \in Nat, r = rate \/ r = MaxRate \/ (rate <= r /\ r <= MaxRate)
                                        \/ r = MinRate \/ (MinRate <= r /\ r <= rate)
      PROVE  r \in Rates
  BY <1>1, <1>4 DEF Rates, Between
<1>5. /\ Raised \in Nat
      /\ Raised = rate \/ Raised = MaxRate \/ (rate <= Raised /\ Raised <= MaxRate)
  BY <1>1, <1>2 DEF Raised, AtMost
<1>6. Lowered \in Nat /\ (Lowered = MinRate \/ (MinRate <= Lowered /\ Lowered <= rate))
  BY <1>1, <1>3 DEF Lowered, AtLeast
<1> QED BY <1>4, <1>5, <1>6

(* An interval, made longer or shorter, stays in its range.                 *)
LEMMA IntervalsInRange ==
  ASSUME NEW i \in Intervals
  PROVE  Longer(i) \in Intervals /\ Shorter(i) \in Intervals
<1>1. /\ i \in Nat /\ AdaptPercent \in 1 .. 100
      /\ DefaultInterval \in Nat /\ MinInterval \in Nat /\ MaxInterval \in Nat
      /\ \E low \in {DefaultInterval, MinInterval, MaxInterval} : low <= i
      /\ \E high \in {DefaultInterval, MinInterval, MaxInterval} : i <= high
  BY SchedulerAssumption DEF Intervals, Between
<1>2. /\ (i * (100 + AdaptPercent)) \div 100 \in Nat /\ (i * (100 + AdaptPercent)) \div 100 >= i
      /\ (i * (200 - AdaptPercent)) \div 200 \in Nat /\ (i * (200 - AdaptPercent)) \div 200 <= i
  BY <1>1, Percent
<1>3. ASSUME NEW n \in Nat, n = MaxInterval \/ (i <= n /\ n <= MaxInterval)
                             \/ n = MinInterval \/ (MinInterval <= n /\ n <= i)
      PROVE  n \in Intervals
  BY <1>1, <1>3 DEF Intervals, Between
<1>4. /\ Longer(i) \in Nat
      /\ Longer(i) = MaxInterval \/ (i <= Longer(i) /\ Longer(i) <= MaxInterval)
  BY <1>1, <1>2 DEF Longer, AtMost
<1>5. /\ Shorter(i) \in Nat
      /\ Shorter(i) = MinInterval \/ (MinInterval <= Shorter(i) /\ Shorter(i) <= i)
  BY <1>1, <1>2 DEF Shorter, AtLeast
<1> QED BY <1>3, <1>4, <1>5

(* What the adaptive limiter is after a step.                               *)
Limiter ==
  /\ rate \in Rates /\ adaptive \in Bucket /\ success \in Nat /\ adjusted \in Time
  /\ adaptive.rate = rate /\ adaptive.tokens <= adaptive.capacity /\ adaptive.last <= now

LEMMA LimiterAdapts ==
  ASSUME SchedulerInv, UNCHANGED now,
         \/ \E yes \in BOOLEAN : Ask(yes)
         \/ RecordSuccess \/ RecordRateLimited \/ UNCHANGED limiting
  PROVE  Limiter'
<1>1. Limiter /\ now \in Time /\ SchedulerTypeOK
  BY DEF SchedulerInv, SchedulerTypeOK, Limiter
<1>2. /\ Raised \in Rates /\ Raised \in Nat
      /\ Lowered \in Rates /\ Lowered \in Nat
  BY <1>1, RatesInRange DEF Rates, Between
<1>3. ASSUME NEW r \in Rates, r \in Nat, SetRate(r), success' \in Nat PROVE Limiter'
  BY <1>1, <1>3, AdaptiveIsBucket DEF SetRate, Limiter
<1>4. ASSUME NEW yes \in BOOLEAN, Ask(yes) PROVE Limiter'
  <2> DEFINE b == IF Due THEN AdaptiveBucket(Raised) ELSE adaptive
             r == IF Due THEN Raised ELSE rate
  <2>1. b \in Bucket /\ b.rate = r /\ b.tokens <= b.capacity /\ b.last <= now
    BY <1>1, <1>2, AdaptiveIsBucket DEF Limiter
  <2>2. r \in Rates
    BY <1>1, <1>2 DEF Limiter
  <2>3. adaptive' = Drawn(b) /\ rate' = r /\ success' = success /\ adjusted' \in Time
    BY <1>1, <1>4 DEF Ask, Limiter
  <2> HIDE DEF b, r
  <2>4. /\ Drawn(b) \in Bucket /\ Drawn(b).rate = b.rate /\ Drawn(b).capacity = b.capacity
        /\ Drawn(b).last = now /\ Drawn(b).tokens <= b.capacity
    BY <1>1, <2>1, DrawnBucket
  <2>5. now <= now
    BY <1>1, BucketAssumption DEF Time
  <2> QED BY <1>1, <2>1, <2>2, <2>3, <2>4, <2>5 DEF Limiter
<1>5. CASE RecordSuccess
  <2>1. CASE success + 1 >= RaiseAfter
    BY <1>2, <1>3, <1>5, <2>1 DEF RecordSuccess
  <2>2. CASE ~(success + 1 >= RaiseAfter)
    BY <1>1, <1>5, <2>2 DEF RecordSuccess, Limiter
  <2> QED BY <2>1, <2>2
<1>6. CASE RecordRateLimited
  BY <1>2, <1>3, <1>6 DEF RecordRateLimited
<1>7. CASE UNCHANGED limiting
  BY <1>1, <1>7 DEF limiting, Limiter
<1> QED BY <1>4, <1>5, <1>6, <1>7
-----------------------------------------------------------------------------
LEMMA SchedulerBegins == SchedulerInit => SchedulerInv
<1> SUFFICES ASSUME SchedulerInit PROVE SchedulerInv
  OBVIOUS
<1> USE SchedulerAssumption
<1>1. now = 0 /\ now \in Time
  BY BucketAssumption DEF SchedulerInit, Time
<1>2. /\ adaptive \in Bucket /\ adaptive.rate = InitialRate
      /\ adaptive.tokens <= adaptive.capacity /\ adaptive.last <= now
  BY <1>1, AdaptiveIsBucket DEF SchedulerInit
<1>3. server \in [Scheduled -> ServerState]
  BY DEF SchedulerInit, ServerState
<1>4. SchedulerTypeOK
  <2>1. /\ rate = InitialRate /\ success = 0 /\ adjusted = 0
        /\ flying = [s \in Scheduled |-> 0] /\ refused = [s \in Scheduled |-> 0]
        /\ \A s \in Scheduled : server[s].interval = DefaultInterval
    BY DEF SchedulerInit
  <2>2. DefaultInterval \in Intervals /\ InitialRate \in Rates
    BY DEF Intervals, Rates, Between
  <2>3. flying \in [Scheduled -> 0 .. MaxFlying] /\ refused \in [Scheduled -> Nat]
    BY <2>1
  <2>4. adjusted \in Time /\ success \in Nat
    BY <1>1, <2>1 DEF SchedulerInit
  <2> QED BY <1>1, <1>2, <1>3, <2>1, <2>2, <2>3, <2>4 DEF SchedulerTypeOK
<1>5. BackoffReaches
  BY <1>1 DEF SchedulerInit, BackoffReaches
<1> QED BY <1>2, <1>4, <1>5 DEF SchedulerInv

(* What is left to show of a step once the limiter is known to be right.    *)
LEMMA SchedulerFrom ==
  ASSUME SchedulerInv, UNCHANGED now, Limiter',
         NEW s \in Scheduled, NEW v \in ServerState, NEW u \in Nat,
         server' = [server EXCEPT ![s] = v], refused' = [refused EXCEPT ![s] = u],
         flying' \in [Scheduled -> 0 .. MaxFlying],
         v.interval \in Intervals,
         BackoffGrows => v.backoff <= BackoffMax /\ u <= v.nextAllowed /\ u <= now + v.backoff
  PROVE  SchedulerInv'
<1>1. SchedulerTypeOK /\ BackoffReaches
  BY DEF SchedulerInv
<1>2. /\ server' \in [Scheduled -> ServerState] /\ refused' \in [Scheduled -> Nat]
      /\ \A x \in Scheduled : /\ server'[x] = IF x = s THEN v ELSE server[x]
                              /\ refused'[x] = IF x = s THEN u ELSE refused[x]
  BY <1>1 DEF SchedulerTypeOK
<1>3. SchedulerTypeOK'
  BY <1>1, <1>2 DEF SchedulerTypeOK, Limiter
<1>4. BackoffReaches'
  BY <1>1, <1>2 DEF BackoffReaches
<1> QED BY <1>3, <1>4 DEF SchedulerInv, Limiter

(* What the results make of the state of a server.                          *)
LEMMA StateChanged ==
  ASSUME NEW x \in ServerState, NEW f \in 0 .. UnhealthyThreshold,
         NEW b \in Nat, NEW n \in Nat, NEW i \in Nat
  PROVE  /\ [x EXCEPT !.failures = f, !.interval = i] \in ServerState
         /\ [x EXCEPT !.failures = f, !.interval = i, !.backoff = b, !.nextAllowed = n] \in ServerState
         /\ [x EXCEPT !.healthy = TRUE, !.failures = f, !.backoff = b] \in ServerState
  BY DEF ServerState

LEMMA SchedulerKeeps == SchedulerInv /\ [SchedulerNext]_<<now, scheduler>> => SchedulerInv'
<1> SUFFICES ASSUME SchedulerInv, [SchedulerNext]_<<now, scheduler>> PROVE SchedulerInv'
  OBVIOUS
<1> USE SchedulerAssumption
<1>1. SchedulerTypeOK /\ BackoffReaches /\ adaptive.last <= now
  BY DEF SchedulerInv
<1>2. now \in Nat
  BY <1>1, BucketAssumption DEF SchedulerTypeOK, Time
<1>3. ASSUME NEW s \in Scheduled
      PROVE  /\ server[s] \in ServerState /\ refused[s] \in Nat
             /\ server[s].interval \in Intervals
             /\ BackoffGrows => /\ server[s].backoff <= BackoffMax
                                /\ refused[s] <= server[s].nextAllowed
                                /\ refused[s] <= now + server[s].backoff
             /\ refused = [refused EXCEPT ![s] = refused[s]]
             /\ server = [server EXCEPT ![s] = server[s]]
             /\ Longer(server[s].interval) \in Intervals
             /\ Shorter(server[s].interval) \in Intervals
             /\ Longer(server[s].interval) \in Nat /\ Shorter(server[s].interval) \in Nat
             /\ OneMore(server[s].failures) \in 0 .. UnhealthyThreshold
  <2>1. server[s] \in ServerState /\ server[s].interval \in Intervals
    BY <1>1 DEF SchedulerTypeOK
  <2>2. /\ Longer(server[s].interval) \in Intervals
        /\ Shorter(server[s].interval) \in Intervals
    BY <2>1, IntervalsInRange
  <2>3. OneMore(server[s].failures) \in 0 .. UnhealthyThreshold
    BY <2>1 DEF ServerState, OneMore, AtMost
  <2> QED BY <1>1, <2>1, <2>2, <2>3 DEF SchedulerTypeOK, BackoffReaches, Intervals, Between
<1>4. CASE Tick /\ UNCHANGED scheduler
  <2>1. now' \in Time /\ now' = now + 1
    BY <1>1, <1>4, BucketAssumption DEF Tick, Time, SchedulerTypeOK
  <2>2. SchedulerTypeOK'
    BY <1>1, <1>4, <2>1 DEF SchedulerTypeOK, scheduler, limiting
  <2>3. BackoffReaches'
    <3> SUFFICES ASSUME BackoffGrows, NEW s \in Scheduled
                 PROVE  refused[s] <= now + 1 + server[s].backoff
      BY <1>1, <1>4, <2>1 DEF BackoffReaches, scheduler
    <3> QED BY <1>2, <1>3 DEF ServerState
  <2>4. adaptive'.last <= now'
    BY <1>1, <1>2, <1>4, <2>1, BucketAssumption DEF scheduler, limiting, SchedulerTypeOK, Bucket, Time
  <2> QED BY <2>2, <2>3, <2>4 DEF SchedulerInv
<1>5. ASSUME NEW s \in Scheduled, Schedule(s), UNCHANGED now PROVE SchedulerInv'
  <2>1. Limiter'
    BY <1>5, LimiterAdapts DEF Schedule
  <2>2. flying' \in [Scheduled -> 0 .. MaxFlying] /\ UNCHANGED <<server, refused>>
    <3>1. flying[s] \in 0 .. MaxFlying /\ flying[s] < MaxFlying /\ UNCHANGED <<server, refused>>
      BY <1>1, <1>5 DEF Schedule, SchedulerTypeOK
    <3>2. flying' = [flying EXCEPT ![s] = @ + 1]
      BY <1>5 DEF Schedule
    <3> QED BY <1>1, <3>1, <3>2 DEF SchedulerTypeOK
  <2> DEFINE v == server[s]
  <2>3. /\ server' = [server EXCEPT ![s] = v] /\ refused' = [refused EXCEPT ![s] = refused[s]]
        /\ v \in ServerState /\ v.interval \in Intervals
        /\ BackoffGrows => v.backoff <= BackoffMax /\ refused[s] <= v.nextAllowed /\ refused[s] <= now + v.backoff
        /\ refused[s] \in Nat
    BY <1>3, <2>2
  <2> HIDE DEF v
  <2> QED BY <1>5, <2>1, <2>2, <2>3, SchedulerFrom
<1>6. ASSUME NEW s \in Scheduled, Land(s) PROVE flying' \in [Scheduled -> 0 .. MaxFlying]
  BY <1>1, <1>6 DEF Land, SchedulerTypeOK
<1>7. ASSUME NEW s \in Scheduled, Succeeded(s), UNCHANGED now PROVE SchedulerInv'
  <2> DEFINE v == [server[s] EXCEPT !.failures = 0, !.interval = Shorter(@)]
  <2>1. Limiter' /\ flying' \in [Scheduled -> 0 .. MaxFlying] /\ UNCHANGED refused
    BY <1>6, <1>7, LimiterAdapts DEF Succeeded
  <2>2. server' = [server EXCEPT ![s] = v]
    BY <1>1, <1>7 DEF Succeeded, SchedulerTypeOK, ServerState
  <2>3. /\ v.interval = Shorter(server[s].interval) /\ v.backoff = server[s].backoff
        /\ v.nextAllowed = server[s].nextAllowed /\ v \in ServerState
    <3>1. server[s] \in ServerState /\ 0 \in 0 .. UnhealthyThreshold
          /\ Shorter(server[s].interval) \in Nat /\ server[s].backoff \in Nat
      BY <1>3 DEF ServerState
    <3>2. v \in ServerState
      BY <3>1, StateChanged
    <3> QED BY <3>1, <3>2 DEF ServerState
  <2> HIDE DEF v
  <2>4. /\ refused' = [refused EXCEPT ![s] = refused[s]] /\ refused[s] \in Nat
        /\ v.interval \in Intervals
        /\ BackoffGrows => v.backoff <= BackoffMax /\ refused[s] <= v.nextAllowed /\ refused[s] <= now + v.backoff
    BY <1>3, <2>1, <2>3
  <2> QED BY <1>7, <2>1, <2>2, <2>3, <2>4, SchedulerFrom
<1>8. ASSUME NEW s \in Scheduled, Refused(s), UNCHANGED now PROVE SchedulerInv'
  <2> DEFINE v == [server[s] EXCEPT !.failures = OneMore(@), !.interval = Longer(@),
                                    !.backoff = Backoff(s), !.nextAllowed = now + Backoff(s)]
             u == AtLeast(refused[s], now + Backoff(s))
  <2>1. /\ Backoff(s) \in Nat
        /\ BackoffGrows => Backoff(s) <= BackoffMax /\ server[s].backoff <= Backoff(s)
    <3> DEFINE b == server[s].backoff
               g == (b * BackoffPercent) \div 100
    <3>1. b \in Nat /\ BackoffGrows => b <= BackoffMax
      BY <1>3 DEF ServerState
    <3>a. b \in Nat
      BY <1>3 DEF ServerState
    <3>2. g \in Nat /\ (BackoffPercent >= 100 => g >= b)
      BY <3>a, Grown
    <3>3. Backoff(s) = IF b = 0 THEN BackoffInitial ELSE AtMost(BackoffMax, g)
      BY DEF Backoff
    <3> HIDE DEF b, g
    <3>4. /\ Backoff(s) \in Nat
          /\ BackoffGrows => Backoff(s) <= BackoffMax /\ b <= Backoff(s)
      BY <3>1, <3>a, <3>2, <3>3 DEF AtMost, BackoffGrows
    <3> QED BY <3>4 DEF b
  <2>2. Limiter' /\ flying' \in [Scheduled -> 0 .. MaxFlying]
    BY <1>6, <1>8, LimiterAdapts DEF Refused
  <2>3. server' = [server EXCEPT ![s] = v]
    BY <1>1, <1>8 DEF Refused, SchedulerTypeOK, ServerState
  <2>4. /\ v \in ServerState /\ v.interval = Longer(server[s].interval)
        /\ v.backoff = Backoff(s) /\ v.nextAllowed = now + Backoff(s)
    <3>1. server[s] \in ServerState /\ OneMore(server[s].failures) \in 0 .. UnhealthyThreshold
          /\ Longer(server[s].interval) \in Nat /\ now + Backoff(s) \in Nat
      BY <1>2, <1>3, <2>1
    <3>2. v \in ServerState
      BY <2>1, <3>1, StateChanged
    <3> QED BY <3>1, <3>2 DEF ServerState
  <2> HIDE DEF v
  <2>5. server'[s].backoff = Backoff(s)
    BY <1>1, <2>3, <2>4 DEF SchedulerTypeOK
  <2>6. refused' = [refused EXCEPT ![s] = u]
    BY <1>1, <1>8, <2>5 DEF Refused, SchedulerTypeOK
  <2>7. u \in Nat /\ (BackoffGrows => u = now + Backoff(s))
    BY <1>2, <1>3, <2>1 DEF AtLeast, ServerState
  <2> HIDE DEF u
  <2>8. BackoffGrows => v.backoff <= BackoffMax /\ u <= v.nextAllowed /\ u <= now + v.backoff
    BY <1>2, <2>1, <2>4, <2>7
  <2>9. v.interval \in Intervals /\ v \in ServerState
    BY <1>3, <2>1, <2>4
  <2> QED BY <1>8, <2>2, <2>3, <2>6, <2>7, <2>8, <2>9, SchedulerFrom
<1>9. ASSUME NEW s \in Scheduled, Failed(s), UNCHANGED now PROVE SchedulerInv'
  <2> DEFINE v == [server[s] EXCEPT !.failures = OneMore(@), !.interval = Longer(@),
                     !.healthy = @ /\ OneMore(server[s].failures) < UnhealthyThreshold]
  <2>1. Limiter' /\ flying' \in [Scheduled -> 0 .. MaxFlying] /\ UNCHANGED refused
    BY <1>6, <1>9, LimiterAdapts DEF Failed
  <2>2. server' = [server EXCEPT ![s] = v]
    BY <1>1, <1>9 DEF Failed, SchedulerTypeOK, ServerState
  <2>3. /\ v.interval = Longer(server[s].interval) /\ v.backoff = server[s].backoff
        /\ v.nextAllowed = server[s].nextAllowed /\ v \in ServerState
    BY <1>3 DEF ServerState
  <2> HIDE DEF v
  <2>4. /\ refused' = [refused EXCEPT ![s] = refused[s]] /\ refused[s] \in Nat
        /\ v.interval \in Intervals
        /\ BackoffGrows => v.backoff <= BackoffMax /\ refused[s] <= v.nextAllowed /\ refused[s] <= now + v.backoff
    BY <1>3, <2>1, <2>3
  <2> QED BY <1>9, <2>1, <2>2, <2>3, <2>4, SchedulerFrom
<1>10. ASSUME NEW s \in Scheduled, MarkHealthy(s), UNCHANGED now PROVE SchedulerInv'
  <2> DEFINE v == [server[s] EXCEPT !.healthy = TRUE, !.failures = 0, !.backoff = 0]
  <2>1. Limiter' /\ flying' \in [Scheduled -> 0 .. MaxFlying]
    BY <1>1, <1>10, LimiterAdapts DEF MarkHealthy, SchedulerTypeOK
  <2>2. server' = [server EXCEPT ![s] = v] /\ refused' = [refused EXCEPT ![s] = 0]
    BY <1>1, <1>10 DEF MarkHealthy, SchedulerTypeOK, ServerState
  <2>3. /\ v \in ServerState /\ v.interval = server[s].interval
        /\ v.backoff = 0 /\ v.nextAllowed \in Nat
    <3>1. server[s] \in ServerState /\ 0 \in 0 .. UnhealthyThreshold /\ 0 \in Nat
          /\ server[s].interval \in Nat
      BY <1>3 DEF ServerState
    <3>2. v \in ServerState
      BY <3>1, StateChanged
    <3> QED BY <3>1, <3>2 DEF ServerState
  <2> HIDE DEF v
  <2>4. /\ v.interval \in Intervals /\ 0 \in Nat
        /\ BackoffGrows => v.backoff <= BackoffMax /\ 0 <= v.nextAllowed /\ 0 <= now + v.backoff
    BY <1>2, <1>3, <2>3
  <2> QED BY <1>10, <2>1, <2>2, <2>3, <2>4, SchedulerFrom
<1>11. ASSUME NEW s \in Scheduled, MarkUnhealthy(s), UNCHANGED now PROVE SchedulerInv'
  <2> DEFINE v == [server[s] EXCEPT !.healthy = FALSE]
  <2>1. Limiter' /\ flying' \in [Scheduled -> 0 .. MaxFlying] /\ UNCHANGED refused
    BY <1>1, <1>11, LimiterAdapts DEF MarkUnhealthy, SchedulerTypeOK
  <2>2. server' = [server EXCEPT ![s] = v]
    BY <1>1, <1>11 DEF MarkUnhealthy, SchedulerTypeOK, ServerState
  <2>3. /\ v \in ServerState /\ v.interval = server[s].interval
        /\ v.backoff = server[s].backoff /\ v.nextAllowed = server[s].nextAllowed
    BY <1>3 DEF ServerState
  <2> HIDE DEF v
  <2>4. /\ refused' = [refused EXCEPT ![s] = refused[s]] /\ refused[s] \in Nat
        /\ v.interval \in Intervals
        /\ BackoffGrows => v.backoff <= BackoffMax /\ refused[s] <= v.nextAllowed /\ refused[s] <= now + v.backoff
    BY <1>3, <2>1, <2>3
  <2> QED BY <1>11, <2>1, <2>2, <2>3, <2>4, SchedulerFrom
<1>12. CASE UNCHANGED <<now, scheduler>>
  BY <1>1, <1>12 DEF SchedulerInv, SchedulerTypeOK, BackoffReaches, scheduler, limiting
<1> QED BY <1>4, <1>5, <1>7, <1>8, <1>9, <1>10, <1>11, <1>12 DEF SchedulerNext, SchedulerStep

(* Results may come in any order, however late: none shortens the time for  *)
(* which a refusal wants the server left alone, in every configuration      *)
(* whose back-offs grow (BackoffGrows), whatever the multiplier.            *)
THEOREM RefusalsHeeded == SchedulerSpec => []BackoffHolds
<1>1. SchedulerInv => BackoffHolds
  <2> SUFFICES ASSUME SchedulerInv, BackoffGrows, NEW s \in Scheduled
               PROVE  server[s].nextAllowed >= refused[s]
    BY DEF BackoffHolds
  <2>1. refused[s] <= server[s].nextAllowed /\ refused[s] \in Nat /\ server[s].nextAllowed \in Nat
    BY DEF SchedulerInv, BackoffReaches, SchedulerTypeOK, ServerState
  <2> QED BY <2>1
<1> QED BY <1>1, SchedulerBegins, SchedulerKeeps, PTL DEF SchedulerSpec

(* The rate and the intervals adapt within what was configured, in whatever *)
(* order the configuration has its bounds, and the types hold.              *)
THEOREM AdaptsInRange == SchedulerSpec => []SchedulerTypeOK
<1>1. SchedulerInv => SchedulerTypeOK
  BY DEF SchedulerInv
<1> QED BY <1>1, SchedulerBegins, SchedulerKeeps, PTL DEF SchedulerSpec

------------------------------------------------------------------------------
(***************************************************************************)
(* The server table diverts domains for cause only.                        *)
(***************************************************************************)
(* Each record agrees with the results of its checks, and no result is       *)
(* counted for a server without a record.                                    *)
RecordAgrees(s) ==
  /\ serverHealth[s].failures = failing[s]
  /\ serverHealth[s].healthy <=> serverHealth[s].known /\ failing[s] < MaxFailures
  /\ ~serverHealth[s].known => failing[s] = 0

CheckHasRecord(t) ==
  /\ check[t].step # "none" => check[t].server \in WhoisServers
  /\ check[t].step = "found" => serverHealth[check[t].server].known

HealthInv ==
  /\ ServerTableTypeOK
  /\ \A s \in WhoisServers : RecordAgrees(s)
  /\ \A t \in Tlds : CheckHasRecord(t)

(* Tables keep their type when they are merged.                              *)
LEMMA MergedType ==
  ASSUME NEW old \in ServerMap, NEW new \in ServerMap
  PROVE  Merged(old, new) \in ServerMap
BY DEF Merged, ServerMap

LEMMA BuiltInType == BuiltInServers \in ServerMap
<1>1. [t \in Tlds |-> NoServer] \in ServerMap BY DEF ServerMap
<1>2. DefaultServers \in ServerMap BY ServerTableAssumption DEF ServerMap
<1> QED BY <1>1, <1>2, MergedType DEF BuiltInServers

(* A file that can be parsed holds a table.                                  *)
LEMMA ParsedType == ServerTableTypeOK /\ Parses => serverFile \in ServerMap
BY DEF ServerTableTypeOK, Parses

(* The invariant holds at the start and after a restart, when nothing is     *)
(* known of any server.                                                      *)
LEMMA HealthInvInit == ServerTableInit => HealthInv
<1> SUFFICES ASSUME ServerTableInit PROVE HealthInv OBVIOUS
<1>1. ServerTableTypeOK
  BY ServerTableAssumption, BuiltInType
  DEF ServerTableInit, ServerTableTypeOK, Health, Check, NoCheck
<1>2. \A s \in WhoisServers : RecordAgrees(s)
  BY ServerTableAssumption DEF ServerTableInit, RecordAgrees
<1>3. \A t \in Tlds : CheckHasRecord(t)
  BY DEF ServerTableInit, CheckHasRecord, NoCheck
<1> QED BY <1>1, <1>2, <1>3 DEF HealthInv

LEMMA HealthInvRestart == HealthInv /\ Restart => HealthInv'
<1> SUFFICES ASSUME HealthInv, Restart PROVE HealthInv' OBVIOUS
<1> USE DEF HealthInv
<1>1. servers' \in ServerMap
  BY BuiltInType, MergedType, ParsedType DEF Restart
<1>2. ServerTableTypeOK'
  BY <1>1, ServerTableAssumption DEF Restart, ServerTableTypeOK, Health, Check, NoCheck
<1>3. \A s \in WhoisServers : RecordAgrees(s)'
  BY ServerTableAssumption DEF Restart, RecordAgrees
<1>4. \A t \in Tlds : CheckHasRecord(t)'
  BY DEF Restart, CheckHasRecord, NoCheck
<1> QED BY <1>2, <1>3, <1>4

(* The actions that touch neither records nor checks.                        *)
LEMMA HealthInvTable ==
  ASSUME HealthInv, servers' \in ServerMap, defaultServer' \in WhoisServers,
         serverFile' \in ServerMap \cup {NoFile, TornFile}, saving' \in ServerMap \cup {NoFile},
         UNCHANGED <<serverHealth, check, failing>>
  PROVE  HealthInv'
BY DEF HealthInv, ServerTableTypeOK, RecordAgrees, CheckHasRecord

LEMMA HealthInvStartRound == HealthInv /\ StartRound => HealthInv'
<1> SUFFICES ASSUME HealthInv, StartRound PROVE HealthInv' OBVIOUS
<1> USE DEF HealthInv, StartRound
<1>1. check' \in [Tlds -> Check]
  BY DEF ServerTableTypeOK, ServerMap, Check, NoCheck
<1>2. \A t \in Tlds : CheckHasRecord(t)'
  BY DEF CheckHasRecord, NoCheck, ServerTableTypeOK, ServerMap
<1> QED BY <1>1, <1>2 DEF ServerTableTypeOK, RecordAgrees

(* The first check of a server makes its record.                             *)
LEMMA HealthInvFind ==
  ASSUME HealthInv, NEW t \in Tlds, FindHealth(t) PROVE HealthInv'
<1> DEFINE s == check[t].server
<1> USE DEF HealthInv
<1>1. s \in WhoisServers /\ check[t] \in Check
  BY DEF FindHealth, CheckHasRecord, ServerTableTypeOK
<1>2. serverHealth' \in [WhoisServers -> Health]
  BY <1>1, ServerTableAssumption DEF FindHealth, ServerTableTypeOK, Health
<1>3. check' \in [Tlds -> Check]
  BY <1>1 DEF FindHealth, ServerTableTypeOK, Check
<1>4. serverHealth'[s].known /\ \A r \in WhoisServers : r # s => serverHealth'[r] = serverHealth[r]
  BY <1>1 DEF FindHealth, ServerTableTypeOK, Health
<1>5. RecordAgrees(s)'
  BY <1>1, ServerTableAssumption DEF FindHealth, RecordAgrees, ServerTableTypeOK, Health
<1>6. \A r \in WhoisServers : RecordAgrees(r)'
  BY <1>4, <1>5 DEF RecordAgrees, FindHealth
<1>7. \A u \in Tlds : CheckHasRecord(u)'
  <2> TAKE u \in Tlds
  <2>1. CASE u = t
    BY <2>1, <1>1, <1>4 DEF CheckHasRecord, FindHealth, ServerTableTypeOK, Check
  <2>2. CASE u # t
    BY <2>2, <1>4 DEF CheckHasRecord, FindHealth, ServerTableTypeOK
  <2> QED BY <2>1, <2>2
<1> QED BY <1>2, <1>3, <1>6, <1>7 DEF ServerTableTypeOK, FindHealth

(* One more failure, as far as failures are counted.                         *)
LEMMA CountedIsCapped ==
  ASSUME NEW n \in 0 .. MaxFailures PROVE Counted(n) \in 0 .. MaxFailures
BY ServerTableAssumption DEF Counted

(* A result is counted once, in the record and in the history.               *)
LEMMA HealthInvResult ==
  ASSUME HealthInv, NEW t \in Tlds, Answered(t) \/ Unanswered(t) PROVE HealthInv'
<1> USE DEF HealthInv
<1>1. PICK s \in WhoisServers :
      /\ s = check[t].server /\ serverHealth[s].known /\ serverHealth[s] \in Health
      /\ failing[s] \in 0 .. MaxFailures /\ serverHealth[s].failures = failing[s]
  BY DEF Answered, Unanswered, CheckHasRecord, RecordAgrees, ServerTableTypeOK
<1>2. Counted(failing[s]) \in 0 .. MaxFailures /\ 0 \in 0 .. MaxFailures /\ 0 < MaxFailures
  BY <1>1, CountedIsCapped, ServerTableAssumption
<1>3. PICK f \in 0 .. MaxFailures :
        /\ serverHealth' = [serverHealth EXCEPT ![s].failures = f, ![s].healthy = f < MaxFailures]
        /\ failing' = [failing EXCEPT ![s] = f]
  <2>1. CASE Answered(t)
    <3>1. (0 < MaxFailures) = TRUE BY <1>2
    <3> HIDE DEF HealthInv
    <3>2. /\ serverHealth' = [serverHealth EXCEPT ![s].failures = 0, ![s].healthy = TRUE]
          /\ failing' = [failing EXCEPT ![s] = 0]
      BY <2>1, <1>1 DEF Answered
    <3>3. serverHealth' = [serverHealth EXCEPT ![s].failures = 0, ![s].healthy = 0 < MaxFailures]
      BY <3>1, <3>2, Zenon
    <3> QED BY <3>2, <3>3, <1>2
  <2>2. CASE Unanswered(t)
    <3> HIDE DEF HealthInv
    <3> QED BY <2>2, <1>1, <1>2 DEF Unanswered
  <2> QED BY <2>1, <2>2
<1>4. /\ check' = [check EXCEPT ![t] = NoCheck]
      /\ UNCHANGED <<servers, defaultServer, serverFile, saving>>
  BY DEF Answered, Unanswered
<1>5. serverHealth' \in [WhoisServers -> Health] /\ failing' \in [WhoisServers -> 0 .. MaxFailures]
  BY <1>1, <1>3 DEF ServerTableTypeOK, Health
<1>6. check' \in [Tlds -> Check]
  BY <1>4 DEF ServerTableTypeOK, Check, NoCheck
<1>7. \A r \in WhoisServers :
        /\ serverHealth'[r].known = serverHealth[r].known
        /\ r # s => serverHealth'[r] = serverHealth[r] /\ failing'[r] = failing[r]
  BY <1>1, <1>3 DEF ServerTableTypeOK, Health
<1>8. RecordAgrees(s)'
  <2>1. /\ serverHealth'[s].failures = failing'[s] /\ serverHealth'[s].known
        /\ serverHealth'[s].healthy = (failing'[s] < MaxFailures)
    BY <1>1, <1>3 DEF ServerTableTypeOK, Health
  <2> QED BY <2>1, <1>4, <1>1 DEF RecordAgrees
<1>9. \A r \in WhoisServers : RecordAgrees(r)'
  <2> TAKE r \in WhoisServers
  <2>1. CASE r = s BY <2>1, <1>8
  <2>2. CASE r # s BY <2>2, <1>7 DEF RecordAgrees
  <2> QED BY <2>1, <2>2
<1>10. \A u \in Tlds : CheckHasRecord(u)'
  <2> TAKE u \in Tlds
  <2>1. CASE u = t
    BY <2>1, <1>4 DEF CheckHasRecord, ServerTableTypeOK, NoCheck
  <2>2. CASE u # t
    <3>1. check'[u] = check[u] BY <2>2, <1>4 DEF ServerTableTypeOK
    <3>2. check[u] \in Check BY DEF ServerTableTypeOK
    <3>3. check[u].step # "none" => check[u].server \in WhoisServers BY DEF CheckHasRecord
    <3> QED BY <3>1, <3>2, <3>3, <1>7 DEF CheckHasRecord, Check
  <2> QED BY <2>1, <2>2
<1> QED BY <1>4, <1>5, <1>6, <1>9, <1>10 DEF ServerTableTypeOK

LEMMA HealthInvNext == HealthInv /\ [ServerTableNext]_table => HealthInv'
<1> SUFFICES ASSUME HealthInv, [ServerTableNext]_table PROVE HealthInv' OBVIOUS
<1>0. ServerTableTypeOK BY DEF HealthInv
<1>1. CASE StartRound BY <1>1, HealthInvStartRound
<1>2. CASE SetDefaultServer
  BY <1>0, <1>2, HealthInvTable DEF SetDefaultServer, ServerTableTypeOK
<1>3. CASE LoadFromFile
  <2>1. servers' \in ServerMap
    BY <1>0, <1>3, MergedType, ParsedType DEF LoadFromFile, ServerTableTypeOK
  <2> QED BY <1>0, <1>3, <2>1, HealthInvTable DEF LoadFromFile, ServerTableTypeOK
<1>4. CASE ReadTable
  BY <1>0, <1>4, HealthInvTable DEF ReadTable, ServerTableTypeOK
<1>5. CASE WriteTable
  BY <1>0, <1>5, HealthInvTable DEF WriteTable, ServerTableTypeOK
<1>6. CASE Restart BY <1>6, HealthInvRestart
<1>7. ASSUME NEW t \in Tlds, FindHealth(t) PROVE HealthInv'
  BY <1>7, HealthInvFind
<1>8. ASSUME NEW t \in Tlds, Answered(t) \/ Unanswered(t) PROVE HealthInv'
  BY <1>8, HealthInvResult
<1>9. ASSUME NEW t \in Tlds, UpdateServer(t) PROVE HealthInv'
  <2>1. servers' \in ServerMap
    BY <1>0, <1>9 DEF UpdateServer, ServerTableTypeOK, ServerMap
  <2> QED BY <1>0, <1>9, <2>1, HealthInvTable DEF UpdateServer, ServerTableTypeOK
<1>10. CASE UNCHANGED table
  BY <1>0, <1>10, HealthInvTable DEF table, ServerTableTypeOK
<1> QED BY <1>1, <1>2, <1>3, <1>4, <1>5, <1>6, <1>7, <1>8, <1>9, <1>10
        DEF ServerTableNext, Discover

(* GetWhoisServer passes a server that a check has found over exactly while  *)
(* its last MaxFailures checks have failed, for every table and every number *)
(* of domains, servers and failures.                                         *)
LEMMA HealthInvServes == HealthInv => CheckedServed
BY DEF HealthInv, RecordAgrees, CheckedServed, Selected, HasHealthy,
       ServerTableTypeOK, ServerMap

THEOREM CheckedServersServe == ServerTableSpec => []CheckedServed
<1>1. ServerTableSpec => []HealthInv
  BY HealthInvInit, HealthInvNext, PTL DEF ServerTableSpec
<1> QED BY <1>1, HealthInvServes, PTL

------------------------------------------------------------------------------
(***************************************************************************)
(* The limits of the keys: what passes where two windows meet.             *)
(***************************************************************************)
(* The windows of the keys.  The requests of a client since its limiter     *)
(* began its window are those it counts; those before, as long as they are  *)
(* no more than a window away from it, fit in the highest limit beside      *)
(* them; and where there is no limiter, a window has seen one limit.        *)
Highest == CHOOSE l \in RateLimits : \A m \in RateLimits : m <= l

WindowCounted(c) ==
  LET l == rateLimiters[c] IN
  /\ l.lastReset <= now /\ l.count <= l.rateLimit /\ l.rateLimit <= Highest
  /\ \A t \in Time :
       /\ t >= l.lastReset => admitted[c][t] <= l.count
       /\ t > l.lastReset + Window => admitted[c][t] = 0
       /\ t <= l.lastReset /\ l.lastReset - t <= Window => admitted[c][t] <= l.count + Highest

WindowOpen(c) ==
  /\ admitted[c][now] = 0
  /\ \A t \in Time : now - t <= Window => admitted[c][t] <= Highest

KeyLimitsInv ==
  /\ KeyLimitsTypeOK
  /\ \A c \in Clients : \A t \in Time : t > now => admitted[c][t] = 0
  /\ \A c \in Clients : Exists(c) => WindowCounted(c)
  /\ \A c \in Clients : ~Exists(c) => WindowOpen(c)

LEMMA HighestLimit ==
  Highest \in Nat /\ Highest \in RateLimits /\ \A m \in RateLimits : m <= Highest
BY KeyLimitsAssumption DEF Highest

LEMMA LimiterFields ==
  ASSUME NEW l \in [lastReset : Time, count : Nat, rateLimit : RateLimits \cup {-1}]
  PROVE  l.lastReset \in Nat /\ l.lastReset \in Time /\ l.count \in Nat /\ l.rateLimit \in Int
<1>1. RateLimits \cup {-1} \subseteq Int /\ Time \subseteq Nat
  BY KeyLimitsAssumption, BucketAssumption DEF Time
<1> QED BY <1>1

LEMMA KeyLimitsBegin == KeyLimitsInit => KeyLimitsInv
<1> SUFFICES ASSUME KeyLimitsInit PROVE KeyLimitsInv
  OBVIOUS
<1>1. now = 0 /\ now \in Time
  BY BucketAssumption DEF KeyLimitsInit, Time
<1>2. KeyLimitsTypeOK
  BY <1>1, KeyLimitsAssumption DEF KeyLimitsInit, KeyLimitsTypeOK, NoLimiter
<1>3. \A c \in Clients : ~Exists(c) /\ \A t \in Time : admitted[c][t] = 0
  BY DEF KeyLimitsInit, Exists
<1> QED BY <1>1, <1>2, <1>3, HighestLimit DEF KeyLimitsInv, WindowOpen

LEMMA KeyLimitsKept == KeyLimitsInv /\ [KeyLimitsNext]_<<now, requests>> => KeyLimitsInv'
<1> SUFFICES ASSUME KeyLimitsInv, [KeyLimitsNext]_<<now, requests>> PROVE KeyLimitsInv'
  OBVIOUS
<1> USE HighestLimit
<1>1. /\ KeyLimitsTypeOK /\ now \in Nat /\ \A t \in Time : t \in Nat
      /\ Window \in Nat /\ Retention \in Nat /\ Window < Retention
  BY BucketAssumption, KeyLimitsAssumption DEF KeyLimitsInv, KeyLimitsTypeOK, Time
<1>2. ASSUME NEW c \in Clients
      PROVE  /\ rateLimiters[c] \in [lastReset : Time, count : Nat, rateLimit : RateLimits \cup {-1}]
             /\ rateLimiters[c].lastReset \in Nat /\ rateLimiters[c].count \in Nat
             /\ rateLimiters[c].rateLimit \in Int
             /\ \A t \in Time : admitted[c][t] \in Nat
             /\ \A t \in Time : t > now => admitted[c][t] = 0
  <2>1. rateLimiters[c] \in [lastReset : Time, count : Nat, rateLimit : RateLimits \cup {-1}]
    BY <1>1 DEF KeyLimitsTypeOK
  <2>2. \A t \in Time : admitted[c][t] \in Nat /\ (t > now => admitted[c][t] = 0)
    BY <1>1 DEF KeyLimitsTypeOK, KeyLimitsInv
  <2> QED BY <2>1, <2>2, LimiterFields
<1>2a. \A c \in Clients : (Exists(c) => WindowCounted(c)) /\ (~Exists(c) => WindowOpen(c))
  BY DEF KeyLimitsInv
<1>3. CASE Tick /\ UNCHANGED requests
  <2>1. now' = now + 1 /\ now' \in Time /\ UNCHANGED <<keyLimit, rateLimiters, admitted>>
    BY <1>1, <1>3, BucketAssumption DEF Tick, Time, requests, KeyLimitsTypeOK
  <2>2. KeyLimitsTypeOK'
    BY <1>1, <2>1 DEF KeyLimitsTypeOK
  <2>3. ASSUME NEW c \in Clients
        PROVE  /\ \A t \in Time : t > now' => admitted'[c][t] = 0
               /\ (Exists(c) => WindowCounted(c))' /\ (~Exists(c) => WindowOpen(c))'
    <3>1. /\ \A t \in Time : t > now' => admitted'[c][t] = 0
          /\ admitted'[c][now'] = 0
      BY <1>1, <1>2, <2>1
    <3>2. CASE Exists(c)
      BY <1>1, <1>2, <1>2a, <2>1, <3>1, <3>2 DEF Exists, WindowCounted
    <3>3. CASE ~Exists(c)
      BY <1>1, <1>2, <1>2a, <2>1, <3>1, <3>3 DEF Exists, WindowOpen
    <3> QED BY <3>1, <3>2, <3>3
  <2> QED BY <2>2, <2>3 DEF KeyLimitsInv
<1>4. ASSUME NEW c \in Clients, Request(c), UNCHANGED now PROVE KeyLimitsInv'
  <2> DEFINE l == Found(c)
             passes == l.count < l.rateLimit
             n == IF passes THEN l.count + 1 ELSE l.count
  <2>1. /\ l \in [lastReset : Time, count : Nat, rateLimit : RateLimits]
        /\ l.lastReset <= now /\ l.count <= l.rateLimit
        /\ \A t \in Time :
             /\ t >= l.lastReset => admitted[c][t] <= l.count
             /\ t > l.lastReset + Window => admitted[c][t] = 0
             /\ t <= l.lastReset /\ l.lastReset - t <= Window => admitted[c][t] <= l.count + Highest
        /\ now - l.lastReset <= Window
    <3>1. CASE ~Exists(c)
      <4>1. l = [lastReset |-> now, count |-> 0, rateLimit |-> keyLimit[KeyOf[c]]]
        BY <1>1, <3>1 DEF Found
      <4>2. keyLimit[KeyOf[c]] \in RateLimits /\ keyLimit[KeyOf[c]] \in Nat
        BY <1>1, KeyLimitsAssumption DEF KeyLimitsTypeOK, KeysUsed
      <4>3. /\ l \in [lastReset : Time, count : Nat, rateLimit : RateLimits]
            /\ l.lastReset = now /\ l.count = 0 /\ l.rateLimit \in Nat
        BY <1>1, <4>1, <4>2 DEF KeyLimitsTypeOK
      <4>4. \A t \in Time : /\ t >= now => admitted[c][t] <= 0
                            /\ now - t <= Window => admitted[c][t] <= Highest
        BY <1>1, <1>2, <1>2a, <3>1 DEF WindowOpen
      <4> HIDE DEF l
      <4> QED BY <1>1, <1>2, <4>3, <4>4
    <3>2. CASE Exists(c)
      <4> DEFINE r == rateLimiters[c]
      <4>1. /\ WindowCounted(c) /\ r.count \in Nat /\ r.lastReset \in Nat
            /\ r.rateLimit \in Nat /\ r.rateLimit \in RateLimits
        BY <1>1, <1>2, <1>2a, <3>2, KeyLimitsAssumption DEF WindowCounted
      <4>2. CASE now - r.lastReset > Window
        <5>1. l = [r EXCEPT !.count = 0, !.lastReset = now]
          BY <3>2, <4>2 DEF Found
        <5>2. /\ l.count = 0 /\ l.lastReset = now /\ l.rateLimit = r.rateLimit
              /\ l \in [lastReset : Time, count : Nat, rateLimit : RateLimits]
          <6>1. r \in [lastReset : Time, count : Nat, rateLimit : RateLimits] /\ now \in Time
            BY <1>1, <1>2, <4>1 DEF KeyLimitsTypeOK
          <6> HIDE DEF l, r
          <6> QED BY <5>1, <6>1
        <5>3. \A t \in Time : t >= now => admitted[c][t] <= 0
          BY <1>1, <1>2, <1>2a, <4>1, <4>2 DEF WindowCounted
        <5>4. \A t \in Time : now - t <= Window => admitted[c][t] <= Highest
          BY <1>1, <1>2, <1>2a, <4>1, <4>2 DEF WindowCounted
        <5> HIDE DEF l
        <5> QED BY <1>1, <1>2, <4>1, <5>2, <5>3, <5>4
      <4>3. CASE now - r.lastReset <= Window
        <5>1. l = r
          BY <1>1, <3>2, <4>1, <4>3 DEF Found
        <5> HIDE DEF l
        <5> QED BY <1>1, <1>2, <1>2a, <4>1, <4>3, <5>1 DEF WindowCounted
      <4> QED BY <1>1, <4>1, <4>2, <4>3
    <3> QED BY <3>1, <3>2
  <2>2. /\ rateLimiters' = [rateLimiters EXCEPT ![c] = [l EXCEPT !.count = n]]
        /\ admitted' = [admitted EXCEPT ![c] = [t \in Time |->
                          IF passes /\ t <= now THEN @[t] + 1 ELSE @[t]]]
        /\ UNCHANGED keyLimit
    BY <1>4 DEF Request
  <2> HIDE DEF l
  <2>3. n \in Nat /\ n <= l.rateLimit /\ l.rateLimit \in Nat /\ l.rateLimit <= Highest
    <3>1. l.rateLimit \in RateLimits /\ l.rateLimit \in Nat /\ l.count \in Nat
      BY <2>1, KeyLimitsAssumption
    <3> QED BY <2>1, <3>1
  <2>4. /\ rateLimiters'[c] = [l EXCEPT !.count = n]
        /\ rateLimiters'[c].lastReset = l.lastReset /\ rateLimiters'[c].count = n
        /\ rateLimiters'[c].rateLimit = l.rateLimit
        /\ rateLimiters' \in
             [Clients -> [lastReset : Time, count : Nat, rateLimit : RateLimits \cup {-1}]]
    BY <1>1, <2>1, <2>2, <2>3 DEF KeyLimitsTypeOK
  <2>5. /\ \A t \in Time : admitted'[c][t] = IF passes /\ t <= now THEN admitted[c][t] + 1
                                              ELSE admitted[c][t]
        /\ admitted' \in [Clients -> [Time -> Nat]]
    BY <1>1, <2>2 DEF KeyLimitsTypeOK
  <2>6. KeyLimitsTypeOK'
    BY <1>1, <1>4, <2>2, <2>4, <2>5 DEF KeyLimitsTypeOK
  <2>7. Exists(c)' /\ \A t \in Time : t > now' => admitted'[c][t] = 0
    <3>1. rateLimiters'[c].rateLimit # NoLimiter.rateLimit
      BY <2>3, <2>4 DEF NoLimiter
    <3> QED BY <1>1, <1>2, <1>4, <2>5, <3>1 DEF Exists
  <2>8. WindowCounted(c)'
    <3> SUFFICES ASSUME NEW t \in Time
                 PROVE  /\ t >= l.lastReset => admitted'[c][t] <= n
                        /\ t > l.lastReset + Window => admitted'[c][t] = 0
                        /\ t <= l.lastReset /\ l.lastReset - t <= Window => admitted'[c][t] <= n + Highest
      BY <1>4, <2>1, <2>3, <2>4 DEF WindowCounted
    <3>1. admitted[c][t] \in Nat /\ t \in Nat /\ l.lastReset \in Nat /\ l.count \in Nat
      BY <1>1, <1>2, <2>1
    <3> QED BY <1>1, <2>1, <2>5, <3>1
  <2>9. ASSUME NEW d \in Clients, d # c
        PROVE  /\ \A t \in Time : t > now' => admitted'[d][t] = 0
               /\ (Exists(d) => WindowCounted(d))' /\ (~Exists(d) => WindowOpen(d))'
    <3>1. rateLimiters'[d] = rateLimiters[d] /\ admitted'[d] = admitted[d] /\ now' = now
      BY <1>1, <1>4, <2>2, <2>9 DEF KeyLimitsTypeOK
    <3> QED BY <1>2, <1>2a, <3>1 DEF Exists, WindowCounted, WindowOpen
  <2> QED BY <2>6, <2>7, <2>8, <2>9 DEF KeyLimitsInv
<1>5. CASE Cleanup /\ UNCHANGED now
  <2>1. /\ UNCHANGED <<keyLimit, admitted, now>>
        /\ \A c \in Clients : rateLimiters'[c] = IF Exists(c) /\ now - rateLimiters[c].lastReset > Retention
                                                 THEN NoLimiter ELSE rateLimiters[c]
    BY <1>5 DEF Cleanup
  <2>2. KeyLimitsTypeOK'
    <3>1. NoLimiter \in [lastReset : Time, count : Nat, rateLimit : RateLimits \cup {-1}]
      BY BucketAssumption DEF NoLimiter, Time
    <3> QED BY <1>1, <1>5, <2>1, <3>1 DEF KeyLimitsTypeOK, Cleanup
  <2>3. ASSUME NEW c \in Clients
        PROVE  (Exists(c) => WindowCounted(c))' /\ (~Exists(c) => WindowOpen(c))'
    <3>1. CASE Exists(c) /\ now - rateLimiters[c].lastReset > Retention
      <4>1. ~Exists(c)' /\ WindowCounted(c)
        BY <1>2a, <2>1, <3>1 DEF Exists
      <4>2. rateLimiters[c].count \in Nat /\ rateLimiters[c].lastReset \in Nat /\ now \in Time
            /\ rateLimiters[c].rateLimit \in Int
        BY <1>1, <1>2 DEF KeyLimitsTypeOK
      <4>3. admitted[c][now] = 0
        BY <1>1, <3>1, <4>1, <4>2 DEF WindowCounted
      <4>4. \A t \in Time : now - t <= Window => admitted[c][t] <= Highest
        BY <1>1, <1>2, <1>2a, <3>1, <4>1, <4>2 DEF WindowCounted
      <4> QED BY <2>1, <4>1, <4>3, <4>4 DEF WindowOpen
    <3>2. CASE ~(Exists(c) /\ now - rateLimiters[c].lastReset > Retention)
      BY <1>2, <1>2a, <2>1, <3>2 DEF Exists, WindowCounted, WindowOpen
    <3> QED BY <3>1, <3>2
  <2> QED BY <1>2, <1>2a, <2>1, <2>2, <2>3 DEF KeyLimitsInv
<1>6. CASE (\E k \in KeysUsed : UpdateRateLimit(k)) /\ UNCHANGED now
  <2>1. UNCHANGED <<rateLimiters, admitted, now>> /\ keyLimit' \in [KeysUsed -> RateLimits]
    BY <1>1, <1>6 DEF UpdateRateLimit, KeyLimitsTypeOK
  <2> QED BY <1>1, <1>2, <1>2a, <2>1
          DEF KeyLimitsInv, KeyLimitsTypeOK, Exists, WindowCounted, WindowOpen
<1>7. CASE UNCHANGED <<now, requests>>
  BY <1>1, <1>2, <1>2a, <1>7
  DEF KeyLimitsInv, KeyLimitsTypeOK, Exists, WindowCounted, WindowOpen, requests
<1> QED BY <1>3, <1>4, <1>5, <1>6, <1>7 DEF KeyLimitsNext

(* No stretch as long as a window sees more requests of a client than twice *)
(* the highest limit, whenever limits change and limiters are thrown away.  *)
THEOREM WindowsHold == KeyLimitsSpec => []WindowHeld
<1>1. KeyLimitsInv => WindowHeld
  <2> SUFFICES ASSUME KeyLimitsInv, NEW c \in Clients, NEW t \in 0 .. now, now - t <= Window
               PROVE  admitted[c][t] <= 2 * Highest
    BY HighestLimit DEF WindowHeld
  <2>1. /\ now \in Nat /\ now \in Time /\ t \in Time /\ t \in Nat /\ Window \in Nat
        /\ admitted[c][t] \in Nat
        /\ rateLimiters[c].lastReset \in Nat /\ rateLimiters[c].count \in Nat
        /\ rateLimiters[c].rateLimit \in Int
    <3>1. rateLimiters[c] \in [lastReset : Time, count : Nat, rateLimit : RateLimits \cup {-1}]
          /\ now \in Time /\ now \in Nat
      BY BucketAssumption DEF KeyLimitsInv, KeyLimitsTypeOK, Time
    <3>2. t \in Time /\ t \in Nat
      BY <3>1, BucketAssumption DEF Time
    <3>3. admitted[c][t] \in Nat
      BY <3>2 DEF KeyLimitsInv, KeyLimitsTypeOK
    <3> QED BY <3>1, <3>2, <3>3, LimiterFields, KeyLimitsAssumption
  <2>2. CASE Exists(c)
    BY <2>1, <2>2, HighestLimit DEF KeyLimitsInv, WindowCounted
  <2>3. CASE ~Exists(c)
    BY <2>1, <2>3, HighestLimit DEF KeyLimitsInv, WindowOpen
  <2> QED BY <2>2, <2>3
<1> QED BY <1>1, KeyLimitsBegin, KeyLimitsKept, PTL DEF KeyLimitsSpec

------------------------------------------------------------------------------
(***************************************************************************)
(* The records on disk are whole and the index finds them.                 *)
(***************************************************************************)
(* What is saved and yet to be indexed is a snapshot: alerts and watch      *)
(* states are not indexed.                                                  *)
SavedSnapshots ==
  \A w \in Writers : writer[w].pc = "saved" => writer[w].key \in Snapshots

HistoryInv == HistoryTypeOK /\ HistoryKept /\ SavedSnapshots
-----------------------------------------------------------------------------
(* A temporary file is no file that is listed.                              *)
LEMMA TmpApart == \A k, l : Tmp(k) # File(l)
  BY DEF Tmp, File

(* A file that is no temporary one is the file of its key.                  *)
LEMMA FileOfKey == \A f \in Files : ~f.tmp => f = File(f.key)
  BY DEF Files, File

(* The file and the temporary file of a key are files.                      *)
LEMMA KeyFiles ==
  ASSUME NEW k \in Snapshots \cup StateKeys
  PROVE  File(k) \in Files /\ Tmp(k) \in Files
  BY DEF File, Tmp, Files

(* The keys that the three functions make are keys of the storage.          *)
LEMMA KeysMade ==
  ASSUME HistoryTypeOK, NEW d \in Recorded
  PROVE  /\ [kind |-> "history", name |-> d, at |-> second] \in Snapshots \cup StateKeys
         /\ [kind |-> "alert", name |-> "id", at |-> second] \in Snapshots \cup StateKeys
         /\ [kind |-> "watch", name |-> d, at |-> 0] \in Snapshots \cup StateKeys
  BY DEF HistoryTypeOK, Snapshots, StateKeys

LEMMA AlertKeyMade ==
  ASSUME HistoryTypeOK
  PROVE  [kind |-> "alert", name |-> "id", at |-> second] \in Snapshots \cup StateKeys
  BY DEF HistoryTypeOK, StateKeys

(* What is found in the list of snapshots is a file that holds a record.    *)
LEMMA Listing ==
  ASSUME NEW e
  PROVE  e \in QuerySnapshots <=>
           \E f \in Files : /\ ~f.tmp /\ f.key.kind = "history"
                            /\ files[f] # NoRecord /\ files[f] # HalfWritten
                            /\ e = <<files[f], f.key.name>>
  BY DEF QuerySnapshots, Loaded, Listed, Entry

LEMMA ListingNext ==
  ASSUME NEW e
  PROVE  e \in QuerySnapshots' <=>
           \E f \in Files : /\ ~f.tmp /\ f.key.kind = "history"
                            /\ files'[f] # NoRecord /\ files'[f] # HalfWritten
                            /\ e = <<files'[f], f.key.name>>
  BY DEF QuerySnapshots, Loaded, Listed, Entry

(* The entries are pairs of a contact and a domain.                         *)
LEMMA ListedPairs ==
  ASSUME HistoryTypeOK
  PROVE  QuerySnapshots \subseteq Registrants \X Recorded
<1> SUFFICES ASSUME NEW e \in QuerySnapshots PROVE e \in Registrants \X Recorded
  OBVIOUS
<1>1. PICK f \in Files : /\ ~f.tmp /\ f.key.kind = "history"
                         /\ files[f] # NoRecord /\ files[f] # HalfWritten
                         /\ e = <<files[f], f.key.name>>
  BY Listing
<1>2. files[f] \in Registrants
  BY <1>1 DEF HistoryTypeOK
<1>3. f.key.name \in Recorded
  BY <1>1 DEF Files, Snapshots, StateKeys
<1> QED BY <1>1, <1>2, <1>3

(* A pair is found by its contact if, and only if, it is in the index.      *)
LEMMA SearchFinds ==
  ASSUME NEW e \in Registrants \X Recorded, HistoryTypeOK
  PROVE  e[2] \in SearchByField(e[1]) <=> e \in index
  BY DEF SearchByField, HistoryTypeOK

(* What it means that an entry is found.                                    *)
Pending(w, e) ==
  \/ writer[w].pc = "saved" /\ e = <<writer[w].shows, writer[w].key.name>>
  \/ writer[w].pc = "indexing" /\ e \in writer[w].list

LEMMA FoundAs ==
  ASSUME HistoryTypeOK
  PROVE  FoundUnlessRebuilt <=>
           \A e \in QuerySnapshots :
             e \notin lost => e \in index \/ \E w \in Writers : Pending(w, e)
  BY ListedPairs, SearchFinds DEF FoundUnlessRebuilt, Pending

(* The invariant after a step, in the terms of the index itself.            *)
LEMMA FoundNext ==
  ASSUME HistoryTypeOK',
         \A e \in QuerySnapshots' :
           e \notin lost' => e \in index' \/ \E w \in Writers : Pending(w, e)'
  PROVE  FoundUnlessRebuilt'
  BY DEF FoundUnlessRebuilt, Pending, SearchByField, HistoryTypeOK
-----------------------------------------------------------------------------
LEMMA InitHistoryInv == HistoryInit => HistoryInv
<1> SUFFICES ASSUME HistoryInit PROVE HistoryInv
  OBVIOUS
<1> USE HistoryAssumption
<1>1. HistoryTypeOK
  BY DEF HistoryInit, HistoryTypeOK, Calls
<1>2. RecordsWhole
  BY KeyFiles DEF HistoryInit, RecordsWhole
<1>3. QuerySnapshots = {}
  BY Listing DEF HistoryInit
<1>4. FoundUnlessRebuilt
  BY <1>3 DEF FoundUnlessRebuilt
<1>5. SavedSnapshots
  BY DEF HistoryInit, SavedSnapshots, Idle
<1> QED BY <1>1, <1>2, <1>4, <1>5 DEF HistoryInv, HistoryKept
-----------------------------------------------------------------------------
(* What one writer does to the list of calls.                               *)
LEMMA CallsKept ==
  ASSUME NEW w \in Writers, NEW c \in Calls, HistoryTypeOK,
         writer' = [writer EXCEPT ![w] = c]
  PROVE  writer' \in [Writers -> Calls]
  BY DEF HistoryTypeOK

(* A save that begins writes to no file that is read.                       *)
LEMMA SaveBeginKeeps ==
  ASSUME HistoryInv, NEW w \in Writers, NEW k \in Snapshots \cup StateKeys,
         NEW r \in Registrants, BeginSave(w, k, r)
  PROVE  HistoryInv'
<1> USE HistoryAssumption
<1>1. HistoryTypeOK /\ RecordsWhole /\ FoundUnlessRebuilt /\ SavedSnapshots
  BY DEF HistoryInv, HistoryKept
<1>2. /\ writer[w] = Idle /\ saves < MaxSaves /\ saves' = saves + 1
      /\ files' = [files EXCEPT ![Tmp(k)] = HalfWritten]
      /\ writer' = [writer EXCEPT ![w] = [pc |-> "writing", key |-> k, shows |-> r]]
      /\ UNCHANGED <<second, index, kept, lost>>
  BY DEF BeginSave
<1>3. HistoryTypeOK'
  <2>1. [pc |-> "writing", key |-> k, shows |-> r] \in Calls
    BY DEF Calls
  <2>2. writer' \in [Writers -> Calls]
    BY <1>1, <1>2, <2>1, CallsKept
  <2> QED BY <1>1, <1>2, <2>2, KeyFiles DEF HistoryTypeOK
<1>4. \A f \in Files : ~f.tmp => files'[f] = files[f]
  BY <1>1, <1>2 DEF HistoryTypeOK, Tmp
<1>5. RecordsWhole'
  BY <1>1, <1>2, <1>4, KeyFiles DEF RecordsWhole, File
<1>6. QuerySnapshots' = QuerySnapshots
  <2>1. \A e : e \in QuerySnapshots' <=> e \in QuerySnapshots
    <3> TAKE e
    <3> QED BY <1>4, Listing, ListingNext
  <2> QED BY <2>1
<1>7. \A v \in Writers : \A e : Pending(v, e) => Pending(v, e)'
  BY <1>1, <1>2 DEF Pending, Idle, HistoryTypeOK
<1>8. FoundUnlessRebuilt'
  BY <1>1, <1>2, <1>6, <1>7, FoundAs DEF FoundUnlessRebuilt, Pending, SearchByField
<1>9. SavedSnapshots'
  BY <1>1, <1>2 DEF HistoryTypeOK, SavedSnapshots
<1> QED BY <1>3, <1>5, <1>8, <1>9 DEF HistoryInv, HistoryKept

(* A renamed file takes the place of the record it had.                     *)
LEMMA RenamedKeeps ==
  ASSUME HistoryInv, NEW w \in Writers, Renamed(w)
  PROVE  HistoryInv'
<1> USE HistoryAssumption
<1> DEFINE k == writer[w].key  r == writer[w].shows
           c == IF k.kind = "history" THEN [writer[w] EXCEPT !.pc = "saved"] ELSE Idle
<1>1. HistoryTypeOK /\ RecordsWhole /\ FoundUnlessRebuilt /\ SavedSnapshots
  BY DEF HistoryInv, HistoryKept
<1>2. /\ writer[w].pc = "writing"
      /\ files' = [[files EXCEPT ![Tmp(k)] = NoRecord] EXCEPT ![File(k)] = r]
      /\ kept' = [kept EXCEPT ![k] = r]
      /\ UNCHANGED <<second, saves, index, lost>>
  BY DEF Renamed
<1>3. writer' = [writer EXCEPT ![w] = c]
  BY DEF Renamed
<1>4. writer[w] \in [pc : {"writing", "saved"}, key : Snapshots \cup StateKeys, shows : Registrants]
  BY <1>1, <1>2 DEF HistoryTypeOK, Calls, Idle
<1>5. k \in Snapshots \cup StateKeys /\ r \in Registrants
  BY <1>4
<1>6. File(k) \in Files /\ Tmp(k) \in Files /\ Tmp(k) # File(k)
  BY <1>5, KeyFiles, TmpApart
<1>7. c \in Calls
  BY <1>4 DEF Calls
<1> HIDE DEF k, r, c
<1>8. HistoryTypeOK'
  <2>1. writer' \in [Writers -> Calls]
    BY <1>1, <1>3, <1>7, CallsKept
  <2>2. files' \in [Files -> Registrants \cup {NoRecord, HalfWritten}]
    BY <1>1, <1>2, <1>5, <1>6 DEF HistoryTypeOK
  <2>3. kept' \in [Snapshots \cup StateKeys -> Registrants \cup {NoRecord}]
    BY <1>1, <1>2, <1>5 DEF HistoryTypeOK
  <2> QED BY <1>1, <1>2, <2>1, <2>2, <2>3 DEF HistoryTypeOK
<1>9. \A f \in Files : ~f.tmp => files'[f] = IF f = File(k) THEN r ELSE files[f]
  BY <1>1, <1>2, <1>6 DEF HistoryTypeOK, Tmp
<1>10. RecordsWhole'
  <2> SUFFICES ASSUME NEW j \in Snapshots \cup StateKeys
               PROVE  files'[File(j)] = kept'[j]
    BY DEF RecordsWhole
  <2>1. File(j) \in Files /\ ~File(j).tmp /\ files[File(j)] = kept[j]
    BY <1>1, KeyFiles DEF RecordsWhole, File
  <2>2. File(j) = File(k) => j = k
    BY DEF File
  <2> QED BY <1>1, <1>2, <1>5, <1>9, <2>1, <2>2 DEF HistoryTypeOK
<1>11. \A e \in QuerySnapshots' : e \in QuerySnapshots \/ Pending(w, e)'
  <2> SUFFICES ASSUME NEW e \in QuerySnapshots', e \notin QuerySnapshots
               PROVE  Pending(w, e)'
    OBVIOUS
  <2>1. PICK f \in Files : /\ ~f.tmp /\ f.key.kind = "history"
                           /\ files'[f] # NoRecord /\ files'[f] # HalfWritten
                           /\ e = <<files'[f], f.key.name>>
    BY ListingNext
  <2>2. f = File(k)
    BY <1>9, <2>1, Listing
  <2>3. k.kind = "history" /\ e = <<r, k.name>>
    BY <1>9, <2>1, <2>2 DEF File
  <2>4. c.pc = "saved" /\ c.shows = r /\ c.key = k
    BY <1>4, <2>3 DEF c, k, r
  <2>5. writer'[w] = c
    BY <1>1, <1>3 DEF HistoryTypeOK
  <2> QED BY <2>3, <2>4, <2>5 DEF Pending
<1>12. \A v \in Writers : \A e : Pending(v, e) => Pending(v, e)'
  BY <1>1, <1>2, <1>3 DEF Pending, HistoryTypeOK
<1>13. FoundUnlessRebuilt'
  BY <1>1, <1>2, <1>11, <1>12, FoundAs DEF FoundUnlessRebuilt, Pending, SearchByField
<1>14. SavedSnapshots'
  <2>1. c.pc = "saved" => c.key \in Snapshots
    BY <1>4 DEF c, k, Idle, Snapshots, StateKeys
  <2> QED BY <1>1, <1>3, <2>1 DEF HistoryTypeOK, SavedSnapshots
<1> QED BY <1>8, <1>10, <1>13, <1>14 DEF HistoryInv, HistoryKept

(* A save that fails has changed no file that is read.                      *)
LEMMA FailsKeeps ==
  ASSUME HistoryInv, NEW w \in Writers, SaveFails(w)
  PROVE  HistoryInv'
<1>1. HistoryTypeOK /\ RecordsWhole /\ FoundUnlessRebuilt /\ SavedSnapshots
  BY DEF HistoryInv, HistoryKept
<1>2. /\ writer[w].pc = "writing" /\ writer' = [writer EXCEPT ![w] = Idle]
      /\ UNCHANGED <<second, saves, files, index, kept, lost>>
  BY DEF SaveFails
<1>3. HistoryTypeOK'
  BY <1>1, <1>2 DEF HistoryTypeOK, Calls
<1>4. RecordsWhole'
  BY <1>1, <1>2 DEF RecordsWhole
<1>5. QuerySnapshots' = QuerySnapshots
  BY <1>2, Listing, ListingNext
<1>6. \A v \in Writers : \A e : Pending(v, e) => Pending(v, e)'
  BY <1>1, <1>2 DEF Pending, HistoryTypeOK
<1>7. FoundUnlessRebuilt'
  BY <1>1, <1>2, <1>5, <1>6, FoundAs DEF FoundUnlessRebuilt, Pending, SearchByField
<1>8. SavedSnapshots'
  BY <1>1, <1>2 DEF HistoryTypeOK, SavedSnapshots, Idle
<1> QED BY <1>3, <1>4, <1>7, <1>8 DEF HistoryInv, HistoryKept

(* The entry that a save adds is found from then on.                        *)
LEMMA IndexSnapshotKeeps ==
  ASSUME HistoryInv, NEW w \in Writers, IndexSnapshot(w)
  PROVE  HistoryInv'
<1> DEFINE n == <<writer[w].shows, writer[w].key.name>>
<1>1. HistoryTypeOK /\ RecordsWhole /\ FoundUnlessRebuilt /\ SavedSnapshots
  BY DEF HistoryInv, HistoryKept
<1>2. /\ writer[w].pc = "saved" /\ index' = index \cup {n} /\ lost' = lost \ {n}
      /\ writer' = [writer EXCEPT ![w] = Idle]
      /\ UNCHANGED <<second, saves, files, kept>>
  BY DEF IndexSnapshot, Indexed
<1>3. n \in Registrants \X Recorded
  <2>1. writer[w].shows \in Registrants
    BY <1>1, <1>2 DEF HistoryTypeOK, Calls, Idle
  <2>2. writer[w].key \in Snapshots
    BY <1>1, <1>2 DEF SavedSnapshots
  <2> QED BY <2>1, <2>2 DEF Snapshots
<1>4. HistoryTypeOK'
  BY <1>1, <1>2, <1>3 DEF HistoryTypeOK, Calls
<1>5. RecordsWhole' /\ SavedSnapshots'
  BY <1>1, <1>2 DEF HistoryTypeOK, RecordsWhole, SavedSnapshots, Idle
<1>6. QuerySnapshots' = QuerySnapshots
  BY <1>2, Listing, ListingNext
<1>7. \A v \in Writers : \A e : Pending(v, e) => e = n \/ Pending(v, e)'
  BY <1>1, <1>2 DEF Pending, HistoryTypeOK
<1> HIDE DEF n
<1>8. FoundUnlessRebuilt'
  <2> SUFFICES ASSUME NEW e \in QuerySnapshots, e \notin lost'
               PROVE  (e \in index \/ \E v \in Writers : Pending(v, e))'
    BY <1>4, <1>6, FoundNext, ListedPairs
  <2>1. CASE e = n
    BY <1>2, <2>1
  <2>2. CASE e # n
    BY <1>1, <1>2, <1>7, <2>2, FoundAs, ListedPairs
  <2> QED BY <2>1, <2>2
<1> QED BY <1>4, <1>5, <1>8 DEF HistoryInv, HistoryKept

(* The list for a rebuild changes nothing yet.                              *)
LEMMA ListKeeps ==
  ASSUME HistoryInv, NEW w \in Writers, ListSnapshots(w)
  PROVE  HistoryInv'
<1>1. HistoryTypeOK /\ RecordsWhole /\ FoundUnlessRebuilt /\ SavedSnapshots
  BY DEF HistoryInv, HistoryKept
<1>2. /\ writer[w] = Idle
      /\ writer' = [writer EXCEPT ![w] = [pc |-> "listed", list |-> QuerySnapshots]]
      /\ UNCHANGED <<second, saves, files, index, kept, lost>>
  BY DEF ListSnapshots
<1>3. [pc |-> "listed", list |-> QuerySnapshots] \in Calls
  BY <1>1, ListedPairs DEF Calls
<1>4. HistoryTypeOK'
  BY <1>1, <1>2, <1>3, CallsKept DEF HistoryTypeOK
<1>5. RecordsWhole' /\ SavedSnapshots'
  BY <1>1, <1>2 DEF HistoryTypeOK, RecordsWhole, SavedSnapshots
<1>6. QuerySnapshots' = QuerySnapshots
  BY <1>2, Listing, ListingNext
<1>7. \A v \in Writers : \A e : Pending(v, e) => Pending(v, e)'
  BY <1>1, <1>2 DEF Pending, HistoryTypeOK, Idle
<1>8. FoundUnlessRebuilt'
  BY <1>1, <1>2, <1>4, <1>6, <1>7, FoundAs, FoundNext, ListedPairs
<1> QED BY <1>4, <1>5, <1>8 DEF HistoryInv, HistoryKept

(* The rebuild empties the index: its list, or lost, has what it held.      *)
LEMMA EmptyKeeps ==
  ASSUME HistoryInv, NEW w \in Writers, EmptyIndex(w)
  PROVE  HistoryInv'
<1>1. HistoryTypeOK /\ RecordsWhole /\ FoundUnlessRebuilt /\ SavedSnapshots
  BY DEF HistoryInv, HistoryKept
<1>2. /\ writer[w].pc = "listed" /\ index' = {}
      /\ writer' = [writer EXCEPT ![w].pc = "indexing"]
      /\ lost' = QuerySnapshots \ writer[w].list
      /\ UNCHANGED <<second, saves, files, kept>>
  BY DEF EmptyIndex
<1>3. writer[w] \in [pc : {"listed", "indexing"}, list : SUBSET (Registrants \X Recorded)]
  BY <1>1, <1>2 DEF HistoryTypeOK, Calls, Idle
<1>4. /\ writer'[w].pc = "indexing" /\ writer'[w].list = writer[w].list
      /\ \A v \in Writers : v # w => writer'[v] = writer[v]
      /\ writer' \in [Writers -> Calls]
  BY <1>1, <1>2, <1>3 DEF HistoryTypeOK, Calls
<1>5. HistoryTypeOK'
  BY <1>1, <1>2, <1>4, ListedPairs DEF HistoryTypeOK
<1>6. RecordsWhole' /\ SavedSnapshots'
  BY <1>1, <1>2, <1>4 DEF RecordsWhole, SavedSnapshots
<1>7. QuerySnapshots' = QuerySnapshots
  BY <1>2, Listing, ListingNext
<1>8. FoundUnlessRebuilt'
  <2> SUFFICES ASSUME NEW e \in QuerySnapshots, e \notin lost'
               PROVE  Pending(w, e)'
    BY <1>5, <1>7, FoundNext, ListedPairs
  <2> QED BY <1>2, <1>4 DEF Pending
<1> QED BY <1>5, <1>6, <1>8 DEF HistoryInv, HistoryKept

(* An entry leaves the list of a rebuild for the index.                     *)
LEMMA IndexNextKeeps ==
  ASSUME HistoryInv, NEW w \in Writers, IndexNext(w)
  PROVE  HistoryInv'
<1>1. HistoryTypeOK /\ RecordsWhole /\ FoundUnlessRebuilt /\ SavedSnapshots
  BY DEF HistoryInv, HistoryKept
<1>2. writer[w].pc = "indexing" /\ UNCHANGED <<second, saves, files, kept>>
  BY DEF IndexNext
<1>3. writer[w] \in [pc : {"listed", "indexing"}, list : SUBSET (Registrants \X Recorded)]
  BY <1>1, <1>2 DEF HistoryTypeOK, Calls, Idle
<1>4. QuerySnapshots' = QuerySnapshots
  BY <1>2, Listing, ListingNext
<1>5. ASSUME writer[w].list = {}, writer' = [writer EXCEPT ![w] = Idle],
             UNCHANGED <<index, lost>>
      PROVE  HistoryInv'
  <2>1. HistoryTypeOK'
    BY <1>1, <1>2, <1>5 DEF HistoryTypeOK, Calls
  <2>2. RecordsWhole' /\ SavedSnapshots'
    BY <1>1, <1>2, <1>5 DEF HistoryTypeOK, RecordsWhole, SavedSnapshots, Idle
  <2>3. \A v \in Writers : \A e : Pending(v, e) => Pending(v, e)'
    BY <1>1, <1>2, <1>5 DEF Pending, HistoryTypeOK
  <2>4. FoundUnlessRebuilt'
    BY <1>1, <1>4, <1>5, <2>1, <2>3, FoundAs, FoundNext, ListedPairs
  <2> QED BY <2>1, <2>2, <2>4 DEF HistoryInv, HistoryKept
<1>6. ASSUME NEW n \in writer[w].list, index' = index \cup {n}, lost' = lost \ {n},
             writer' = [writer EXCEPT ![w].list = @ \ {n}]
      PROVE  HistoryInv'
  <2>1. /\ writer'[w].pc = "indexing" /\ writer'[w].list = writer[w].list \ {n}
        /\ \A v \in Writers : v # w => writer'[v] = writer[v]
        /\ writer' \in [Writers -> Calls]
    BY <1>1, <1>2, <1>3, <1>6 DEF HistoryTypeOK, Calls
  <2>2. HistoryTypeOK'
    BY <1>1, <1>2, <1>3, <1>6, <2>1 DEF HistoryTypeOK
  <2>3. RecordsWhole' /\ SavedSnapshots'
    BY <1>1, <1>2, <2>1 DEF RecordsWhole, SavedSnapshots
  <2>4. \A v \in Writers : \A e : Pending(v, e) => e = n \/ Pending(v, e)'
    BY <1>2, <2>1 DEF Pending
  <2>5. FoundUnlessRebuilt'
    <3> SUFFICES ASSUME NEW e \in QuerySnapshots, e \notin lost'
                 PROVE  (e \in index \/ \E v \in Writers : Pending(v, e))'
      BY <1>4, <2>2, FoundNext, ListedPairs
    <3>1. CASE e = n
      BY <1>6, <3>1
    <3>2. CASE e # n
      BY <1>1, <1>6, <2>4, <3>2, FoundAs, ListedPairs
    <3> QED BY <3>1, <3>2
  <2> QED BY <2>2, <2>3, <2>5 DEF HistoryInv, HistoryKept
<1> QED BY <1>5, <1>6 DEF IndexNext, Indexed

(* A file that is deleted is deleted for the history, too.                  *)
LEMMA DeleteKeeps ==
  ASSUME HistoryInv, NEW f \in Files, ~f.tmp, Delete(f)
  PROVE  HistoryInv'
<1>1. HistoryTypeOK /\ RecordsWhole /\ FoundUnlessRebuilt /\ SavedSnapshots
  BY DEF HistoryInv, HistoryKept
<1>2. /\ files' = [files EXCEPT ![f] = NoRecord]
      /\ kept' = [kept EXCEPT ![f.key] = NoRecord]
      /\ UNCHANGED <<second, saves, index, writer, lost>>
  BY DEF Delete
<1>3. f = File(f.key) /\ f.key \in Snapshots \cup StateKeys
  BY FileOfKey DEF Files
<1>4. HistoryTypeOK'
  BY <1>1, <1>2 DEF HistoryTypeOK
<1>5. RecordsWhole'
  <2> SUFFICES ASSUME NEW k \in Snapshots \cup StateKeys
               PROVE  files'[File(k)] = kept'[k]
    BY DEF RecordsWhole
  <2>1. files[File(k)] = kept[k] /\ File(k) \in Files
    BY <1>1, KeyFiles DEF RecordsWhole
  <2>2. File(k) = f <=> k = f.key
    BY <1>3 DEF File
  <2> QED BY <1>1, <1>2, <2>1, <2>2 DEF HistoryTypeOK
<1>6. SavedSnapshots'
  BY <1>1, <1>2 DEF SavedSnapshots
<1>7. QuerySnapshots' \subseteq QuerySnapshots
  <2> SUFFICES ASSUME NEW e \in QuerySnapshots' PROVE e \in QuerySnapshots
    OBVIOUS
  <2>1. PICK g \in Files : /\ ~g.tmp /\ g.key.kind = "history"
                           /\ files'[g] # NoRecord /\ files'[g] # HalfWritten
                           /\ e = <<files'[g], g.key.name>>
    BY ListingNext
  <2>2. files'[g] = files[g]
    BY <1>1, <1>2, <2>1 DEF HistoryTypeOK
  <2> QED BY <2>1, <2>2, Listing
<1>8. \A v \in Writers : \A e : Pending(v, e) => Pending(v, e)'
  BY <1>2 DEF Pending
<1>9. FoundUnlessRebuilt'
  BY <1>1, <1>2, <1>4, <1>7, <1>8, FoundAs, FoundNext, ListedPairs
<1> QED BY <1>4, <1>5, <1>6, <1>9 DEF HistoryInv, HistoryKept

(* A restart loses the index only.                                          *)
LEMMA DieKeeps ==
  ASSUME HistoryInv, Die
  PROVE  HistoryInv'
<1>1. HistoryTypeOK /\ RecordsWhole /\ FoundUnlessRebuilt /\ SavedSnapshots
  BY DEF HistoryInv, HistoryKept
<1>2. /\ index' = {} /\ writer' = [w \in Writers |-> Idle] /\ lost' = QuerySnapshots
      /\ UNCHANGED <<second, saves, files, kept>>
  BY DEF Die
<1>3. HistoryTypeOK'
  BY <1>1, <1>2, ListedPairs DEF HistoryTypeOK, Calls
<1>4. RecordsWhole' /\ SavedSnapshots'
  BY <1>1, <1>2 DEF RecordsWhole, SavedSnapshots, Idle
<1>5. QuerySnapshots' = QuerySnapshots
  BY <1>2, Listing, ListingNext
<1>6. FoundUnlessRebuilt'
  BY <1>2, <1>5 DEF FoundUnlessRebuilt
<1> QED BY <1>3, <1>4, <1>6 DEF HistoryInv, HistoryKept

(* Nothing depends on the clock.                                            *)
LEMMA ClockKeeps ==
  ASSUME HistoryInv, Second \/ UNCHANGED records
  PROVE  HistoryInv'
<1> USE HistoryAssumption
<1>1. HistoryTypeOK /\ RecordsWhole /\ FoundUnlessRebuilt /\ SavedSnapshots
  BY DEF HistoryInv, HistoryKept
<1>2. UNCHANGED <<saves, files, index, writer, kept, lost>>
  BY DEF Second, records
<1>3. HistoryTypeOK'
  BY <1>1, <1>2 DEF HistoryTypeOK, Second, records
<1>4. RecordsWhole' /\ SavedSnapshots'
  BY <1>1, <1>2 DEF RecordsWhole, SavedSnapshots
<1>5. QuerySnapshots' = QuerySnapshots
  BY <1>2, Listing, ListingNext
<1>6. FoundUnlessRebuilt'
  BY <1>1, <1>2, <1>5 DEF FoundUnlessRebuilt, SearchByField
<1> QED BY <1>3, <1>4, <1>6 DEF HistoryInv, HistoryKept
-----------------------------------------------------------------------------
LEMMA NextHistoryInv == HistoryInv /\ [HistoryNext]_records => HistoryInv'
<1> SUFFICES ASSUME HistoryInv, [HistoryNext]_records PROVE HistoryInv'
  OBVIOUS
<1>1. HistoryTypeOK
  BY DEF HistoryInv
<1>2. ASSUME NEW w \in Writers, SaveHistorySnapshot(w) \/ SaveAlert(w) \/ SaveWatchState(w)
      PROVE  HistoryInv'
  BY <1>1, <1>2, KeysMade, AlertKeyMade, SaveBeginKeeps
     DEF SaveHistorySnapshot, SaveAlert, SaveWatchState
<1>3. ASSUME NEW w \in Writers, Renamed(w) PROVE HistoryInv'
  BY <1>3, RenamedKeeps
<1>4. ASSUME NEW w \in Writers, SaveFails(w) PROVE HistoryInv'
  BY <1>4, FailsKeeps
<1>5. ASSUME NEW w \in Writers, IndexSnapshot(w) PROVE HistoryInv'
  BY <1>5, IndexSnapshotKeeps
<1>6. ASSUME NEW w \in Writers, ListSnapshots(w) PROVE HistoryInv'
  BY <1>6, ListKeeps
<1>7. ASSUME NEW w \in Writers, EmptyIndex(w) PROVE HistoryInv'
  BY <1>7, EmptyKeeps
<1>8. ASSUME NEW w \in Writers, IndexNext(w) PROVE HistoryInv'
  BY <1>8, IndexNextKeeps
<1>9. ASSUME DeleteSnapshot \/ DeleteWatchState \/ DeleteAlert PROVE HistoryInv'
  BY <1>9, DeleteKeeps DEF DeleteSnapshot, DeleteWatchState, DeleteAlert, Loaded, Listed
<1>10. ASSUME Die PROVE HistoryInv'
  BY <1>10, DieKeeps
<1>11. ASSUME Second \/ UNCHANGED records PROVE HistoryInv'
  BY <1>11, ClockKeeps
<1> QED BY <1>2, <1>3, <1>4, <1>5, <1>6, <1>7, <1>8, <1>9, <1>10, <1>11 DEF HistoryNext

(* Whatever saves, deletions, rebuilds and restarts come together: a record *)
(* is read back as its last complete save left it, and a stored snapshot is *)
(* found by its contact unless the index was emptied since.                 *)
THEOREM RecordsKept == HistorySpec => []HistoryKept
<1>1. HistoryInv => HistoryKept
  BY DEF HistoryInv
<1> QED BY <1>1, InitHistoryInv, NextHistoryInv, PTL DEF HistorySpec
-----------------------------------------------------------------------------
(* What the callers of the storage see of its files, and what they save.    *)
Seen    == [k \in Snapshots \cup StateKeys |-> files[File(k)]]
Current == [w \in Writers |-> IF writer[w].pc = "writing"
                              THEN {<<writer[w].key, writer[w].shows>>} ELSE {}]

LEMMA AtomicInit == HistoryInit => Atomic!Init
  BY KeyFiles DEF HistoryInit, Idle, Atomic!Init

(* A writer that begins to save, in a temporary file.                       *)
LEMMA AtomicBegin ==
  ASSUME HistoryInv, NEW w \in Writers, NEW k \in Snapshots \cup StateKeys, NEW r \in Registrants,
         BeginSave(w, k, r)
  PROVE  Seen' = Seen /\ Current[w] = {} /\ Current' = [Current EXCEPT ![w] = {<<k, r>>}]
<1>1. writer \in [Writers -> Calls] /\ files \in [Files -> Registrants \cup {NoRecord, HalfWritten}]
  BY DEF HistoryInv, HistoryTypeOK
<1>2. Seen' = Seen
  BY <1>1, TmpApart, KeyFiles DEF BeginSave, Seen
<1>3. writer[w].pc = "idle"
  BY DEF BeginSave, Idle
<1>4. writer' = [writer EXCEPT ![w] = [pc |-> "writing", key |-> k, shows |-> r]]
  BY DEF BeginSave
<1>5. Current' = [Current EXCEPT ![w] = {<<k, r>>}]
  BY <1>1, <1>4 DEF Current
<1> QED BY <1>2, <1>3, <1>5 DEF Current

(* The rename is the moment of a save.                                      *)
LEMMA AtomicRename ==
  ASSUME HistoryInv, NEW w \in Writers, Renamed(w)
  PROVE  /\ Current[w] = {<<writer[w].key, writer[w].shows>>}
         /\ Seen' = [Seen EXCEPT ![writer[w].key] = writer[w].shows]
         /\ Current' = [Current EXCEPT ![w] = {}]
<1>1. writer \in [Writers -> Calls] /\ files \in [Files -> Registrants \cup {NoRecord, HalfWritten}]
  BY DEF HistoryInv, HistoryTypeOK
<1> DEFINE k == writer[w].key
           r == writer[w].shows
<1>2. writer[w].pc = "writing" /\ k \in Snapshots \cup StateKeys
  BY <1>1 DEF Renamed, Calls, Idle
<1>3. files' = [[files EXCEPT ![Tmp(k)] = NoRecord] EXCEPT ![File(k)] = r]
  BY DEF Renamed
<1>4. ASSUME NEW l \in Snapshots \cup StateKeys
      PROVE  files'[File(l)] = IF l = k THEN r ELSE files[File(l)]
  <2>1. File(l) \in Files /\ File(k) \in Files /\ Tmp(k) \in Files /\ Tmp(k) # File(l)
    BY <1>2, KeyFiles, TmpApart
  <2>2. File(l) = File(k) <=> l = k
    BY DEF File
  <2> HIDE DEF k, r
  <2> QED BY <1>1, <1>3, <2>1, <2>2
<1>5. Seen' = [Seen EXCEPT ![k] = r]
  BY <1>2, <1>4 DEF Seen
<1>6. writer'[w].pc # "writing" /\ \A v \in Writers : v # w => writer'[v] = writer[v]
  <2>1. writer' = [writer EXCEPT ![w] = IF k.kind = "history" THEN [writer[w] EXCEPT !.pc = "saved"]
                                        ELSE Idle]
    BY DEF Renamed
  <2>2. writer'[w] = IF k.kind = "history" THEN [writer[w] EXCEPT !.pc = "saved"] ELSE Idle
    BY <1>1, <2>1
  <2>3. [writer[w] EXCEPT !.pc = "saved"].pc = "saved"
    BY <1>1, <1>2 DEF Calls, Idle
  <2> QED BY <1>1, <2>1, <2>2, <2>3 DEF Idle
<1>7. Current' = [Current EXCEPT ![w] = {}]
  BY <1>6 DEF Current
<1> QED BY <1>2, <1>5, <1>7 DEF Current

(* A writer that is not saving, and will not be.                            *)
LEMMA AtomicAside ==
  ASSUME HistoryInv, NEW w \in Writers,
         IndexSnapshot(w) \/ ListSnapshots(w) \/ EmptyIndex(w) \/ IndexNext(w)
  PROVE  Seen' = Seen /\ Current' = Current
<1>1. writer \in [Writers -> Calls]
  BY DEF HistoryInv, HistoryTypeOK
<1>2. writer[w].pc \in {"idle", "saved", "listed", "indexing"} /\ UNCHANGED files
  BY DEF IndexSnapshot, ListSnapshots, EmptyIndex, IndexNext, Idle
<1>3. writer'[w].pc # "writing" /\ \A v \in Writers : v # w => writer'[v] = writer[v]
  <2>1. CASE IndexSnapshot(w) \/ ListSnapshots(w)
    BY <1>1, <2>1 DEF IndexSnapshot, ListSnapshots, Idle
  <2>2. CASE EmptyIndex(w)
    <3>1. writer'[w] = [writer[w] EXCEPT !.pc = "indexing"]
      BY <1>1, <2>2 DEF EmptyIndex
    <3>2. [writer[w] EXCEPT !.pc = "indexing"].pc = "indexing"
      BY <1>1, <2>2 DEF EmptyIndex, Calls, Idle
    <3> QED BY <1>1, <2>2, <3>1, <3>2 DEF EmptyIndex
  <2>3. CASE IndexNext(w)
    <3>1. ASSUME NEW l, writer' = [writer EXCEPT ![w].list = l] PROVE writer'[w].pc = "indexing"
      BY <1>1, <2>3, <3>1 DEF IndexNext, Calls, Idle
    <3>2. writer' = [writer EXCEPT ![w] = Idle]
          \/ \E e : writer' = [writer EXCEPT ![w].list = @ \ {e}]
      BY <2>3 DEF IndexNext
    <3> QED BY <1>1, <3>1, <3>2 DEF Idle
  <2> QED BY <2>1, <2>2, <2>3
<1> QED BY <1>2, <1>3 DEF Seen, Current

LEMMA AtomicDelete ==
  ASSUME HistoryInv, NEW f \in Files, ~f.tmp, files[f] # NoRecord, Delete(f)
  PROVE  /\ f.key \in Snapshots \cup StateKeys /\ Seen[f.key] # NoRecord
         /\ Seen' = [Seen EXCEPT ![f.key] = NoRecord] /\ Current' = Current
<1>1. f.key \in Snapshots \cup StateKeys /\ f = File(f.key)
  BY FileOfKey DEF Files
<1>2. files \in [Files -> Registrants \cup {NoRecord, HalfWritten}]
  BY DEF HistoryInv, HistoryTypeOK
<1>3. files' = [files EXCEPT ![f] = NoRecord] /\ UNCHANGED writer
  BY DEF Delete
<1>4. ASSUME NEW l \in Snapshots \cup StateKeys
      PROVE  files'[File(l)] = IF l = f.key THEN NoRecord ELSE files[File(l)]
  <2>1. File(l) \in Files /\ (File(l) = f <=> l = f.key)
    BY <1>1, KeyFiles DEF File
  <2> QED BY <1>2, <1>3, <2>1
<1> QED BY <1>1, <1>3, <1>4 DEF Seen, Current

LEMMA AtomicStep == HistoryInv /\ [HistoryNext]_records => [Atomic!Next]_(Atomic!vars)
<1> SUFFICES ASSUME HistoryInv, [HistoryNext]_records PROVE [Atomic!Next]_(Atomic!vars)
  OBVIOUS
<1>1. HistoryTypeOK
  BY DEF HistoryInv
<1> USE DEF Seen, Current
<1>2. ASSUME NEW w \in Writers, SaveHistorySnapshot(w) \/ SaveAlert(w) \/ SaveWatchState(w)
      PROVE  Atomic!Next
  <2>1. PICK k \in Snapshots \cup StateKeys, r \in Registrants : BeginSave(w, k, r)
    BY <1>1, <1>2, KeysMade, AlertKeyMade DEF SaveHistorySnapshot, SaveAlert, SaveWatchState
  <2>2. Atomic!Ask(w, k, r)
    BY <2>1, AtomicBegin DEF Atomic!Ask
  <2> QED BY <2>2 DEF Atomic!Next
<1>3. ASSUME NEW w \in Writers, Renamed(w) PROVE Atomic!Next
  BY <1>3, AtomicRename DEF Atomic!Save, Atomic!Next
<1>4. ASSUME NEW w \in Writers, SaveFails(w) PROVE Atomic!Next
  <2>1. writer[w].pc = "writing" /\ writer' = [writer EXCEPT ![w] = Idle] /\ UNCHANGED files
    BY <1>4 DEF SaveFails
  <2>2. Current[w] # {} /\ Current' = [Current EXCEPT ![w] = {}] /\ Seen' = Seen
    BY <1>1, <2>1 DEF Idle, HistoryTypeOK
  <2> QED BY <2>2 DEF Atomic!Fail, Atomic!Next
<1>5. ASSUME NEW w \in Writers,
             IndexSnapshot(w) \/ ListSnapshots(w) \/ EmptyIndex(w) \/ IndexNext(w)
      PROVE  UNCHANGED Atomic!vars
  BY <1>5, AtomicAside DEF Atomic!vars
<1>6. ASSUME DeleteSnapshot \/ DeleteWatchState \/ DeleteAlert PROVE Atomic!Next
  <2>1. PICK f \in Files : ~f.tmp /\ files[f] # NoRecord /\ Delete(f)
    BY <1>6 DEF DeleteSnapshot, DeleteWatchState, DeleteAlert, Loaded, Listed
  <2>2. f.key \in Snapshots \cup StateKeys /\ Atomic!Delete(f.key)
    BY <2>1, AtomicDelete DEF Atomic!Delete
  <2> QED BY <2>2 DEF Atomic!Next
<1>7. ASSUME Die PROVE Atomic!Next
  <2>1. Current' = [w \in Writers |-> {}] /\ Seen' = Seen
    BY <1>7 DEF Die, Idle
  <2> QED BY <2>1 DEF Atomic!Die, Atomic!Next
<1>8. ASSUME Second \/ UNCHANGED records PROVE UNCHANGED Atomic!vars
  BY <1>8 DEF Second, records, Atomic!vars
<1> QED BY <1>2, <1>3, <1>4, <1>5, <1>6, <1>7, <1>8 DEF HistoryNext

(* The storage implements the store of RecordStore, whose saves take one    *)
(* step: what fails or dies half-way is never read, nor the temporary file. *)
THEOREM RecordsStoredAtOnce == HistorySpec => StoresAtOnce
<1>1. HistorySpec => []HistoryInv
  BY InitHistoryInv, NextHistoryInv, PTL DEF HistorySpec
<1> QED BY <1>1, AtomicInit, AtomicStep, PTL DEF HistorySpec, StoresAtOnce, Atomic!Spec

------------------------------------------------------------------------------
(***************************************************************************)
(* The file of the keys.                                                   *)
(***************************************************************************)
(* The file of the keys.  While a call is alone, the others are idle, and   *)
(* what it copied or is about to write is the table as it is.               *)
AloneHolds ==
  \A a \in Admins : alone[a] =>
    /\ \A b \in Admins : b # a => caller[b] = "idle"
    /\ caller[a] \in {"copied", "opened"} => path \in Paths
    /\ caller[a] = "copied" => copied[a] = {keys}
    /\ caller[a] = "opened" => data[a] = keys /\ ~over[a]
SettledIdle == settled => \A a \in Admins : caller[a] = "idle"

FileSettled == settled => Readable(path) /\ file[path] = keys
KeysCore == KeysTypeOK /\ AloneHolds /\ SettledIdle /\ FileSettled

(* Whatever is in the table, in a copy, about to be written or in the file   *)
(* is something the key has been since the last call that met no other.      *)
FileSince == written /\ Readable(path) => \A k \in Keys : file[path][k] \in since[k]
SinceHolds ==
  /\ \A k \in Keys : keys[k] \in since[k]
  /\ \A a \in Admins : \A t \in copied[a] : \A k \in Keys : t[k] \in since[k]
  /\ \A a \in Admins : caller[a] = "opened" => \A k \in Keys : data[a][k] \in since[k]
  /\ \A a \in Admins : caller[a] # "copied" => copied[a] = {}
  /\ \A a \in Admins : caller[a] \in {"copied", "opened"} => path \in Paths
  /\ written => path \in Paths
  /\ FileSince

KeysInv == KeysCore /\ SinceHolds

LEMMA CoreBegin == KeysInit => KeysCore
<1> SUFFICES ASSUME KeysInit PROVE KeysCore
  OBVIOUS
<1>1. KeysTypeOK
  BY DEF KeysInit, KeysTypeOK, Table, NoKeys
<1> QED BY <1>1 DEF KeysInit, KeysCore, AloneHolds, SettledIdle, FileSettled

(* What a key may be read as is a key.                                      *)
LEMMA ReadsAreKeys ==
  ASSUME NEW old \in APIKey \cup {None}, NEW new \in APIKey \cup {None}
  PROVE  Reads(old, new) \subseteq APIKey \cup {None}
<1>1. old \in APIKey /\ new \in APIKey =>
        \A p \in SUBSET (old.permissions \cup new.permissions) : p \in SUBSET UNION PermissionSets
  BY DEF APIKey
<1>2. new \in APIKey => \A p \in SUBSET UNION PermissionSets : [new EXCEPT !.permissions = p] \in APIKey
  BY DEF APIKey
<1>3. CASE old = None \/ new = None BY <1>3 DEF Reads
<1>4. CASE ~(old = None \/ new = None) BY <1>1, <1>2, <1>4 DEF Reads
<1> QED BY <1>3, <1>4

LEMMA ChangeKeeps ==
  ASSUME KeysCore, NEW a \in Admins, NEW k \in Keys, NEW new \in APIKey \cup {None},
         Change(a, k, new), used' \subseteq Keys
  PROVE  KeysCore'
<1>1. KeysTypeOK
  BY DEF KeysCore
<1>2. keys' \in Table
  BY <1>1 DEF Change, KeysTypeOK, Table
<1>3. \A b \in Admins : copied'[b] \subseteq Table
  <2> SUFFICES ASSUME NEW b \in Admins, keys[k] # None, new # None, NEW t \in SeenBy(b, k, new)
               PROVE  t \in Table
    <3> SUFFICES ASSUME NEW b \in Admins PROVE copied'[b] \subseteq Table OBVIOUS
    <3>1. copied[b] \subseteq Table /\ copied'[b] = SeenBy(b, k, new)
      BY <1>1 DEF Change, KeysTypeOK
    <3>2. CASE keys[k] = None \/ new = None BY <3>1, <3>2 DEF SeenBy
    <3>3. CASE keys[k] # None /\ new # None BY <3>1, <3>3
    <3> QED BY <3>2, <3>3
  <2>1. copied[b] \subseteq Table /\ keys[k] \in APIKey /\ new \in APIKey
    BY <1>1 DEF KeysTypeOK, Table
  <2>2. CASE t \in copied[b]
    BY <2>1, <2>2
  <2>3. CASE \E u \in copied[b], r \in Reads(keys[k], new) : t = [u EXCEPT ![k] = r]
    <3>1. PICK u \in copied[b], r \in Reads(keys[k], new) : t = [u EXCEPT ![k] = r]
      BY <2>3
    <3>2. u \in Table /\ r \in APIKey \cup {None}
      BY <2>1, <3>1, ReadsAreKeys
    <3> QED BY <3>1, <3>2 DEF Table
  <2> QED BY <2>2, <2>3 DEF SeenBy
<1>4. KeysTypeOK'
  <2>1. keys[k] \in APIKey \cup {None}
    BY <1>1 DEF KeysTypeOK, Table
  <2>2. since' \in [Keys -> SUBSET (APIKey \cup {None})]
    BY <1>1, <2>1, ReadsAreKeys DEF Change, KeysTypeOK
  <2> QED BY <1>1, <1>2, <1>3, <2>2 DEF Change, KeysTypeOK
<1>5. /\ ~settled' /\ caller'[a] = "changed"
      /\ \A b \in Admins : b # a => caller'[b] = caller[b]
      /\ \A b \in Admins : alone'[b] => b = a /\ \A c \in Admins : caller[c] = "idle"
  BY <1>1 DEF Change, KeysTypeOK
<1>6. AloneHolds'
  BY <1>5 DEF AloneHolds
<1> QED BY <1>4, <1>5, <1>6 DEF KeysCore, SettledIdle, FileSettled

(* Every call is such a change.                                              *)
LEMMA CallChanges ==
  ASSUME KeysCore, NEW a \in Admins, NEW k \in Keys, Call(a, k)
  PROVE  /\ \E new \in APIKey \cup {None} : Change(a, k, new)
         /\ used' \subseteq Keys
<1>1. KeysTypeOK
  BY DEF KeysCore
<1>2. used' \subseteq Keys
  BY <1>1 DEF Call, GenerateAPIKey, DeleteAPIKey, DisableAPIKey, EnableAPIKey,
              UpdateKeyPermissions, UpdateKeyTerms, Has, KeysTypeOK
<1>3. {} \in SUBSET UNION PermissionSets /\ {"admin"} \in SUBSET UNION PermissionSets
      /\ \A p \in PermissionSets : p \in SUBSET UNION PermissionSets
  BY KeysAssumption
<1>4. keys[k] \in APIKey \cup {None}
  BY <1>1 DEF KeysTypeOK, Table
<1>5. \A x \in APIKey : /\ \A p \in SUBSET UNION PermissionSets : [x EXCEPT !.permissions = p] \in APIKey
                        /\ \A t \in Terms : [x EXCEPT !.terms = t] \in APIKey
  BY DEF APIKey
<1>6. \E new \in APIKey \cup {None} : Change(a, k, new)
  <2>1. CASE GenerateAPIKey(a, k)
    <3>1. PICK p \in PermissionSets, t \in Terms :
            Change(a, k, [permissions |-> IF p = {} THEN {"admin"} ELSE p, terms |-> t])
      BY <2>1 DEF GenerateAPIKey
    <3>2. [permissions |-> IF p = {} THEN {"admin"} ELSE p, terms |-> t] \in APIKey
      BY <1>3 DEF APIKey
    <3> QED BY <3>1, <3>2
  <2>2. CASE DeleteAPIKey(a, k)
    BY <2>2 DEF DeleteAPIKey
  <2>3. CASE DisableAPIKey(a, k)
    BY <1>3, <1>4, <1>5, <2>3 DEF DisableAPIKey, Has
  <2>4. CASE EnableAPIKey(a, k)
    BY <1>3, <1>4, <1>5, <2>4 DEF EnableAPIKey, Has
  <2>5. CASE UpdateKeyPermissions(a, k)
    BY <1>3, <1>4, <1>5, <2>5 DEF UpdateKeyPermissions, Has
  <2>6. CASE UpdateKeyTerms(a, k)
    BY <1>4, <1>5, <2>6 DEF UpdateKeyTerms, Has
  <2> QED BY <2>1, <2>2, <2>3, <2>4, <2>5, <2>6 DEF Call
<1> QED BY <1>2, <1>6

LEMMA CoreKept == KeysCore /\ [KeysNext]_keyFile => KeysCore'
<1> SUFFICES ASSUME KeysCore, [KeysNext]_keyFile PROVE KeysCore'
  OBVIOUS
<1>1. KeysTypeOK /\ AloneHolds /\ SettledIdle /\ FileSettled
  BY DEF KeysCore
<1>2. ASSUME NEW a \in Admins, NEW k \in Keys, Call(a, k) PROVE KeysCore'
  BY <1>2, CallChanges, ChangeKeeps
<1> USE DEF Return
<1>3. ASSUME NEW a \in Admins, Copy(a) PROVE KeysCore'
  <2>1. KeysTypeOK'
    BY <1>1, <1>3 DEF Copy, KeysTypeOK, Paths
  <2>2. path' \in Paths
    BY <1>1, <1>3 DEF Copy, KeysTypeOK, Paths
  <2>3. ~settled /\ ~settled'
    BY <1>1, <1>3 DEF Copy, SettledIdle
  <2>4. AloneHolds'
    BY <1>1, <1>3, <2>2 DEF Copy, AloneHolds, KeysTypeOK
  <2> QED BY <2>1, <2>3, <2>4 DEF KeysCore, SettledIdle, FileSettled
<1>4. ASSUME NEW a \in Admins, Open(a) PROVE KeysCore'
  <2>1. KeysTypeOK'
    BY <1>1, <1>4 DEF Open, KeysTypeOK
  <2>2. ~settled /\ ~settled'
    BY <1>1, <1>4 DEF Open, SettledIdle
  <2>3. AloneHolds'
    <3>1. \A b \in Admins : alone'[b] => b = a
      BY <1>1, <1>4 DEF Open, AloneHolds
    <3>2. alone[a] => copied[a] = {keys} /\ path \in Paths
      BY <1>1, <1>4 DEF Open, AloneHolds
    <3>3. /\ caller'[a] = "opened" /\ data'[a] \in copied[a] /\ ~over'[a] /\ UNCHANGED <<keys, path>>
          /\ \A b \in Admins : b # a => caller'[b] = caller[b]
      BY <1>1, <1>4 DEF Open, KeysTypeOK
    <3>4. alone'[a] => alone[a] /\ \A b \in Admins : b # a => caller[b] = "idle"
      BY <1>1, <1>4 DEF Open, AloneHolds
    <3> QED BY <3>1, <3>2, <3>3, <3>4 DEF AloneHolds
  <2> QED BY <2>1, <2>2, <2>3 DEF KeysCore, SettledIdle, FileSettled
<1>5. ASSUME NEW a \in Admins, CannotOpen(a) \/ CannotWrite(a) PROVE KeysCore'
  <2>1. KeysTypeOK'
    BY <1>1, <1>5 DEF CannotOpen, CannotWrite, KeysTypeOK
  <2>2. ~settled /\ ~settled'
    BY <1>1, <1>5 DEF CannotOpen, CannotWrite, SettledIdle
  <2>3. AloneHolds'
    <3>1. \A b \in Admins : alone[b] => b = a
      BY <1>1, <1>5 DEF CannotOpen, CannotWrite, AloneHolds
    <3>2. \A b \in Admins : ~alone'[b]
      BY <1>1, <1>5, <3>1 DEF CannotOpen, CannotWrite, KeysTypeOK
    <3> QED BY <3>2 DEF AloneHolds
  <2> QED BY <2>1, <2>2, <2>3 DEF KeysCore, SettledIdle, FileSettled
<1>6. ASSUME NEW a \in Admins, Write(a) PROVE KeysCore'
  <2>1. KeysTypeOK'
    <3>1. since' \in [Keys -> SUBSET (APIKey \cup {None})]
      <4>1. since' = IF alone[a] THEN [k \in Keys |-> {keys[k]}] ELSE since
        BY <1>6 DEF Write
      <4>2. [k \in Keys |-> {keys[k]}] \in [Keys -> SUBSET (APIKey \cup {None})]
        BY <1>1 DEF KeysTypeOK, Table
      <4> QED BY <1>1, <4>1, <4>2 DEF KeysTypeOK
    <3> QED BY <1>1, <1>6, <3>1 DEF Write, KeysTypeOK
  <2>2. AloneHolds'
    BY <1>1, <1>6 DEF Write, AloneHolds, KeysTypeOK
  <2>3. settled' => alone[a] /\ \A b \in Admins : caller'[b] = "idle"
    BY <1>1, <1>6 DEF Write, AloneHolds, KeysTypeOK
  <2>4. settled' => file'[path'] = keys' /\ path' \in Paths /\ keys' \in Table
    BY <1>1, <1>6, <2>3 DEF Write, AloneHolds, KeysTypeOK
  <2> QED BY <2>1, <2>2, <2>3, <2>4, MarkersAssumption
          DEF KeysCore, SettledIdle, FileSettled, Readable
<1>7. ASSUME NEW p \in Paths, NEW loaded \in BOOLEAN, Start(p, loaded) PROVE KeysCore'
  <2>1. Readable(p) => file[p] \in Table
    BY <1>1 DEF Readable, KeysTypeOK
  <2>2. NoKeys \in Table
    BY DEF NoKeys, Table
  <2>3. KeysTypeOK'
    <3>1. keys' \in Table BY <1>7, <2>1, <2>2 DEF Start
    <3>2. since' \in [Keys -> SUBSET (APIKey \cup {None})]
      BY <1>7, <3>1 DEF Start, Table
    <3>3. written' \in BOOLEAN /\ settled' \in BOOLEAN BY <1>7 DEF Start
    <3> QED BY <1>1, <1>7, <3>1, <3>2, <3>3 DEF Start, KeysTypeOK
  <2>4. AloneHolds' /\ SettledIdle'
    BY <1>7 DEF Start, AloneHolds, SettledIdle
  <2>5. FileSettled'
    BY <1>7 DEF Start, FileSettled, Readable
  <2> QED BY <2>3, <2>4, <2>5 DEF KeysCore
<1>8. CASE UNCHANGED keyFile
  BY <1>1, <1>8 DEF keyFile, KeysCore, KeysTypeOK, AloneHolds, SettledIdle, FileSettled, Readable
<1> QED BY <1>2, <1>3, <1>4, <1>5, <1>6, <1>7, <1>8 DEF KeysNext, LoadConfig, InitAPIKeys

LEMMA KeysBegin == KeysInit => KeysInv
<1> SUFFICES ASSUME KeysInit PROVE KeysInv OBVIOUS
<1>1. SinceHolds BY DEF KeysInit, SinceHolds, FileSince, NoKeys
<1> QED BY <1>1, CoreBegin DEF KeysInv

(* A change adds to the history of a key all that reading it may give, and   *)
(* so all that the copies may become.                                        *)
LEMMA SinceChange ==
  ASSUME KeysCore, SinceHolds, NEW a \in Admins, NEW k \in Keys,
         NEW new \in APIKey \cup {None}, Change(a, k, new)
  PROVE  SinceHolds'
<1>1. KeysTypeOK BY DEF KeysCore
<1>2. /\ \A l \in Keys : since[l] \subseteq since'[l]
      /\ Reads(keys[k], new) \subseteq since'[k] /\ new \in Reads(keys[k], new)
  BY <1>1 DEF Change, KeysTypeOK, Reads
<1>3. \A l \in Keys : keys'[l] \in since'[l]
  BY <1>1, <1>2 DEF Change, KeysTypeOK, Table, SinceHolds
<1>4. ASSUME NEW b \in Admins, NEW t \in copied'[b], NEW l \in Keys PROVE t[l] \in since'[l]
  <2>1. t \in SeenBy(b, k, new) BY <1>4 DEF Change
  <2>2. CASE t \in copied[b] BY <1>2, <2>2 DEF SinceHolds
  <2>3. CASE t \notin copied[b]
    <3>1. PICK u \in copied[b], r \in Reads(keys[k], new) : t = [u EXCEPT ![k] = r]
      BY <2>1, <2>3 DEF SeenBy
    <3>2. u \in Table /\ u[l] \in since[l] BY <1>1 DEF KeysTypeOK, SinceHolds
    <3>3. t[l] = IF l = k THEN r ELSE u[l] BY <3>1, <3>2 DEF Table
    <3> QED BY <1>2, <3>1, <3>2, <3>3
  <2> QED BY <2>2, <2>3
<1>5. \A b \in Admins : /\ caller'[b] = "opened" => caller[b] = "opened"
                        /\ caller'[b] \in {"copied", "opened"} => caller[b] = caller'[b]
                        /\ caller[b] # caller'[b] => caller[b] = "idle"
  BY <1>1 DEF Change, KeysTypeOK
<1>6. \A b \in Admins : caller'[b] = "opened" => \A l \in Keys : data'[b][l] \in since'[l]
  BY <1>2, <1>5 DEF Change, SinceHolds
<1>7. \A b \in Admins : caller'[b] # "copied" => copied'[b] = {}
  <2> SUFFICES ASSUME NEW b \in Admins, caller'[b] # "copied" PROVE copied'[b] = {} OBVIOUS
  <2>1. copied[b] = {} BY <1>5 DEF SinceHolds
  <2> QED BY <2>1 DEF Change, SeenBy
<1>8. FileSince' BY <1>1, <1>2 DEF Change, SinceHolds, FileSince, Readable, KeysTypeOK
<1>9. UNCHANGED <<path, written>> BY DEF Change
<1> QED BY <1>3, <1>4, <1>5, <1>6, <1>7, <1>8, <1>9 DEF SinceHolds

LEMMA KeysKept == KeysInv /\ [KeysNext]_keyFile => KeysInv'
<1> SUFFICES ASSUME KeysCore, SinceHolds, [KeysNext]_keyFile PROVE SinceHolds'
  BY CoreKept DEF KeysInv
<1>1. KeysTypeOK /\ AloneHolds /\ SettledIdle
  BY DEF KeysCore
<1>2. ASSUME NEW a \in Admins, NEW k \in Keys, Call(a, k) PROVE SinceHolds'
  BY <1>2, CallChanges, SinceChange DEF KeysCore
<1>3. ASSUME NEW a \in Admins, Copy(a) PROVE SinceHolds'
  <2>1. path' \in Paths /\ (path # "" => path' = path) /\ (written => path # "")
    <3>1. path' \in Paths /\ (path # "" => path' = path)
      BY <1>1, <1>3 DEF Copy, KeysTypeOK, Paths
    <3>2. written => path # ""
      BY KeysAssumption DEF SinceHolds, Paths, DefaultPath
    <3> QED BY <3>1, <3>2
  <2>2. FileSince' BY <1>3, <2>1 DEF Copy, SinceHolds, FileSince, Readable
  <2>3. \A b \in Admins : copied'[b] = IF b = a THEN {keys} ELSE copied[b]
    BY <1>1, <1>3 DEF Copy, KeysTypeOK
  <2>4. \A b \in Admins : caller'[b] = IF b = a THEN "copied" ELSE caller[b]
    BY <1>1, <1>3 DEF Copy, KeysTypeOK
  <2>5. /\ UNCHANGED <<keys, since, data, written>>
        /\ \A b \in Admins : caller'[b] = "opened" => caller[b] = "opened"
    <3>1. UNCHANGED <<keys, since, data, written>> BY <1>3 DEF Copy
    <3> QED BY <2>4, <3>1
  <2>6. \A b \in Admins : \A t \in copied'[b] : \A k \in Keys : t[k] \in since'[k]
    BY <2>3, <2>5 DEF SinceHolds
  <2>7. \A b \in Admins : caller'[b] # "copied" => copied'[b] = {}
    BY <2>3, <2>4 DEF SinceHolds
  <2> QED BY <2>1, <2>2, <2>5, <2>6, <2>7 DEF SinceHolds
<1>4. ASSUME NEW a \in Admins, Open(a) PROVE SinceHolds'
  <2>1. path \in Paths /\ file'[path] = Torn /\ path' = path
    BY <1>1, <1>4 DEF Open, SinceHolds, KeysTypeOK
  <2>2. FileSince' BY <2>1 DEF FileSince, Readable
  <2>3. \A b \in Admins : /\ copied'[b] = IF b = a THEN {} ELSE copied[b]
                          /\ caller'[b] = IF b = a THEN "opened" ELSE caller[b]
                          /\ b # a => data'[b] = data[b]
                          /\ data'[a] \in copied[a]
    BY <1>1, <1>4 DEF Open, KeysTypeOK
  <2> QED BY <1>4, <2>1, <2>2, <2>3 DEF Open, SinceHolds
<1>5. ASSUME NEW a \in Admins, CannotOpen(a) \/ CannotWrite(a) PROVE SinceHolds'
  <2>1. /\ \A b \in Admins : /\ caller'[b] = IF b = a THEN "idle" ELSE caller[b]
                             /\ b # a => copied'[b] = copied[b] /\ data'[b] = data[b]
        /\ copied'[a] = {} /\ UNCHANGED <<keys, since, path, file, written>>
    BY <1>1, <1>5 DEF CannotOpen, CannotWrite, Return, KeysTypeOK, SinceHolds
  <2>2. FileSince' BY <2>1 DEF SinceHolds, FileSince, Readable
  <2> QED BY <2>1, <2>2 DEF SinceHolds
<1>6. ASSUME NEW a \in Admins, Write(a) PROVE SinceHolds'
  <2>1. /\ caller[a] = "opened" /\ path \in Paths /\ UNCHANGED <<keys, path, copied, written>>
        /\ \A b \in Admins : /\ caller'[b] = IF b = a THEN "idle" ELSE caller[b]
                             /\ b # a => data'[b] = data[b]
        /\ file'[path] \in {data[a], Torn}
    BY <1>1, <1>6 DEF Write, Return, SinceHolds, KeysTypeOK
  <2>2. CASE ~alone[a]
    <3>1. since' = since BY <1>6, <2>2 DEF Write
    <3>2. FileSince' BY <2>1, <3>1 DEF SinceHolds, FileSince, Readable
    <3> QED BY <2>1, <3>1, <3>2 DEF SinceHolds
  <2>3. CASE alone[a]
    <3>1. since' = [k \in Keys |-> {keys[k]}] BY <1>6, <2>3 DEF Write
    <3>2. data[a] = keys /\ \A b \in Admins : caller'[b] = "idle" /\ copied'[b] = {}
      BY <1>1, <2>1, <2>3 DEF AloneHolds, SinceHolds
    <3>3. FileSince' BY <2>1, <3>1, <3>2 DEF FileSince, Readable
    <3> QED BY <2>1, <3>1, <3>2, <3>3 DEF SinceHolds
  <2> QED BY <2>2, <2>3
<1>7. ASSUME NEW p \in Paths, NEW loaded \in BOOLEAN, Start(p, loaded) PROVE SinceHolds'
  <2>1. written' => path' = p /\ keys' = file'[p]
    BY <1>7 DEF Start
  <2>2. FileSince' BY <1>7, <2>1 DEF Start, FileSince
  <2> QED BY <1>7, <2>1, <2>2 DEF Start, SinceHolds
<1>8. CASE UNCHANGED keyFile
  BY <1>8 DEF keyFile, SinceHolds, FileSince, Readable
<1> QED BY <1>2, <1>3, <1>4, <1>5, <1>6, <1>7, <1>8 DEF KeysNext, LoadConfig, InitAPIKeys

(* The file that the manager saves to holds the table after a call that no   *)
(* other overlaps, and never what a key was before such a call.              *)
THEOREM FileFollowsTable == KeysSpec => []FileFollows
<1>1. KeysInv => FileFollows
  BY DEF KeysInv, KeysCore, FileSettled, SinceHolds, FileSince, FileFollows
<1> QED BY <1>1, KeysBegin, KeysKept, PTL DEF KeysSpec

------------------------------------------------------------------------------
(***************************************************************************)
(* The providers that a configuration enables.                             *)
(***************************************************************************)
-----------------------------------------------------------------------------
(* The configurations.  What can be left of the sections, in their order:   *)
(* a section is done when fewer are left than follow it and itself.         *)
SectionNames == {"storage", "history", "alerts", "watches", "reverse"}
Rests ==
  {<<>>, <<"reverse">>, <<"watches", "reverse">>, <<"alerts", "watches", "reverse">>,
   <<"history", "alerts", "watches", "reverse">>, Sections}

Left == Len(applying.left)

(* A section that is done without an error is wired already, and the ones   *)
(* to come leave it so: those before found the storage, or made it.         *)
WiredSoFar ==
  ~applying.failed =>
    /\ applying.cfg["storage"] # "off" /\ Left <= 4 => providers.storage = "now"
    /\ applying.cfg["storage"] = "off" /\ Left = 4 =>
         (applying.stored <=> providers.storage = "now")
    /\ applying.cfg["history"] # "off" /\ Left <= 3 =>
         /\ providers.storage = "now"
         /\ providers.history = "now" \/ (~applying.stored /\ applying.cfg["storage"] = "off")
    /\ applying.cfg["alerts"] # "off" /\ Left <= 2 =>
         providers.storage = "now" /\ providers.alerts = "now"
    /\ applying.cfg["watches"] # "off" /\ Left <= 1 =>
         providers.storage = "now" /\ providers.watches = "now"
    /\ applying.cfg["reverse"] # "off" /\ Left = 0 => providers.reverse = "now"

StoredBefore == Left = 5 => (applying.stored <=> providers.storage = "now")

SetupInv ==
  /\ providers \in Providers
  /\ applying \in [cfg : LibraryConfig, left : Rests, stored : BOOLEAN, failed : BOOLEAN]
  /\ StoredBefore /\ WiredSoFar

LEMMA RestTaken ==
  ASSUME NEW left \in Rests
  PROVE  /\ Len(left) \in 0 .. 5 /\ left \in Seq(SectionNames)
         /\ left = <<>> <=> Len(left) = 0
         /\ left # <<>> =>
              /\ Tail(left) \in Rests /\ Len(Tail(left)) = Len(left) - 1
              /\ Head(left) = "storage" <=> Len(left) = 5
              /\ Head(left) = "history" <=> Len(left) = 4
              /\ Head(left) = "alerts" <=> Len(left) = 3
              /\ Head(left) = "watches" <=> Len(left) = 2
              /\ Head(left) = "reverse" <=> Len(left) = 1
<1> USE DEF Rests, Sections, SectionNames
<1>1. CASE left = <<>> BY <1>1
<1>2. CASE left = <<"reverse">> BY <1>2
<1>3. CASE left = <<"watches", "reverse">> BY <1>3
<1>4. CASE left = <<"alerts", "watches", "reverse">> BY <1>4
<1>5. CASE left = <<"history", "alerts", "watches", "reverse">> BY <1>5
<1>6. CASE left = <<"storage", "history", "alerts", "watches", "reverse">> BY <1>6
<1> QED BY <1>1, <1>2, <1>3, <1>4, <1>5, <1>6

LEMMA NamesOfSections == {Sections[i] : i \in 1 .. 5} = SectionNames
<1>1. \A i \in 1 .. 5 : i = 1 \/ i = 2 \/ i = 3 \/ i = 4 \/ i = 5 OBVIOUS
<1> QED BY <1>1 DEF Sections, SectionNames

(* What the providers are once the Init function of a section succeeded.    *)
LEMMA SectionSets ==
  ASSUME NEW p \in Providers, NEW s \in SectionNames
  PROVE  /\ Initialised(p, s) \in Providers
         /\ s \in {"storage", "history", "alerts", "watches"} => Initialised(p, s).storage = "now"
         /\ s \in {"alerts", "watches", "reverse"} => Initialised(p, s)[s] = "now"
         /\ s = "history" /\ p.storage = "now" => Initialised(p, s).history = "now"
         /\ s \in {"alerts", "watches", "reverse"} /\ p.storage = "now" =>
              /\ Initialised(p, s).storage = "now" /\ Initialised(p, s).history = p.history
              /\ s # "alerts" => Initialised(p, s).alerts = p.alerts
              /\ s # "watches" => Initialised(p, s).watches = p.watches
         /\ s = "reverse" => Initialised(p, s).storage = p.storage
                               /\ Initialised(p, s).history = p.history
                               /\ Initialised(p, s).alerts = p.alerts
                               /\ Initialised(p, s).watches = p.watches
<1>1. /\ p.storage \in {"nil", "now"} /\ p.history \in {"nil", "nil storage", "now", "former"}
      /\ p.alerts \in {"nil", "now", "former"} /\ p.watches \in {"nil", "now", "former"}
      /\ p.reverse \in {"nil", "now", "former"}
  BY DEF Providers
<1>2. /\ Aged(p.history) \in {"nil", "nil storage", "now", "former"}
      /\ Aged(p.alerts) \in {"nil", "now", "former"} /\ Aged(p.watches) \in {"nil", "now", "former"}
      /\ Aged(p.reverse) \in {"nil", "now", "former"}
  BY <1>1 DEF Aged
<1> DEFINE w == WithStorage(p, "now")
<1>3. w \in Providers /\ w.storage = "now"
  BY <1>1, <1>2 DEF WithStorage, Providers
<1>4. ASSUME NEW q \in Providers
      PROVE  /\ WithHistory(q, "now") \in Providers /\ WithHistory(q, "now").storage = q.storage
             /\ WithHistory(q, "now").history = "now"
             /\ WithHistory(q, "nil storage") \in Providers
             /\ WithHistory(q, "nil storage").storage = q.storage
  <2>1. Aged(q.reverse) \in {"nil", "now", "former"} BY DEF Aged, Providers
  <2> QED BY <2>1 DEF WithHistory, Providers
<1>5. CASE s = "storage" BY <1>3, <1>5 DEF Initialised
<1>6. CASE s = "history" 
  <2>1. Initialised(p, s) = HistorySet(p) BY <1>6 DEF Initialised
  <2>2. CASE p.storage = "now"
    <3>1. HistorySet(p) = WithHistory(p, "now") BY <2>2 DEF HistorySet
    <3>2. Initialised(p, s) \in Providers /\ Initialised(p, s).storage = "now"
            /\ Initialised(p, s).history = "now"
      BY <1>4, <2>1, <2>2, <3>1
    <3> QED BY <1>6, <3>2
  <2>3. CASE p.storage # "now"
    <3>1. HistorySet(p) = WithHistory(w, "nil storage") BY <2>3 DEF HistorySet
    <3> HIDE DEF w
    <3>2. Initialised(p, s) \in Providers /\ Initialised(p, s).storage = "now"
      BY <1>3, <1>4, <2>1, <3>1
    <3> QED BY <1>6, <2>3, <3>2
  <2> QED BY <2>2, <2>3
<1>7. CASE s = "reverse"
  <2>1. Initialised(p, s) = [p EXCEPT !.reverse = "now"] BY <1>7 DEF Initialised
  <2> QED BY <1>7, <2>1 DEF Providers
<1>8. ASSUME NEW q \in Providers, q.storage = "now" 
      PROVE  /\ [q EXCEPT !.alerts = "now"] \in Providers /\ [q EXCEPT !.watches = "now"] \in Providers
             /\ [q EXCEPT !.alerts = "now"].storage = "now" /\ [q EXCEPT !.watches = "now"].storage = "now"
             /\ [q EXCEPT !.alerts = "now"].alerts = "now" /\ [q EXCEPT !.watches = "now"].watches = "now"
             /\ [q EXCEPT !.alerts = "now"].history = q.history 
             /\ [q EXCEPT !.watches = "now"].history = q.history
             /\ [q EXCEPT !.alerts = "now"].watches = q.watches 
             /\ [q EXCEPT !.watches = "now"].alerts = q.alerts
  BY <1>8 DEF Providers
<1>9. CASE s \in {"alerts", "watches"}
  <2>0. Initialised(p, s) = StateSet(p, s) BY <1>9 DEF Initialised
  <2>1. PICK q : q = (IF p.storage = "now" THEN p ELSE w) OBVIOUS
  <2>2. q \in Providers /\ q.storage = "now" /\ (p.storage = "now" => q = p) BY <1>3, <2>1
  <2>3. Initialised(p, s) = [q EXCEPT ![s] = "now"] BY <2>0, <2>1 DEF StateSet
  <2> DEFINE r == Initialised(p, s)
  <2> HIDE DEF r
  <2>4. CASE s = "alerts"
    <3>1. r = [q EXCEPT !.alerts = "now"] BY <2>3, <2>4 DEF r
    <3>2. /\ r \in Providers /\ r.storage = "now" /\ r.alerts = "now" /\ r.history = q.history
          /\ r.watches = q.watches
      BY <2>2, <3>1, <1>8
    <3> QED BY <2>2, <2>4, <3>2 DEF r
  <2>5. CASE s = "watches"
    <3>1. r = [q EXCEPT !.watches = "now"] BY <2>3, <2>5 DEF r
    <3>2. /\ r \in Providers /\ r.storage = "now" /\ r.watches = "now" /\ r.history = q.history
          /\ r.alerts = q.alerts
      BY <2>2, <3>1, <1>8
    <3> QED BY <2>2, <2>5, <3>2 DEF r
  <2> QED BY <1>9, <2>4, <2>5
<1> QED BY <1>5, <1>6, <1>7, <1>9 DEF SectionNames

LEMMA SetupBegin == SetupInit => SetupInv
<1> SUFFICES ASSUME SetupInit PROVE SetupInv OBVIOUS
<1>1. providers \in Providers BY DEF SetupInit, Providers
<1>2. AllOff \in LibraryConfig /\ \A s \in SectionNames : AllOff[s] = "off"
  BY NamesOfSections, SetupAssumption DEF AllOff, LibraryConfig
<1>3. NoConfig \in [cfg : LibraryConfig, left : Rests, stored : BOOLEAN, failed : BOOLEAN]
  BY <1>2 DEF NoConfig, Rests
<1>4. Left = 0 /\ applying.cfg = AllOff BY DEF SetupInit, Left, NoConfig
<1>5. StoredBefore /\ WiredSoFar BY <1>2, <1>4 DEF StoredBefore, WiredSoFar, SectionNames
<1> QED BY <1>1, <1>3, <1>5 DEF SetupInit, SetupInv

LEMMA SetupKept == SetupInv /\ [SetupNext]_setup => SetupInv'
<1> SUFFICES ASSUME SetupInv, [SetupNext]_setup PROVE SetupInv' OBVIOUS
<1> DEFINE Applying == [cfg : LibraryConfig, left : Rests, stored : BOOLEAN, failed : BOOLEAN]
<1>0. providers \in Providers /\ applying \in Applying /\ StoredBefore /\ WiredSoFar
  BY DEF SetupInv
<1>a. providers.storage \in {"nil", "now"} BY <1>0 DEF Providers
<1>1. ASSUME NEW cfg \in LibraryConfig, ApplyWhoisLibraryConfig(cfg) PROVE SetupInv'
  <2>1. /\ applying' = [cfg |-> cfg, left |-> Sections, stored |-> providers.storage # "nil", failed |-> FALSE]
        /\ providers' = providers
    BY <1>1 DEF ApplyWhoisLibraryConfig, InOrder
  <2>2. Left' = 5 BY <2>1 DEF Left, Sections
  <2>3. applying' \in Applying BY <2>1 DEF Rests
  <2>4. StoredBefore' BY <1>a, <2>1 DEF StoredBefore
  <2>5. WiredSoFar' BY <2>2 DEF WiredSoFar
  <2> QED BY <1>0, <2>1, <2>3, <2>4, <2>5 DEF SetupInv
<1>2. CASE SectionApplied
  <2> DEFINE s == Head(applying.left)  type == applying.cfg[s]
  <2>0. applying.left \in Rests /\ applying.left # <<>> BY <1>0, <1>2 DEF SectionApplied
  <2>1. /\ Left \in 1 .. 5 /\ s \in SectionNames /\ Tail(applying.left) \in Rests
        /\ Len(Tail(applying.left)) = Left - 1
        /\ s = "storage" <=> Left = 5
        /\ s = "history" <=> Left = 4
        /\ s = "alerts" <=> Left = 3
        /\ s = "watches" <=> Left = 2
        /\ s = "reverse" <=> Left = 1
    <3>1. Len(applying.left) \in 1 .. 5 BY <2>0, RestTaken
    <3> QED BY <3>1, <2>0, RestTaken DEF Left, SectionNames
  <2>2. CASE /\ type # "off" /\ MayFail(providers, s, type)
             /\ applying' = [applying EXCEPT !.left = Tail(@), !.failed = TRUE]
             /\ UNCHANGED providers
    <3>1. applying' \in Applying /\ applying'.failed = TRUE /\ applying'.left = Tail(applying.left)
      BY <1>0, <2>1, <2>2
    <3> HIDE DEF Applying, s, type
    <3>2. Left' # 5
      <4>1. Left' = Len(Tail(applying.left)) BY <3>1 DEF Left
      <4>2. Left' = Left - 1 BY <2>1, <4>1, Zenon
      <4>3. \A n \in 1 .. 5 : n - 1 # 5 OBVIOUS
      <4> QED BY <2>1, <4>2, <4>3
    <3> QED BY <1>0, <2>2, <3>1, <3>2 DEF SetupInv, StoredBefore, WiredSoFar, Applying
  <2>3. CASE /\ type # "off" => CanSet(providers, s, type)
             /\ providers' = IF type = "off" THEN providers ELSE Initialised(providers, s)
             /\ applying' = [applying EXCEPT !.left = Tail(@)]
    <3>1. /\ applying' \in Applying /\ applying'.failed = applying.failed
          /\ applying'.cfg = applying.cfg /\ applying'.stored = applying.stored
          /\ applying'.left = Tail(applying.left)
      BY <1>0, <2>1, <2>3
    <3>2. Left' = Left - 1 BY <2>1, <3>1 DEF Left
    <3>0. type = applying.cfg[s] OBVIOUS
    <3> HIDE DEF Applying, s, type
    <3>3. StoredBefore' BY <2>1, <3>2 DEF StoredBefore
    <3>4. CASE type = "off"
      <4>1. providers' = providers BY <2>3, <3>4
      <4>2. WiredSoFar'
        BY <1>0, <2>1, <3>1, <3>2, <3>4, <3>0, <4>1 DEF WiredSoFar, StoredBefore
      <4> QED BY <1>0, <3>1, <3>3, <4>1, <4>2 DEF SetupInv, Applying
    <3>5. CASE type # "off"
      <4>1. providers' = Initialised(providers, s) BY <2>3, <3>5
      <4>2. providers' \in Providers BY <1>0, <2>1, <4>1, SectionSets
      <4>3. ASSUME s = "storage" PROVE WiredSoFar'
        <5>1. providers'.storage = "now" BY <1>0, <2>1, <4>1, <4>3, SectionSets
        <5>2. Left' = 4 BY <2>1, <3>2, <4>3
        <5>3. applying'.cfg["storage"] # "off" BY <3>1, <3>5, <3>0, <4>3
        <5> QED BY <5>1, <5>2, <5>3 DEF WiredSoFar
      <4>4. ASSUME s = "history" PROVE WiredSoFar'
        <5>1. /\ providers'.storage = "now" 
              /\ providers.storage = "now" => providers'.history = "now"
          BY <1>0, <2>1, <4>1, <4>4, SectionSets
        <5> QED BY <1>0, <1>a, <2>1, <3>1, <3>2, <3>5, <3>0, <4>4, <5>1 DEF WiredSoFar
      <4>5. ASSUME s = "alerts" PROVE WiredSoFar'
        <5>1. /\ providers'.storage = "now" /\ providers'.alerts = "now"
              /\ providers.storage = "now" => providers'.history = providers.history
          BY <1>0, <2>1, <4>1, <4>5, SectionSets
        <5> QED BY <1>0, <1>a, <2>1, <3>1, <3>2, <3>5, <3>0, <4>5, <5>1 DEF WiredSoFar
      <4>6. ASSUME s = "watches" PROVE WiredSoFar'
        <5>1. /\ providers'.storage = "now" /\ providers'.watches = "now"
              /\ providers.storage = "now" => /\ providers'.history = providers.history
                                              /\ providers'.alerts = providers.alerts
          BY <1>0, <2>1, <4>1, <4>6, SectionSets
        <5> QED BY <1>0, <1>a, <2>1, <3>1, <3>2, <3>5, <3>0, <4>6, <5>1 DEF WiredSoFar
      <4>7. ASSUME s = "reverse" PROVE WiredSoFar'
        <5>1. /\ providers'.reverse = "now" /\ providers'.storage = providers.storage
              /\ providers'.history = providers.history /\ providers'.alerts = providers.alerts
              /\ providers'.watches = providers.watches
          BY <1>0, <2>1, <4>1, <4>7, SectionSets
        <5> QED BY <1>0, <1>a, <2>1, <3>1, <3>2, <3>5, <3>0, <4>7, <5>1 DEF WiredSoFar
      <4>8. WiredSoFar' BY <2>1, <4>3, <4>4, <4>5, <4>6, <4>7 DEF SectionNames
      <4> QED BY <3>1, <3>3, <4>2, <4>8 DEF SetupInv, Applying
    <3> QED BY <3>4, <3>5
  <2> QED BY <1>2, <2>2, <2>3 DEF SectionApplied
<1>3. ASSUME NEW i \in 1 .. 5, Disable(Sections[i]) PROVE SetupInv'
  <2> DEFINE s == Sections[i]
  <2>1. applying' = NoConfig BY <1>3 DEF Disable
  <2>2. s \in SectionNames BY NamesOfSections
  <2>3. AllOff \in LibraryConfig /\ \A t \in SectionNames : AllOff[t] = "off"
    BY NamesOfSections, SetupAssumption DEF AllOff, LibraryConfig
  <2>4. applying' \in Applying BY <2>1, <2>3 DEF NoConfig, Rests
  <2>5. Left' = 0 /\ applying'.cfg = AllOff BY <2>1 DEF Left, NoConfig
  <2>6. StoredBefore' /\ WiredSoFar' BY <2>3, <2>5 DEF StoredBefore, WiredSoFar, SectionNames
  <2>7. providers' \in Providers
    <3>1. /\ Aged(providers.history) \in {"nil", "nil storage", "now", "former"}
          /\ Aged(providers.alerts) \in {"nil", "now", "former"}
          /\ Aged(providers.watches) \in {"nil", "now", "former"}
          /\ Aged(providers.reverse) \in {"nil", "now", "former"}
      BY <1>0 DEF Aged, Providers
    <3> HIDE DEF s
    <3>2. CASE s = "storage"
      <4>1. providers' = WithStorage(providers, "nil") BY <1>3, <3>2 DEF Disable, s
      <4> QED BY <1>0, <3>1, <4>1 DEF WithStorage, Providers
    <3>3. CASE s = "history"
      <4>1. providers' = WithHistory(providers, "nil") BY <1>3, <3>3 DEF Disable, s
      <4> QED BY <1>0, <3>1, <4>1 DEF WithHistory, Providers
    <3>4. CASE s \in {"alerts", "watches", "reverse"}
      <4>1. providers' = [providers EXCEPT ![s] = "nil"] BY <1>3, <3>4 DEF Disable, s
      <4>2. CASE s = "alerts" BY <1>0, <4>1, <4>2 DEF Providers
      <4>3. CASE s = "watches" BY <1>0, <4>1, <4>3 DEF Providers
      <4>4. CASE s = "reverse" BY <1>0, <4>1, <4>4 DEF Providers
      <4> QED BY <3>4, <4>2, <4>3, <4>4
    <3> QED BY <2>2, <3>2, <3>3, <3>4 DEF SectionNames
  <2> QED BY <2>4, <2>6, <2>7 DEF SetupInv
<1>4. CASE UNCHANGED setup
  BY <1>0, <1>4 DEF setup, SetupInv, StoredBefore, WiredSoFar, Left
<1> QED BY <1>1, <1>2, <1>3, <1>4 DEF SetupNext

(* ApplyWhoisLibraryConfig: whatever was set up before, what a              *)
(* configuration enables, once it was applied without a warning, works on   *)
(* the storage and the history that are set now, but for a history that     *)
(* was enabled without a storage.                                           *)
THEOREM ProvidersWired == SetupSpec => []SetupWired
<1>1. SetupInv => SetupWired
  <2> SUFFICES ASSUME SetupInv, applying.left = <<>>, ~applying.failed PROVE SetupWired
    BY DEF SetupWired
  <2>1. Left = 0 BY DEF Left
  <2>2. /\ applying.cfg["storage"] # "off" => providers.storage = "now"
        /\ applying.cfg["history"] # "off" => 
              providers.history = "now" \/ (~applying.stored /\ applying.cfg["storage"] = "off")
        /\ applying.cfg["alerts"] # "off" => providers.alerts = "now"
        /\ applying.cfg["watches"] # "off" => providers.watches = "now"
        /\ applying.cfg["reverse"] # "off" => providers.reverse = "now"
    BY <2>1 DEF SetupInv, WiredSoFar
  <2> QED BY <2>2 DEF SetupWired
<1> QED BY <1>1, SetupBegin, SetupKept, PTL DEF SetupSpec
=============================================================================
