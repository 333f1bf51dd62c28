----------------------------- MODULE RateLimiter -----------------------------
(***************************************************************************)
(* The rate limiter of pkg/whois/ratelimit.go: one token bucket for all     *)
(* queries, and one for each server with a rate of its own.                 *)
(***************************************************************************)
EXTENDS TokenBucket, FiniteSets

CONSTANTS
  Servers,
  GlobalRate,  \* parts per second, 0 for no global bucket
  ServerRate,  \* the same for each server, 0 if PerServerRate has none
  BurstSize    \* in tokens

ASSUME LimiterAssumption ==
  /\ "global" \notin Servers
  /\ GlobalRate \in Nat /\ BurstSize \in Nat /\ ServerRate \in [Servers -> Nat]

VARIABLES
  bucket,   \* globalBucket and serverBuckets
  granted   \* history: how many tokens each bucket has given since each second

limits  == <<bucket, granted>>
limiter == <<now, limits>>
-----------------------------------------------------------------------------
Buckets == {"global"} \cup Servers
Rate(b) == IF b = "global" THEN GlobalRate ELSE ServerRate[b]
Limited(b) == Rate(b) > 0

LimiterInit ==
  /\ now = 0
  /\ bucket = [b \in Buckets |-> NewBucket(Rate(b), BurstSize)]
  /\ granted = [b \in Buckets |-> [t \in Time |-> 0]]

(* The buckets a call asks: the server's only if the global one grants it.  *)
Asked(s) ==
  {b \in {"global"} : Limited(b)}
    \cup {b \in {s} : Limited(b) /\ (Limited("global") => Grants(bucket["global"]))}

(* Allow(s) draws from each bucket it asks, and so takes a global token     *)
(* also for a call that the bucket of the server refuses.                   *)
Allow(s) ==
  /\ bucket' = [b \in Buckets |-> IF b \in Asked(s) THEN Drawn(bucket[b]) ELSE bucket[b]]
  /\ granted' = [b \in Buckets |-> [t \in Time |->
       IF b \in Asked(s) /\ Grants(bucket[b]) /\ t <= now
       THEN granted[b][t] + 1 ELSE granted[b][t]]]
  /\ UNCHANGED now

LimiterNext == (Tick /\ UNCHANGED limits) \/ \E s \in Servers : Allow(s)
LimiterSpec == LimiterInit /\ [][LimiterNext]_limiter
-----------------------------------------------------------------------------
LimiterTypeOK ==
  /\ now \in Time
  /\ bucket \in [Buckets -> Bucket]
  /\ granted \in [Buckets -> [Time -> Nat]]

(* A rate holds over every stretch of time, not on average: from any second *)
(* on, a bucket has given no more than a full bucket and what it was        *)
(* refilled with since.                                                     *)
RateHeld ==
  \A b \in Buckets : \A t \in 0 .. now :
    Unit * granted[b][t] <= Capacity(Rate(b), BurstSize) + Rate(b) * (now - t)
=============================================================================
