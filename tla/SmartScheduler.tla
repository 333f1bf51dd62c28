---------------------------- MODULE SmartScheduler ----------------------------
(***************************************************************************)
(* The scheduler of pkg/whois/scheduler.go: it decides when the next query  *)
(* to a server may run and adapts to the results, which come back in any    *)
(* order, long after.  Latencies and the counters of GetStats are left out. *)
(* A configuration may be in any order: NewSmartScheduler replaces what is  *)
(* not positive and compares nothing.                                       *)
(***************************************************************************)
EXTENDS TokenBucket, FiniteSets

CONSTANTS
  Scheduled,                           \* the servers it knows
  DefaultInterval, MinInterval, MaxInterval, AdaptPercent,
  BackoffInitial, BackoffMax, BackoffPercent, UnhealthyThreshold,
  InitialRate, MinRate, MaxRate,       \* of the adaptive limiter, in parts
  RaiseAfter, KeepAfter, AdjustEvery,  \* 10 and 5 successes, 30 seconds
  MaxFlying                            \* bound: queries under way for a server

ASSUME SchedulerAssumption ==
  /\ {DefaultInterval, MinInterval, MaxInterval} \subseteq Nat \ {0}
  /\ AdaptPercent \in 1 .. 100
  /\ {BackoffInitial, BackoffMax, BackoffPercent} \subseteq Nat \ {0}
  /\ UnhealthyThreshold \in Nat
  /\ {InitialRate, MinRate, MaxRate} \subseteq Nat \ {0}
  /\ RaiseAfter \in Nat \ {0} /\ KeepAfter \in Nat /\ AdjustEvery \in Nat
  /\ MaxFlying \in Nat

VARIABLES
  server,   \* ServerState of each server
  rate,     \* the adaptive limiter: currentRate,
  adaptive, \*   bucket,
  success,  \*   consecutiveSuccess
  adjusted, \*   and lastAdjust
  flying,   \* the queries under way
  refused   \* history: until when the refusals of a server want it left alone

limiting  == <<rate, adaptive, success, adjusted>>
scheduler == <<server, limiting, flying, refused>>
-----------------------------------------------------------------------------
ServerState == [healthy : BOOLEAN, failures : 0 .. UnhealthyThreshold, backoff : Nat,
                nextAllowed : Nat, interval : Nat]

(* The burst of the adaptive limiter is int(2 * rate) tokens.               *)
AdaptiveBucket(r) == NewBucket(r, (2 * r) \div Unit)

SchedulerInit ==
  /\ now = 0
  /\ server = [s \in Scheduled |->
       [healthy |-> TRUE, failures |-> 0, backoff |-> 0,
        nextAllowed |-> 0, interval |-> DefaultInterval]]
  /\ rate = InitialRate /\ adaptive = AdaptiveBucket(InitialRate)
  /\ success = 0 /\ adjusted = 0
  /\ flying = [s \in Scheduled |-> 0]
  /\ refused = [s \in Scheduled |-> 0]
-----------------------------------------------------------------------------
(* The adaptive limiter. *)

AtLeast(lower, n) == IF n < lower THEN lower ELSE n
AtMost(upper, n)  == IF n > upper THEN upper ELSE n

(* adjustRate.                                                              *)
Raised == IF success >= KeepAfter THEN AtMost(MaxRate, (rate * 11) \div 10) ELSE rate
Lowered == AtLeast(MinRate, (rate * 7) \div 10)

(* A changed rate comes with a new, full bucket.                            *)
SetRate(r) == rate' = r /\ adaptive' = AdaptiveBucket(r) /\ adjusted' = now

(* AdaptiveRateLimiter.Allow: first the periodic adjustment, then a token.  *)
Due == now - adjusted > AdjustEvery
Ask(yes) ==
  LET b == IF Due THEN AdaptiveBucket(Raised) ELSE adaptive
  IN  /\ yes = Grants(b)
      /\ adaptive' = Drawn(b)
      /\ rate' = IF Due THEN Raised ELSE rate
      /\ adjusted' = IF Due THEN now ELSE adjusted
      /\ UNCHANGED success

RecordSuccess ==
  IF success + 1 >= RaiseAfter
  THEN success' = 0 /\ SetRate(Raised)
  ELSE success' = success + 1 /\ UNCHANGED <<rate, adaptive, adjusted>>

RecordRateLimited == success' = 0 /\ SetRate(Lowered)
-----------------------------------------------------------------------------
(* Schedule has an error for a server that is unhealthy.  Otherwise it says *)
(* how long to wait - for the back-off to end, for the limiter, or for the  *)
(* interval of the server - and its caller waits so long, and queries.      *)
BackedOff(s) == now < server[s].nextAllowed

Schedule(s) ==
  /\ server[s].healthy /\ flying[s] < MaxFlying
  /\ \/ BackedOff(s) /\ UNCHANGED limiting
     \/ ~BackedOff(s) /\ \E yes \in BOOLEAN : Ask(yes)
  /\ flying' = [flying EXCEPT ![s] = @ + 1]
  /\ UNCHANGED <<server, refused>>

(* handleRateLimit multiplies the back-off; only MarkServerHealthy ends it, *)
(* or a multiplier below one, by rounding.                                  *)
Backoff(s) ==
  IF server[s].backoff = 0 THEN BackoffInitial
  ELSE AtMost(BackoffMax, (server[s].backoff * BackoffPercent) \div 100)

(* increaseInterval, decreaseInterval.                                      *)
Longer(i)  == AtMost(MaxInterval, (i * (100 + AdaptPercent)) \div 100)
Shorter(i) == AtLeast(MinInterval, (i * (200 - AdaptPercent)) \div 200)

Land(s) == flying[s] > 0 /\ flying' = [flying EXCEPT ![s] = @ - 1]

(* ConsecutiveFailures, as far as it is compared.                           *)
OneMore(failures) == AtMost(UnhealthyThreshold, failures + 1)

(* RecordResult.  Mutation: a success ends the back-off.                    *)
SucceededAnew(s) ==
  /\ Land(s)
  /\ server' = [server EXCEPT ![s].failures = 0, ![s].interval = Shorter(@),
                              ![s].backoff = 0]
  /\ RecordSuccess
  /\ UNCHANGED refused
Succeeded(s) ==
  /\ Land(s)
  /\ server' = [server EXCEPT ![s].failures = 0, ![s].interval = Shorter(@)]
  /\ RecordSuccess
  /\ UNCHANGED refused

(* ErrRateLimited, and also ErrServerConnectFailed: the failure is counted, *)
(* but does not make the server unhealthy.                                  *)
Refused(s) ==
  /\ Land(s)
  /\ server' = [server EXCEPT ![s].failures = OneMore(@), ![s].interval = Longer(@),
                              ![s].backoff = Backoff(s), ![s].nextAllowed = now + Backoff(s)]
  /\ RecordRateLimited
  /\ refused' = [refused EXCEPT ![s] = AtLeast(@, now + server'[s].backoff)]

Failed(s) ==
  /\ Land(s)
  /\ server' = [server EXCEPT ![s].failures = OneMore(@), ![s].interval = Longer(@),
       ![s].healthy = @ /\ OneMore(server[s].failures) < UnhealthyThreshold]
  /\ UNCHANGED <<limiting, refused>>

(* MarkServerHealthy leaves NextAllowedTime; the owner's word counts more   *)
(* than what the server has said.                                           *)
MarkHealthy(s) ==
  /\ server' = [server EXCEPT ![s].healthy = TRUE, ![s].failures = 0, ![s].backoff = 0]
  /\ refused' = [refused EXCEPT ![s] = 0]
  /\ UNCHANGED <<limiting, flying>>

MarkUnhealthy(s) ==
  /\ server' = [server EXCEPT ![s].healthy = FALSE]
  /\ UNCHANGED <<limiting, flying, refused>>

SchedulerStep ==
  \E s \in Scheduled : \/ Schedule(s) \/ Succeeded(s) \/ Refused(s) \/ Failed(s)
                       \/ MarkHealthy(s) \/ MarkUnhealthy(s)

SchedulerNext ==
  \/ Tick /\ UNCHANGED scheduler
  \/ SchedulerStep /\ UNCHANGED now

SchedulerSpec == SchedulerInit /\ [][SchedulerNext]_<<now, scheduler>>
-----------------------------------------------------------------------------
(* No less than the least of some bounds, and no more than the greatest.    *)
Between(bounds) ==
  {n \in Nat : (\E low \in bounds : low <= n) /\ (\E high \in bounds : n <= high)}
Intervals == Between({DefaultInterval, MinInterval, MaxInterval})
Rates     == Between({InitialRate, MinRate, MaxRate})

SchedulerTypeOK ==
  /\ now \in Time
  /\ server \in [Scheduled -> ServerState]
  /\ adaptive \in Bucket /\ success \in Nat /\ adjusted \in Time
  /\ flying \in [Scheduled -> 0 .. MaxFlying] /\ refused \in [Scheduled -> Nat]
  \* What was adapted stays within what was configured, in whatever order
  \* results come and the bounds are.
  /\ rate \in Rates /\ adaptive.rate = rate
  /\ adaptive.tokens <= adaptive.capacity
  /\ \A s \in Scheduled : server[s].interval \in Intervals

(* The configurations, as the default one, in which a back-off never gets   *)
(* shorter.  In others a second refusal may ask for less than the first:    *)
(* BackoffInitialMs above BackoffMaxMs, or a multiplier below one.          *)
BackoffGrows == BackoffInitial <= BackoffMax /\ BackoffPercent >= 100

(* A late result never shortens the time for which an earlier refusal wants *)
(* the server left alone.                                                   *)
BackoffHolds == BackoffGrows => \A s \in Scheduled : server[s].nextAllowed >= refused[s]
=============================================================================
