----------------------------- MODULE TokenBucket -----------------------------
(***************************************************************************)
(* The token bucket of pkg/whois/ratelimit.go and its clock, for the two    *)
(* limiters that are made of such buckets.  Time is counted in seconds and  *)
(* tokens in parts, Unit of which make a token: the code's tokens and rates *)
(* are floats, and rates below one per second are real configurations.      *)
(***************************************************************************)
EXTENDS Integers

CONSTANTS
  Unit,     \* parts of one token
  MaxTime   \* bound: seconds

ASSUME BucketAssumption == Unit \in Nat \ {0} /\ MaxTime \in Nat

VARIABLE now

Time == 0 .. MaxTime

Tick == now < MaxTime /\ now' = now + 1

Bucket == [tokens : Nat, last : Time, rate : Nat, capacity : Nat]

(* maxTokens: without a burst, what a second brings.                        *)
Capacity(rate, burst) == IF burst > 0 THEN burst * Unit ELSE rate

NewBucket(rate, burst) ==
  [tokens |-> Capacity(rate, burst), last |-> now,
   rate |-> rate, capacity |-> Capacity(rate, burst)]

(* What is in a bucket when it is asked.                                    *)
Refilled(b) ==
  LET tokens == b.tokens + b.rate * (now - b.last)
  IN  IF tokens > b.capacity THEN b.capacity ELSE tokens

(* Mutation: the last part of a token counts as one.                        *)
GrantsPart(b) == Refilled(b) > 0
Grants(b) == Refilled(b) >= Unit

(* A bucket that was asked, whatever it answered.  Mutation: the time of    *)
(* the refill is noted only with a token.                                   *)
DrawnLate(b) ==
  [b EXCEPT !.tokens = IF Grants(b) THEN Refilled(b) - Unit ELSE Refilled(b),
            !.last = IF Grants(b) THEN now ELSE @]
Drawn(b) ==
  [b EXCEPT !.tokens = IF Grants(b) THEN Refilled(b) - Unit ELSE Refilled(b),
            !.last = now]
=============================================================================
