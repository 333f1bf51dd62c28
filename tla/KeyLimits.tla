------------------------------- MODULE KeyLimits -------------------------------
(***************************************************************************)
(* The limiter of pkg/security/middleware.go: a window of a minute for each *)
(* key and client, begun by the first request after the last one has ended. *)
(***************************************************************************)
EXTENDS TokenBucket

CONSTANTS
  Clients, KeyOf,    \* the addresses that send requests, each with a key
  RateLimits,        \* that UpdateKeyRateLimit may set
  KeyRateLimit,      \* that a key is made with
  Window, Retention  \* a minute and an hour, in ticks

ASSUME KeyLimitsAssumption ==
  /\ RateLimits \subseteq Nat /\ KeyRateLimit \in RateLimits
  /\ \E l \in RateLimits : \A m \in RateLimits : m <= l   \* an int has a bound
  /\ Window \in Nat /\ Retention \in Nat /\ Window < Retention

VARIABLES
  keyLimit,      \* the RateLimit of each key
  rateLimiters,  \* lastReset, count and rateLimit of each client, if any
  admitted       \* history: how many requests of each client since each tick

requests == <<keyLimit, rateLimiters, admitted>>
-----------------------------------------------------------------------------
KeysUsed == {KeyOf[c] : c \in Clients}
NoLimiter == [lastReset |-> 0, count |-> 0, rateLimit |-> -1]
Exists(c) == rateLimiters[c] # NoLimiter

KeyLimitsInit ==
  /\ now = 0
  /\ keyLimit = [k \in KeysUsed |-> KeyRateLimit]
  /\ rateLimiters = [c \in Clients |-> NoLimiter]
  /\ admitted = [c \in Clients |-> [t \in Time |-> 0]]

(* The limiter a request finds: its limit is that of the key when it was    *)
(* made.  Mutation: a new window keeps the time at which the old one began. *)
FoundUnmoved(c) ==
  LET l == IF Exists(c) THEN rateLimiters[c]
           ELSE [lastReset |-> now, count |-> 0, rateLimit |-> keyLimit[KeyOf[c]]]
  IN  IF now - l.lastReset > Window THEN [l EXCEPT !.count = 0] ELSE l
Found(c) ==
  LET l == IF Exists(c) THEN rateLimiters[c]
           ELSE [lastReset |-> now, count |-> 0, rateLimit |-> keyLimit[KeyOf[c]]]
  IN  IF now - l.lastReset > Window THEN [l EXCEPT !.count = 0, !.lastReset = now] ELSE l

(* checkRateLimit *)
Request(c) ==
  LET l == Found(c)
      passes == l.count < l.rateLimit
  IN  /\ rateLimiters' = [rateLimiters EXCEPT ![c] =
                            [l EXCEPT !.count = IF passes THEN @ + 1 ELSE @]]
      /\ admitted' = [admitted EXCEPT ![c] = [t \in Time |->
                        IF passes /\ t <= now THEN @[t] + 1 ELSE @[t]]]
      /\ UNCHANGED keyLimit

(* cleanupRateLimiters *)
Cleanup ==
  /\ rateLimiters' = [c \in Clients |->
       IF Exists(c) /\ now - rateLimiters[c].lastReset > Retention
       THEN NoLimiter ELSE rateLimiters[c]]
  /\ UNCHANGED <<keyLimit, admitted>>

UpdateRateLimit(k) ==
  /\ \E l \in RateLimits : keyLimit' = [keyLimit EXCEPT ![k] = l]
  /\ UNCHANGED <<rateLimiters, admitted>>

KeyLimitsNext ==
  \/ Tick /\ UNCHANGED requests
  \/ /\ UNCHANGED now
     /\ (\E c \in Clients : Request(c)) \/ Cleanup \/ \E k \in KeysUsed : UpdateRateLimit(k)

KeyLimitsSpec == KeyLimitsInit /\ [][KeyLimitsNext]_<<now, requests>>
-----------------------------------------------------------------------------
KeyLimitsTypeOK ==
  /\ now \in Time /\ keyLimit \in [KeysUsed -> RateLimits]
  /\ rateLimiters \in
       [Clients -> [lastReset : Time, count : Nat, rateLimit : RateLimits \cup {-1}]]
  /\ admitted \in [Clients -> [Time -> Nat]]

(* Windows have fixed ends and a limiter may be thrown away, but no stretch *)
(* as long as a window sees more requests of a client than twice the        *)
(* highest limit of its key.                                                *)
WindowHeld ==
  \A c \in Clients : \A t \in 0 .. now :
    now - t <= Window =>
      \E l \in RateLimits : /\ \A m \in RateLimits : m <= l
                            /\ admitted[c][t] <= 2 * l
=============================================================================
