------------------------------ MODULE ClientProofs -----------------------------
(***************************************************************************)
(* Proofs about QueryClient, for any number of callers, proxies, retries    *)
(* and reloads: the pool, the proxy that is charged, the end of each query, *)
(* which domains are answered, and what a nil proxy comes from.             *)
(***************************************************************************)
EXTENDS QueryClient, WellFoundedInduction, TLAPS

(* A query, with servers from a set.                                        *)
Shaped(S) ==
  [pc : Working \cup Results \cup {"idle"}, domain : Domains \cup {None},
   cancelled : BOOLEAN, attempt : 0 .. MaxRetries, left : 0 .. MaxProxies,
   mine : Proxies \cup {None}, server : S, text : Seq(Answers)]

Fits(q) == q \in Shaped({q.server}) /\ Len(q.text) <= MaxReferrals

QueriesFit ==
  /\ \E S : query \in [Callers -> Shaped(S)]
  /\ \A c \in Callers : Fits(query[c])

PoolTyped ==
  /\ list \in Seq(Proxies) /\ Len(list) <= MaxProxies
  /\ next \in Nat /\ failures \in [Proxies -> 0 .. 3]
  /\ pooled \in BOOLEAN /\ alone \subseteq Callers

(* While the query of a caller has met no other, no other is under way.     *)
AloneMeansAlone == \A c \in alone : \A x \in Callers : Active(x) => x = c

ClientInv == PoolTyped /\ PoolSound /\ QueriesFit /\ AloneMeansAlone /\ ChargedIsDialled
-----------------------------------------------------------------------------
(* The measure. *)

LEMMA Bounds == MaxRetries \in Nat /\ MaxProxies \in Nat /\ AllTries \in Nat
                /\ AllTries = 8 * MaxProxies + 8
BY ClientAssumption DEF AllTries, TrySteps

LEMMA FitsParts ==
  ASSUME NEW q, Fits(q)
  PROVE  /\ q.attempt \in 0 .. MaxRetries /\ q.left \in 0 .. MaxProxies
         /\ q.text \in Seq(Answers) /\ Len(q.text) \in 0 .. 3
         /\ q.domain \in Domains \cup {None} /\ q.cancelled \in BOOLEAN
         /\ q.mine \in Proxies \cup {None} /\ q.pc \in Working \cup Results \cup {"idle"}
<1>1. q \in Shaped({q.server}) /\ Len(q.text) <= 3
  BY DEF Fits, MaxReferrals
<1>2. q.text \in Seq(Answers)
  BY <1>1 DEF Shaped
<1>3. Len(q.text) \in Nat
  BY <1>2
<1>4. Len(q.text) \in 0 .. 3
  <2>1. \A n : n \in Nat /\ n <= 3 => n \in 0 .. 3
    OBVIOUS
  <2> QED BY <1>1, <1>3, <2>1
<1>5. q.attempt \in 0 .. MaxRetries /\ q.left \in 0 .. MaxProxies
  BY <1>1 DEF Shaped
<1>6. /\ q.domain \in Domains \cup {None} /\ q.cancelled \in BOOLEAN
      /\ q.mine \in Proxies \cup {None} /\ q.pc \in Working \cup Results \cup {"idle"}
  BY <1>1 DEF Shaped
<1> QED BY <1>2, <1>4, <1>5, <1>6

(* What is left of the attempt that a query is in.                          *)
OfAttempt(q) == IF q.pc = "lookup" THEN AllTries ELSE TrySteps * q.left + StepsOfTry(q)

LEMMA OfAttemptBounds ==
  ASSUME NEW q, Fits(q), q.pc \in Working \cup {"idle"}
  PROVE  StepsOfTry(q) \in 0 .. 7 /\ OfAttempt(q) \in 0 .. AllTries
<1>1. /\ Len(q.text) \in 0 .. 3 /\ q.left \in 0 .. MaxProxies
  BY FitsParts
<1>2. StepsOfTry(q) \in 0 .. 7
  <2>1. CASE q.pc = "dial"
    <3>1. \A n \in 0 .. 3 : 6 - n \in 0 .. 7
      OBVIOUS
    <3>2. StepsOfTry(q) = 6 - Len(q.text)
      BY <2>1 DEF StepsOfTry
    <3> QED BY <1>1, <3>1, <3>2
  <2>2. CASE q.pc = "aim"
    BY <2>2 DEF StepsOfTry
  <2>3. CASE q.pc \in {"store", "blame"}
    BY <2>3 DEF StepsOfTry
  <2>4. CASE q.pc \notin {"dial", "aim", "store", "blame"}
    BY <2>4 DEF StepsOfTry
  <2> QED BY <2>1, <2>2, <2>3, <2>4
<1>3. 8 * q.left \in 0 .. 8 * MaxProxies
  BY <1>1, Bounds
<1>4. OfAttempt(q) = AllTries \/ OfAttempt(q) = 8 * q.left + StepsOfTry(q)
  BY DEF OfAttempt, TrySteps
<1> QED BY <1>2, <1>3, <1>4, Bounds

LEMMA SameAttempt ==
  ASSUME NEW q, NEW r, Fits(q), Fits(r), q.pc \in Working, r.pc \in Working,
         r.attempt = q.attempt, OfAttempt(r) < OfAttempt(q)
  PROVE  StepsLeft(r) < StepsLeft(q)
<1> DEFINE P == (MaxRetries - q.attempt) * (AllTries + 1)
<1>1. P \in Int
  <2>1. q.attempt \in Int /\ MaxRetries \in Int /\ AllTries + 1 \in Int
    BY Bounds, FitsParts
  <2>2. \A i, k \in Int : i * k \in Int
    OBVIOUS
  <2> QED BY <2>1, <2>2
<1>2. StepsLeft(q) = P + OfAttempt(q) /\ StepsLeft(r) = P + OfAttempt(r)
  BY DEF StepsLeft, OfAttempt
<1>3. OfAttempt(q) \in Int /\ OfAttempt(r) \in Int
  BY OfAttemptBounds, Bounds
<1> HIDE DEF P
<1> QED BY <1>1, <1>2, <1>3

LEMMA NextAttempt ==
  ASSUME NEW q, NEW r, Fits(q), Fits(r), q.pc \in Working, r.pc = "lookup",
         r.attempt = q.attempt + 1
  PROVE  StepsLeft(r) < StepsLeft(q)
<1> DEFINE P == (MaxRetries - r.attempt) * (AllTries + 1)
           m == MaxRetries - r.attempt
<1>1. P \in Int /\ m \in Int /\ MaxRetries - q.attempt = m + 1
  <2>1. q.attempt \in Int /\ r.attempt \in Int /\ MaxRetries \in Int /\ AllTries + 1 \in Int
    BY Bounds, FitsParts
  <2>2. \A i, k \in Int : i * k \in Int
    OBVIOUS
  <2>3. m \in Int /\ MaxRetries - q.attempt = m + 1
    BY <2>1
  <2> QED BY <2>1, <2>2, <2>3
<1>2. \A i, k \in Int : (i + 1) * k = i * k + k
  OBVIOUS
<1>3. (MaxRetries - q.attempt) * (AllTries + 1) = P + (AllTries + 1)
  BY <1>1, <1>2, Bounds
<1>4. StepsLeft(q) = P + (AllTries + 1) + OfAttempt(q) /\ StepsLeft(r) = P + AllTries
  BY <1>3 DEF StepsLeft, OfAttempt
<1>5. OfAttempt(q) \in Nat
  BY OfAttemptBounds, Bounds
<1> HIDE DEF P
<1> QED BY <1>1, <1>4, <1>5, Bounds
-----------------------------------------------------------------------------
(* How a step of a query leaves it: as one that fits, with fewer steps to    *)
(* take, and bound for a server through the proxy it had.                   *)
Onward(c, q) ==
  /\ Set(c, q) /\ Fits(q)
  /\ q.pc \in Working => StepsLeft(q) < StepsLeft(query[c])
  /\ q.pc \in {"dial", "store"} => query[c].pc \in {"aim", "dial"} /\ q.mine = query[c].mine

LEMMA IdleShaped == Idle \in Shaped({None}) /\ Idle.text = <<>> /\ Idle.server = None
<1>1. 0 \in 0 .. MaxRetries /\ 0 \in 0 .. MaxProxies /\ <<>> \in Seq(Answers)
  BY Bounds
<1> QED BY <1>1 DEF Shaped, Idle

LEMMA IdleFits ==
  ASSUME NEW pc \in Working \cup Results \cup {"idle"}
  PROVE  Fits([Idle EXCEPT !.pc = pc])
<1> DEFINE q == [Idle EXCEPT !.pc = pc]
<1>1. q \in Shaped({None}) /\ q.text = <<>> /\ q.server = None
  BY IdleShaped DEF Shaped
<1>2. Len(q.text) <= 3
  BY <1>1
<1> QED BY <1>1, <1>2 DEF Fits, MaxReferrals

LEMMA EndOnward ==
  ASSUME NEW c \in Callers, NEW result \in Results, End(c, result)
  PROVE  \E q : Onward(c, q)
<1> DEFINE q == [Idle EXCEPT !.pc = result]
<1>1. Set(c, q) /\ Fits(q)
  BY IdleFits DEF End
<1>2. q.pc = result /\ result \notin Working
  BY DEF Idle, Results, Working
<1>3. Onward(c, q)
  BY <1>1, <1>2 DEF Onward, Results
<1> QED BY <1>3

LEMMA RetryOnward ==
  ASSUME NEW c \in Callers, QueriesFit, query[c].pc \in Working, Retry(c)
  PROVE  \E q : Onward(c, q)
<1>1. CASE query[c].attempt < MaxRetries
  <2> DEFINE q == [Idle EXCEPT !.pc = "lookup", !.domain = query[c].domain,
                               !.cancelled = query[c].cancelled,
                               !.attempt = query[c].attempt + 1]
  <2>1. Set(c, q)
    BY <1>1 DEF Retry
  <2>2. query[c].domain \in Domains \cup {None} /\ query[c].cancelled \in BOOLEAN
        /\ query[c].attempt \in 0 .. MaxRetries /\ Fits(query[c])
    BY FitsParts DEF QueriesFit
  <2>3. query[c].attempt + 1 \in 0 .. MaxRetries
    BY <1>1, <2>2, Bounds
  <2>6. /\ q \in Shaped({None}) /\ q.text = <<>> /\ q.server = None
        /\ q.pc = "lookup" /\ q.attempt = query[c].attempt + 1
    BY <2>2, <2>3, IdleShaped DEF Shaped, Working
  <2>7. Len(q.text) <= 3
    BY <2>6
  <2>8. Fits(q)
    BY <2>6, <2>7 DEF Fits, MaxReferrals
  <2>4. StepsLeft(q) < StepsLeft(query[c])
    BY <2>2, <2>6, <2>8, NextAttempt
  <2>5. Onward(c, q)
    BY <2>1, <2>4, <2>6, <2>8 DEF Onward
  <2> QED BY <2>5
<1>2. CASE ~(query[c].attempt < MaxRetries)
  BY <1>2, EndOnward DEF Retry, Results
<1> QED BY <1>1, <1>2

(* A step to another place of the same attempt.                             *)
LEMMA GoOnward ==
  ASSUME NEW c \in Callers, QueriesFit, query[c].pc \in Working,
         NEW q, Set(c, q), Fits(q), q.pc \in Working, q.attempt = query[c].attempt,
         OfAttempt(q) < OfAttempt(query[c]),
         q.pc \in {"dial", "store"} => query[c].pc \in {"aim", "dial"} /\ q.mine = query[c].mine
  PROVE  \E r : Onward(c, r)
<1>1. Fits(query[c])
  BY DEF QueriesFit
<1>2. Onward(c, q)
  BY <1>1, SameAttempt DEF Onward
<1> QED BY <1>2

LEMMA FaultOnward ==
  ASSUME NEW c \in Callers, QueriesFit, query[c].pc \in {"aim", "dial"},
         NEW retryable \in BOOLEAN, NEW result \in Results,
         query[c].pc = "dial" => query[c].text = <<>>,
         Fault(c, retryable, result)
  PROVE  \E q : Onward(c, q)
<1>1. CASE pooled
  <2> DEFINE q == [query[c] EXCEPT !.pc = "blame"]
  <2>1. Set(c, q)
    BY <1>1 DEF Fault, Go
  <2>2. Fits(query[c])
    BY DEF QueriesFit
  <2>3. Fits(q) /\ q.pc = "blame" /\ q.attempt = query[c].attempt /\ q.left = query[c].left
    BY <2>2 DEF Fits, Shaped, Working
  <2>4. StepsOfTry(q) = 2 /\ StepsOfTry(query[c]) \in {6, 7} /\ query[c].left \in Nat
    BY <2>2, <2>3, Bounds DEF StepsOfTry, Fits, Shaped
  <2>5. OfAttempt(q) < OfAttempt(query[c])
    BY <2>3, <2>4 DEF OfAttempt, TrySteps
  <2>6. query[c].pc \in Working /\ q.pc \in Working /\ q.pc \notin {"dial", "store"}
    BY <2>3 DEF Working
  <2> HIDE DEF q
  <2> QED BY <2>1, <2>3, <2>5, <2>6, GoOnward
<1>2. CASE ~pooled
  BY <1>2, RetryOnward, EndOnward DEF Fault, Working
<1> QED BY <1>1, <1>2
-----------------------------------------------------------------------------
(* Every step of a query leaves it so. *)

(* A field of a query set anew.                                             *)
LEMMA SetFits ==
  ASSUME NEW q, Fits(q), NEW pc \in Working, NEW n \in 0 .. MaxProxies,
         NEW p \in Proxies \cup {None}, NEW s
  PROVE  /\ Fits([q EXCEPT !.pc = pc])
         /\ Fits([q EXCEPT !.pc = pc, !.left = n])
         /\ Fits([q EXCEPT !.pc = pc, !.mine = p, !.left = n])
         /\ Fits([q EXCEPT !.pc = pc, !.server = s])
         /\ Fits([q EXCEPT !.pc = pc, !.text = <<>>, !.server = s])
<1>1. q \in Shaped({q.server}) /\ Len(q.text) <= 3
  BY DEF Fits, MaxReferrals
<1>2. <<>> \in Seq(Answers) /\ Len(<<>>) <= 3
  OBVIOUS
<1>3. Fits([q EXCEPT !.pc = pc])
  BY <1>1 DEF Fits, MaxReferrals, Shaped
<1>4. Fits([q EXCEPT !.pc = pc, !.left = n])
  BY <1>1 DEF Fits, MaxReferrals, Shaped
<1>5. Fits([q EXCEPT !.pc = pc, !.mine = p, !.left = n])
  BY <1>1 DEF Fits, MaxReferrals, Shaped
<1>6. Fits([q EXCEPT !.pc = pc, !.server = s])
  BY <1>1 DEF Fits, MaxReferrals, Shaped
<1>7. Fits([q EXCEPT !.pc = pc, !.text = <<>>, !.server = s])
  BY <1>1, <1>2 DEF Fits, MaxReferrals, Shaped
<1> QED BY <1>3, <1>4, <1>5, <1>6, <1>7

(* The steps of a try, where they are.                                      *)
LEMMA TryOf ==
  ASSUME NEW q, Fits(q)
  PROVE  /\ q.left \in 0 .. MaxProxies /\ Len(q.text) \in 0 .. 3
         /\ q.pc = "lookup" => OfAttempt(q) = 8 * MaxProxies + 8
         /\ q.pc = "pick" => OfAttempt(q) = 8 * q.left
         /\ q.pc = "aim" => OfAttempt(q) = 8 * q.left + 7
         /\ q.pc = "dial" => OfAttempt(q) = 8 * q.left + (6 - Len(q.text))
         /\ q.pc \in {"store", "blame"} => OfAttempt(q) = 8 * q.left + 2
<1>1. q.left \in 0 .. MaxProxies /\ Len(q.text) \in 0 .. 3
  BY FitsParts
<1>2. q.pc = "lookup" => OfAttempt(q) = 8 * MaxProxies + 8
  BY Bounds DEF OfAttempt
<1>3. q.pc # "lookup" => OfAttempt(q) = 8 * q.left + StepsOfTry(q)
  BY DEF OfAttempt, TrySteps
<1>4. /\ q.pc = "pick" => StepsOfTry(q) = 0
      /\ q.pc = "aim" => StepsOfTry(q) = 7
      /\ q.pc = "dial" => StepsOfTry(q) = 6 - Len(q.text)
      /\ q.pc \in {"store", "blame"} => StepsOfTry(q) = 2
  BY DEF StepsOfTry
<1>5. \A n \in 0 .. MaxProxies : 8 * n + 0 = 8 * n
  BY Bounds
<1> QED BY <1>1, <1>2, <1>3, <1>4, <1>5

LEMMA LookupOnward ==
  ASSUME NEW c \in Callers, PoolTyped, QueriesFit, Lookup(c)
  PROVE  \E q : Onward(c, q)
<1>1. Fits(query[c]) /\ query[c].pc = "lookup" /\ query[c].pc \in Working
  BY DEF Lookup, At, QueriesFit, Working
<1>2. OfAttempt(query[c]) = 8 * MaxProxies + 8 /\ query[c].left \in 0 .. MaxProxies
      /\ Len(list) \in 0 .. MaxProxies /\ query[c].mine \in Proxies \cup {None}
  BY <1>1, TryOf, FitsParts, Bounds DEF PoolTyped
<1>3. CASE \E result \in Results : End(c, result)
  BY <1>3, EndOnward
<1>4. CASE Set(c, [query[c] EXCEPT !.pc = "pick", !.left = Len(list)])
  <2> DEFINE q == [query[c] EXCEPT !.pc = "pick", !.left = Len(list)]
  <2>1. Fits(q)
    BY <1>1, <1>2, SetFits DEF Working
  <2>2. q.pc = "pick" /\ q.left = Len(list) /\ q.attempt = query[c].attempt
    BY <1>1 DEF Fits, Shaped
  <2>3. OfAttempt(q) = 8 * Len(list)
    BY <2>1, <2>2, TryOf
  <2>4. OfAttempt(q) < OfAttempt(query[c])
    BY <1>2, <2>3, Bounds
  <2> HIDE DEF q
  <2> QED BY <1>1, <1>4, <2>1, <2>2, <2>4, GoOnward DEF q, Working
<1>5. CASE Go(c, "aim")
  <2> DEFINE q == [query[c] EXCEPT !.pc = "aim"]
  <2>1. Fits(q)
    BY <1>1, <1>2, SetFits DEF Working
  <2>2. q.pc = "aim" /\ q.left = query[c].left /\ q.attempt = query[c].attempt
    BY <1>1 DEF Fits, Shaped
  <2>3. OfAttempt(q) = 8 * query[c].left + 7
    BY <2>1, <2>2, TryOf
  <2>4. OfAttempt(q) < OfAttempt(query[c])
    BY <1>2, <2>3, Bounds
  <2> HIDE DEF q
  <2> QED BY <1>1, <1>5, <2>1, <2>2, <2>4, GoOnward DEF q, Go, Working
<1> QED BY <1>3, <1>4, <1>5 DEF Lookup, Results

(* GetNextProxy turns to a position of the list.                            *)
LEMMA TurnInList ==
  ASSUME PoolTyped, list # <<>>
  PROVE  /\ Len(list) \in Nat \ {0}
         /\ \A i \in 0 .. Len(list) - 1 : Turn(i) \in 1 .. Len(list)
<1>1. Len(list) \in Nat \ {0} /\ next \in Nat
  BY DEF PoolTyped
<1>2. \A n \in Nat \ {0} : \A k \in Nat : (k % n) + 1 \in 1 .. n
  OBVIOUS
<1>3. \A i \in 0 .. Len(list) - 1 : next + i \in Nat
  BY <1>1
<1> QED BY <1>1, <1>2, <1>3 DEF Turn

LEMMA LeastTurn ==
  ASSUME PoolTyped, list # <<>>, UpTurns # {}
  PROVE  (CHOOSE i \in UpTurns : \A j \in UpTurns : i <= j) \in UpTurns
<1>1. UpTurns \subseteq Nat
  BY DEF UpTurns
<1> DEFINE Less == {ij \in Nat \X Nat : ij[1] < ij[2]}
<1>2. IsWellFoundedOn(Less, Nat)
  BY NatLessThanWellFounded, Zenon DEF OpToRel
<1>3. \E i \in UpTurns : \A j \in UpTurns : ~ (<<j, i>> \in Less)
  BY <1>1, <1>2, WFMin
<1>4. PICK i \in UpTurns : \A j \in UpTurns : ~ (<<j, i>> \in Less)
  BY <1>3
<1>5. \A j \in UpTurns : i <= j
  <2>1. \A j \in UpTurns : <<j, i>> \in Nat \X Nat /\ i \in Nat /\ j \in Nat
    BY <1>1
  <2>2. \A j \in UpTurns : ~ (j < i)
    BY <1>4, <2>1
  <2>3. \A m, n \in Nat : ~ (m < n) => n <= m
    OBVIOUS
  <2> QED BY <2>1, <2>2, <2>3
<1> QED BY <1>5

(* Where GetNextProxy has found its proxy, and what it makes of the pool.   *)
LEMMA NextUpPicks ==
  ASSUME NEW c \in Callers, PoolTyped, list # <<>>, NextUp(c)
  PROVE  \E p \in Proxies :
           /\ Set(c, [query[c] EXCEPT !.pc = "aim", !.mine = p, !.left = @ - 1])
           /\ next' \in Nat /\ next' <= Len(list) /\ UNCHANGED <<list, up, failures>>
<1> DEFINE i == CHOOSE i \in UpTurns : \A j \in UpTurns : i <= j
           t == Turn(i)
<1>1. i \in UpTurns
  BY LeastTurn DEF NextUp
<1>2. t \in 1 .. Len(list) /\ Len(list) \in Nat \ {0}
  BY <1>1, TurnInList DEF UpTurns
<1>3. list[t] \in Proxies
  BY <1>2 DEF PoolTyped
<1>4. /\ next' = t % Len(list)
      /\ Set(c, [query[c] EXCEPT !.pc = "aim", !.mine = list[t], !.left = @ - 1])
      /\ UNCHANGED <<list, up, failures>>
  BY DEF NextUp
<1> HIDE DEF t
<1>5. \A n \in Nat \ {0} : \A k \in 1 .. n : k % n \in Nat /\ k % n <= n
  OBVIOUS
<1> QED BY <1>2, <1>3, <1>4, <1>5

LEMMA ResetAllPicks ==
  ASSUME NEW c \in Callers, PoolTyped, list # <<>>, ResetAll(c)
  PROVE  \E p \in Proxies :
           Set(c, [query[c] EXCEPT !.pc = "aim", !.mine = p, !.left = @ - 1])
<1>1. list[1] \in Proxies
  BY DEF PoolTyped
<1> QED BY <1>1 DEF ResetAll

LEMMA PickOnward ==
  ASSUME NEW c \in Callers, PoolTyped, QueriesFit, Pick(c)
  PROVE  \E q : Onward(c, q)
<1>1. Fits(query[c]) /\ query[c].pc = "pick" /\ query[c].pc \in Working
  BY DEF Pick, At, QueriesFit, Working
<1>2. OfAttempt(query[c]) = 8 * query[c].left /\ query[c].left \in 0 .. MaxProxies
  BY <1>1, TryOf
<1>3. CASE \E result \in Results : End(c, result)
  BY <1>3, EndOnward
<1>4. CASE Retry(c)
  BY <1>1, <1>4, RetryOnward
<1>5. CASE query[c].left > 0 /\ list # <<>> /\ (NextUp(c) \/ ResetAll(c))
  <2>1. PICK p \in Proxies :
          Set(c, [query[c] EXCEPT !.pc = "aim", !.mine = p, !.left = @ - 1])
    BY <1>5, NextUpPicks, ResetAllPicks
  <2> DEFINE n == query[c].left - 1
             q == [query[c] EXCEPT !.pc = "aim", !.mine = p, !.left = n]
  <2>2. Set(c, q)
    BY <2>1
  <2>3. n \in 0 .. MaxProxies /\ query[c].left = n + 1
    BY <1>2, <1>5, Bounds
  <2> HIDE DEF n
  <2>4. Fits(q)
    BY <1>1, <2>3, SetFits DEF Working
  <2>5. q.pc = "aim" /\ q.left = n /\ q.attempt = query[c].attempt
    BY <1>1 DEF Fits, Shaped
  <2>6. OfAttempt(q) = 8 * n + 7
    BY <2>4, <2>5, TryOf
  <2>7. OfAttempt(q) < OfAttempt(query[c])
    BY <1>2, <2>3, <2>6, Bounds
  <2> HIDE DEF q
  <2> QED BY <1>1, <2>2, <2>4, <2>5, <2>7, GoOnward DEF Working
<1> QED BY <1>3, <1>4, <1>5 DEF Pick, Results

LEMMA AimOnward ==
  ASSUME NEW c \in Callers, PoolTyped, QueriesFit, Aim(c)
  PROVE  \E q : Onward(c, q)
<1>1. Fits(query[c]) /\ query[c].pc = "aim" /\ query[c].pc \in Working
  BY DEF Aim, At, QueriesFit, Working
<1>2. /\ OfAttempt(query[c]) = 8 * query[c].left + 7
      /\ query[c].left \in 0 .. MaxProxies /\ query[c].mine \in Proxies \cup {None}
  BY <1>1, TryOf, FitsParts
<1>3. CASE Fault(c, FALSE, "no_server") \/ Fault(c, TRUE, "failed")
  BY <1>1, <1>3, FaultOnward DEF Results
<1>4. CASE \E s : Set(c, [query[c] EXCEPT !.pc = "dial", !.server = s])
  <2>1. PICK s : Set(c, [query[c] EXCEPT !.pc = "dial", !.server = s])
    BY <1>4
  <2> DEFINE q == [query[c] EXCEPT !.pc = "dial", !.server = s]
  <2>2. Fits(q)
    BY <1>1, <1>2, SetFits DEF Working
  <2>3. /\ q.pc = "dial" /\ q.left = query[c].left /\ q.attempt = query[c].attempt
        /\ q.mine = query[c].mine
    BY <1>1 DEF Fits, Shaped
  <2>4. OfAttempt(q) = 8 * query[c].left + (6 - Len(q.text)) /\ Len(q.text) \in 0 .. 3
    BY <2>2, <2>3, TryOf
  <2>5. OfAttempt(q) < OfAttempt(query[c])
    <3>1. \A m \in Nat, n \in 0 .. 3 : 8 * m + (6 - n) < 8 * m + 7
      OBVIOUS
    <3>2. query[c].left \in Nat
      BY <1>2, Bounds
    <3> QED BY <1>2, <2>4, <3>1, <3>2
  <2>6. Set(c, q)
    BY <2>1
  <2> HIDE DEF q
  <2> QED BY <1>1, <2>2, <2>3, <2>5, <2>6, GoOnward DEF Working
<1> QED BY <1>3, <1>4 DEF Aim

LEMMA StoredOnward ==
  ASSUME NEW c \in Callers, QueriesFit, query[c].pc = "dial", Stored(c)
  PROVE  \E q : Onward(c, q)
<1>1. Fits(query[c]) /\ query[c].pc \in Working
  BY DEF QueriesFit, Working
<1>2. OfAttempt(query[c]) = 8 * query[c].left + (6 - Len(query[c].text))
      /\ query[c].left \in 0 .. MaxProxies /\ Len(query[c].text) \in 0 .. 3
      /\ query[c].mine \in Proxies \cup {None}
  BY <1>1, TryOf, FitsParts
<1> DEFINE q == [query[c] EXCEPT !.pc = "store", !.text = <<>>, !.server = None]
<1>3. Set(c, q)
  BY DEF Stored
<1>4. Fits(q)
  BY <1>1, <1>2, SetFits DEF Working
<1>5. /\ q.pc = "store" /\ q.left = query[c].left /\ q.attempt = query[c].attempt
      /\ q.mine = query[c].mine
  BY <1>1 DEF Fits, Shaped
<1>6. OfAttempt(q) = 8 * query[c].left + 2
  BY <1>4, <1>5, TryOf
<1>7. OfAttempt(q) < OfAttempt(query[c])
  <2>1. \A m \in Nat, n \in 0 .. 3 : 8 * m + 2 < 8 * m + (6 - n)
    OBVIOUS
  <2>2. query[c].left \in Nat
    BY <1>2, Bounds
  <2> QED BY <1>2, <1>6, <2>1, <2>2
<1> HIDE DEF q
<1> QED BY <1>1, <1>3, <1>4, <1>5, <1>7, GoOnward DEF Working

LEMMA DialOnward ==
  ASSUME NEW c \in Callers, PoolTyped, QueriesFit, Dial(c)
  PROVE  \E q : Onward(c, q)
<1>1. Fits(query[c]) /\ query[c].pc = "dial" /\ query[c].pc \in Working
  BY DEF Dial, At, QueriesFit, Working
<1>2. OfAttempt(query[c]) = 8 * query[c].left + (6 - Len(query[c].text))
      /\ query[c].left \in 0 .. MaxProxies /\ Len(query[c].text) \in 0 .. 3
      /\ query[c].text \in Seq(Answers)
  BY <1>1, TryOf, FitsParts
<1>3. CASE Unanswered(c)
  <2>1. CASE Stored(c)
    BY <1>1, <2>1, StoredOnward
  <2>2. CASE query[c].text = <<>> /\ \E retryable \in BOOLEAN : Fault(c, retryable, "failed")
    BY <1>1, <2>2, FaultOnward DEF Results
  <2> QED BY <1>3, <2>1, <2>2 DEF Unanswered
<1>4. ASSUME NEW a \in Answers, NEW s, Len(Append(query[c].text, a)) <= MaxReferrals,
             Set(c, [query[c] EXCEPT !.text = Append(query[c].text, a), !.server = s])
      PROVE  \E q : Onward(c, q)
  <2> DEFINE t == Append(query[c].text, a)
             q == [query[c] EXCEPT !.text = t, !.server = s]
  <2>1. t \in Seq(Answers) /\ Len(t) = Len(query[c].text) + 1 /\ Len(t) <= 3
    BY <1>2, <1>4 DEF MaxReferrals
  <2> HIDE DEF t
  <2>2. Fits(q) /\ q.text = t
    BY <1>1, <2>1 DEF Fits, Shaped, MaxReferrals
  <2>3. /\ q.pc = "dial" /\ q.left = query[c].left /\ q.attempt = query[c].attempt
        /\ q.mine = query[c].mine
    BY <1>1 DEF Fits, Shaped
  <2>4. OfAttempt(q) = 8 * query[c].left + (6 - Len(t))
    BY <2>2, <2>3, TryOf
  <2>5. OfAttempt(q) < OfAttempt(query[c])
    <3>1. \A m \in Nat, n \in 0 .. 3 : 8 * m + (6 - (n + 1)) < 8 * m + (6 - n)
      OBVIOUS
    <3>2. query[c].left \in Nat
      BY <1>2, Bounds
    <3> QED BY <1>2, <2>1, <2>4, <3>1, <3>2
  <2>6. Set(c, q)
    BY <1>4 DEF t
  <2> HIDE DEF q
  <2> QED BY <1>1, <2>2, <2>3, <2>5, <2>6, GoOnward DEF Working
<1>5. CASE Answered(c)
  <2>1. CASE Stored(c)
    BY <1>1, <2>1, StoredOnward
  <2>2. CASE ~Stored(c)
    <3>1. PICK a \in Answers :
            /\ Len(Append(query[c].text, a)) <= MaxReferrals
            /\ Set(c, [query[c] EXCEPT !.text = Append(query[c].text, a),
                                       !.server = Referral(Append(query[c].text, a))])
      BY <1>5, <2>2 DEF Answered
    <3> QED BY <1>4, <3>1
  <2> QED BY <2>1, <2>2
<1> QED BY <1>3, <1>5 DEF Dial

LEMMA StoreOnward ==
  ASSUME NEW c \in Callers, QueriesFit, Store(c)
  PROVE  \E q : Onward(c, q)
BY EndOnward DEF Store, Results

LEMMA BlameOnward ==
  ASSUME NEW c \in Callers, QueriesFit, Blame(c)
  PROVE  \E q : Onward(c, q)
<1>1. Fits(query[c]) /\ query[c].pc = "blame" /\ query[c].pc \in Working
  BY DEF Blame, At, QueriesFit, Working
<1>2. /\ OfAttempt(query[c]) = 8 * query[c].left + 2
      /\ query[c].left \in 0 .. MaxProxies /\ query[c].mine \in Proxies \cup {None}
  BY <1>1, TryOf, FitsParts
<1> DEFINE q == [query[c] EXCEPT !.pc = "pick", !.server = None]
<1>3. Set(c, q)
  BY DEF Blame
<1>4. Fits(q)
  BY <1>1, <1>2, SetFits DEF Working
<1>5. q.pc = "pick" /\ q.left = query[c].left /\ q.attempt = query[c].attempt
  BY <1>1 DEF Fits, Shaped
<1>6. OfAttempt(q) = 8 * query[c].left
  BY <1>4, <1>5, TryOf
<1>7. OfAttempt(q) < OfAttempt(query[c])
  BY <1>2, <1>6, Bounds
<1> HIDE DEF q
<1> QED BY <1>1, <1>3, <1>4, <1>5, <1>7, GoOnward DEF Working

LEMMA StepOnward ==
  ASSUME NEW c \in Callers, PoolTyped, QueriesFit, Step(c)
  PROVE  \E q : Onward(c, q)
BY LookupOnward, PickOnward, AimOnward, DialOnward, StoreOnward, BlameOnward DEF Step
-----------------------------------------------------------------------------
(* The pool. *)

LEMMA LoadedSound ==
  ASSUME NEW file \in Files, Loaded(file), PoolTyped, UNCHANGED <<pooled, alone>>
  PROVE  PoolTyped' /\ PoolSound'
<1>1. file \in Seq(Proxies) /\ Len(file) <= MaxProxies /\ Len(file) \in Nat
  BY ClientAssumption
<1>2. ToSet(file) \subseteq Proxies
  BY <1>1 DEF ToSet
<1>3. PoolTyped'
  BY <1>1 DEF Loaded, PoolTyped
<1>4. \A p \in ToSet(file) : failures'[p] < 3
  BY <1>2 DEF Loaded
<1> QED BY <1>1, <1>3, <1>4 DEF Loaded, PoolSound

LEMMA MarkedSound ==
  ASSUME PoolTyped, PoolSound, NEW p, MarkSuccess(p) \/ MarkFailure(p),
         UNCHANGED <<pooled, alone>>
  PROVE  PoolTyped' /\ PoolSound'
<1>1. ToSet(list) \subseteq Proxies /\ ToSet(list)' = ToSet(list)
  BY DEF PoolTyped, ToSet, MarkSuccess, MarkFailure
<1>2. CASE MarkSuccess(p)
  <2>2. /\ failures' = [x \in Proxies |-> failures'[x]]
        /\ \A x \in Proxies : failures'[x] = IF x = p THEN 0 ELSE failures[x]
    BY <1>2 DEF MarkSuccess, PoolTyped
  <2>1. failures' \in [Proxies -> 0 .. 3]
    <3>1. \A x \in Proxies : failures[x] \in 0 .. 3
      BY DEF PoolTyped
    <3>2. \A x \in Proxies : failures'[x] \in 0 .. 3
      BY <2>2, <3>1
    <3> QED BY <2>2, <3>2
  <2>3. \A x \in ToSet(list) : x \in up' <=> failures'[x] < 3
    BY <1>1, <1>2, <2>2 DEF MarkSuccess, PoolSound
  <2>4. up' \subseteq ToSet(list)
    BY <1>2 DEF MarkSuccess, PoolSound
  <2> QED BY <1>1, <1>2, <2>1, <2>3, <2>4 DEF MarkSuccess, PoolTyped, PoolSound
<1>3. CASE MarkFailure(p)
  <2>1. failures' \in [Proxies -> 0 .. 3]
    <3>1. \A x \in Proxies : failures[x] \in 0 .. 3
      BY DEF PoolTyped
    <3>2. /\ failures' = [x \in Proxies |-> failures'[x]]
          /\ \A x \in Proxies :
               failures'[x] = IF x = p /\ x \in ToSet(list) /\ failures[x] < 3
                              THEN failures[x] + 1 ELSE failures[x]
      BY <1>3 DEF MarkFailure, PoolTyped
    <3>3. \A n \in 0 .. 3 : n < 3 => n + 1 \in 0 .. 3
      OBVIOUS
    <3>4. \A x \in Proxies : failures'[x] \in 0 .. 3
      BY <3>1, <3>2, <3>3
    <3> QED BY <3>2, <3>4
  <2>2. \A x \in Proxies : failures[x] >= 3 => failures'[x] >= 3
    BY <1>3 DEF MarkFailure, PoolTyped
  <2>3. \A x \in ToSet(list) : failures[x] < 3 \/ failures'[x] >= 3
    BY <1>1, <2>2 DEF PoolTyped
  <2>4. up' = {x \in up : failures'[x] < 3}
    BY <1>3 DEF MarkFailure
  <2>5. \A x \in ToSet(list) : x \in up' <=> failures'[x] < 3
    BY <1>1, <2>1, <2>3, <2>4 DEF PoolSound
  <2> QED BY <1>1, <1>3, <2>1, <2>4, <2>5 DEF MarkFailure, PoolTyped, PoolSound
<1> QED BY <1>2, <1>3

LEMMA UnchangedSound ==
  ASSUME PoolTyped, PoolSound, UNCHANGED <<pool, pooled, alone>>
  PROVE  PoolTyped' /\ PoolSound'
BY DEF PoolTyped, PoolSound, pool

LEMMA PickSound ==
  ASSUME NEW c \in Callers, PoolTyped, PoolSound, Pick(c)
  PROVE  PoolTyped' /\ PoolSound'
<1>1. UNCHANGED <<pooled, alone>>
  BY DEF Pick, client
<1>2. CASE UNCHANGED pool
  BY <1>1, <1>2, UnchangedSound
<1>3. CASE list # <<>> /\ NextUp(c)
  <2>1. next' \in Nat /\ next' <= Len(list) /\ UNCHANGED <<list, up, failures>>
    BY <1>3, NextUpPicks
  <2> QED BY <1>1, <2>1 DEF PoolTyped, PoolSound
<1>4. CASE list # <<>> /\ ResetAll(c)
  <2>1. ToSet(list) \subseteq Proxies
    BY DEF PoolTyped, ToSet
  <2>2. /\ up' = ToSet(list) /\ failures' = [p \in Proxies |-> 0] /\ next' = 1
        /\ list' = list
    BY <1>4 DEF ResetAll
  <2>3. \A p \in ToSet(list) : failures'[p] < 3
    BY <2>1, <2>2
  <2>4. Len(list) \in Nat \ {0}
    BY <1>4, TurnInList
  <2> QED BY <1>1, <2>2, <2>3, <2>4 DEF PoolTyped, PoolSound
<1> QED BY <1>2, <1>3, <1>4 DEF Pick

LEMMA StepSound ==
  ASSUME NEW c \in Callers, PoolTyped, PoolSound, Step(c)
  PROVE  PoolTyped' /\ PoolSound'
<1>1. CASE Lookup(c) \/ Aim(c) \/ Dial(c)
  <2>1. UNCHANGED <<pool, pooled, alone>>
    BY <1>1 DEF Lookup, Aim, Dial, client
  <2> QED BY <2>1, UnchangedSound
<1>2. CASE Pick(c)
  BY <1>2, PickSound
<1>3. CASE Store(c)
  <2>1. UNCHANGED <<pooled, alone>> /\ (MarkSuccess(query[c].mine) \/ UNCHANGED pool)
    BY <1>3 DEF Store, client
  <2> QED BY <2>1, MarkedSound, UnchangedSound
<1>4. CASE Blame(c)
  <2>1. UNCHANGED <<pooled, alone>> /\ MarkFailure(query[c].mine)
    BY <1>4 DEF Blame, client
  <2> QED BY <2>1, MarkedSound
<1> QED BY <1>1, <1>2, <1>3, <1>4 DEF Step
-----------------------------------------------------------------------------
(* The queries. *)

LEMMA SetQuery ==
  ASSUME NEW c \in Callers, QueriesFit, NEW q, Set(c, q), Fits(q)
  PROVE  /\ QueriesFit'
         /\ query'[c] = q /\ \A x \in Callers : x # c => query'[x] = query[x]
<1>1. PICK S : query \in [Callers -> Shaped(S)]
  BY DEF QueriesFit
<1>2. query' = [query EXCEPT ![c] = q]
  BY DEF Set
<1>3. query'[c] = q /\ \A x \in Callers : x # c => query'[x] = query[x]
  BY <1>1, <1>2
<1> DEFINE T == S \cup {q.server}
<1>4. \A r : r \in Shaped(S) \/ r \in Shaped({q.server}) => r \in Shaped(T)
  BY DEF Shaped
<1>5. q \in Shaped(T) /\ \A x \in Callers : query[x] \in Shaped(T)
  BY <1>1, <1>4 DEF Fits
<1> HIDE DEF T
<1>6. query' \in [Callers -> Shaped(T)]
  BY <1>1, <1>2, <1>5
<1>7. \A x \in Callers : Fits(query'[x])
  BY <1>3 DEF QueriesFit
<1>8. QueriesFit'
  <2>1. /\ \E R : query' \in [Callers -> Shaped(R)]
        /\ \A x \in Callers : Fits(query'[x])
    BY <1>6, <1>7
  <2> QED BY <2>1 DEF QueriesFit, Fits, Shaped
<1> QED BY <1>3, <1>8

(* A step of a caller c leaves the others alone, and c bound for its proxy. *)
LEMMA StepAlone ==
  ASSUME NEW c \in Callers, ClientInv, Step(c)
  PROVE  QueriesFit' /\ AloneMeansAlone' /\ ChargedIsDialled'
<1>1. PoolTyped /\ QueriesFit /\ AloneMeansAlone /\ ChargedIsDialled
  BY DEF ClientInv
<1>2. PICK q : Onward(c, q)
  BY <1>1, StepOnward
<1>3. /\ QueriesFit' /\ query'[c] = q
      /\ \A x \in Callers : x # c => query'[x] = query[x]
  BY <1>1, <1>2, SetQuery DEF Onward
<1>4. UNCHANGED <<alone, pooled>> /\ Active(c) /\ alone \subseteq Callers
  BY <1>1 DEF Step, Lookup, Pick, Aim, Dial, Store, Blame, At, Active, Working, client, PoolTyped
<1>5. AloneMeansAlone'
  <2>1. \A y \in alone' : \A x \in Callers : query'[x].pc \in Working => x = y
    BY <1>1, <1>3, <1>4 DEF AloneMeansAlone, Active
  <2> QED BY <2>1 DEF AloneMeansAlone, Active
<1>6. ChargedIsDialled'
  <2> SUFFICES ASSUME NEW y \in alone', pooled', query'[y].pc \in {"dial", "store"}
               PROVE  dialer' = query'[y].mine
    BY DEF ChargedIsDialled
  <2>1. y = c
    BY <1>1, <1>4 DEF AloneMeansAlone
  <2>2. q.pc \in {"dial", "store"}
    BY <1>3, <2>1
  <2>3. query[c].pc \in {"aim", "dial"} /\ q.mine = query[c].mine
    BY <1>2, <2>2 DEF Onward
  <2>4. CASE query[c].pc = "aim"
    <3>1. Aim(c)
      BY <2>4 DEF Step, Lookup, Pick, Dial, Store, Blame, At
    <3>2. dialer' = query[c].mine
      BY <1>4, <3>1 DEF Aim, DialerFor
    <3> QED BY <1>3, <2>1, <2>3, <3>2
  <2>5. CASE query[c].pc = "dial"
    <3>1. Dial(c)
      BY <2>5 DEF Step, Lookup, Pick, Aim, Store, Blame, At
    <3>2. dialer' = dialer
      BY <3>1 DEF Dial, client
    <3>3. dialer = query[c].mine
      BY <1>1, <1>4, <2>1, <2>5 DEF ChargedIsDialled
    <3> QED BY <1>3, <2>1, <2>3, <3>2, <3>3
  <2> QED BY <2>3, <2>4, <2>5
<1> QED BY <1>3, <1>5, <1>6

LEMMA InitInv == Init => ClientInv
<1> SUFFICES ASSUME Init
             PROVE  ClientInv
  OBVIOUS
<1>1. PICK file \in Files :
        /\ list = file /\ next = 0
        /\ up = ToSet(file) /\ failures = [p \in Proxies |-> 0]
  BY DEF Init
<1>2. file \in Seq(Proxies) /\ Len(file) <= MaxProxies /\ Len(file) \in Nat
  BY ClientAssumption
<1>3. ToSet(file) \subseteq Proxies
  BY <1>2 DEF ToSet
<1>4. PoolTyped
  BY <1>1, <1>2 DEF Init, PoolTyped
<1>5. \A p \in ToSet(file) : failures[p] < 3
  BY <1>1, <1>3
<1>6. PoolSound
  BY <1>1, <1>2, <1>5 DEF PoolSound
<1>7. Idle \in Shaped({None}) /\ Fits(Idle)
  <2>1. Len(Idle.text) <= 3
    BY IdleShaped
  <2> QED BY <2>1, IdleShaped DEF Fits, MaxReferrals
<1>8. QueriesFit
  <2>1. query = [c \in Callers |-> Idle]
    BY DEF Init
  <2>2. query \in [Callers -> Shaped({None})] /\ \A c \in Callers : Fits(query[c])
    BY <1>7, <2>1
  <2> QED BY <2>2 DEF QueriesFit
<1>9. alone = {}
  BY DEF Init
<1> QED BY <1>4, <1>6, <1>8, <1>9 DEF ClientInv, AloneMeansAlone, ChargedIsDialled

(* A query begins, or learns that nobody waits for it any more.             *)
LEMMA AskInv ==
  ASSUME NEW c \in Callers, NEW d \in Domains, ClientInv, Ask(c, d)
  PROVE  ClientInv'
<1> DEFINE q == [Idle EXCEPT !.pc = "lookup", !.domain = d]
<1>1. q \in Shaped({None}) /\ q.text = <<>> /\ q.server = None /\ q.pc = "lookup"
  BY IdleShaped DEF Shaped, Working
<1>2. Len(q.text) <= 3
  BY <1>1
<1>3. Fits(q) /\ Set(c, q)
  BY <1>1, <1>2 DEF Fits, MaxReferrals, Ask
<1> HIDE DEF q
<1>4. /\ QueriesFit' /\ query'[c] = q
      /\ \A x \in Callers : x # c => query'[x] = query[x]
  BY <1>3, SetQuery DEF ClientInv
<1>5. /\ alone' \subseteq {c}
      /\ alone' # {} => \A x \in Callers : query[x].pc \notin Working
  BY DEF Ask, Active
<1>6. PoolTyped' /\ PoolSound'
  BY <1>5 DEF Ask, client, pool, ClientInv, PoolTyped, PoolSound
<1>7. AloneMeansAlone'
  <2>1. \A y \in alone' : \A x \in Callers : query'[x].pc \in Working => x = y
    BY <1>4, <1>5
  <2> QED BY <2>1 DEF AloneMeansAlone, Active
<1>8. ChargedIsDialled'
  <2>1. \A y \in alone' : query'[y].pc = "lookup"
    BY <1>1, <1>4, <1>5
  <2> QED BY <2>1 DEF ChargedIsDialled
<1> QED BY <1>4, <1>6, <1>7, <1>8 DEF ClientInv

LEMMA CancelInv ==
  ASSUME NEW c \in Callers, ClientInv, Cancel(c)
  PROVE  ClientInv'
<1> DEFINE q == [query[c] EXCEPT !.cancelled = TRUE]
<1>1. Fits(query[c]) /\ Set(c, q)
  BY DEF ClientInv, QueriesFit, Cancel
<1>2. Fits(q) /\ q.pc = query[c].pc /\ q.mine = query[c].mine
  BY <1>1 DEF Fits, Shaped
<1> HIDE DEF q
<1>3. /\ QueriesFit' /\ query'[c] = q
      /\ \A x \in Callers : x # c => query'[x] = query[x]
  BY <1>1, <1>2, SetQuery DEF ClientInv
<1>4. \A x \in Callers : query'[x].pc = query[x].pc /\ query'[x].mine = query[x].mine
  BY <1>2, <1>3
<1>5. UNCHANGED <<pool, pooled, dialer, alone>> /\ alone \subseteq Callers
  BY DEF Cancel, client, ClientInv, PoolTyped
<1>6. PoolTyped' /\ PoolSound'
  BY <1>5, UnchangedSound DEF ClientInv
<1>7. AloneMeansAlone'
  <2>1. \A y \in alone' : \A x \in Callers : query'[x].pc \in Working => x = y
    BY <1>4, <1>5 DEF ClientInv, AloneMeansAlone, Active
  <2> QED BY <2>1 DEF AloneMeansAlone, Active
<1>8. ChargedIsDialled'
  BY <1>4, <1>5 DEF ClientInv, ChargedIsDialled
<1> QED BY <1>3, <1>6, <1>7, <1>8 DEF ClientInv

(* What leaves all queries as they are.                                     *)
LEMMA QueriesUnchanged ==
  ASSUME ClientInv, UNCHANGED <<pooled, dialer, query, alone>>
  PROVE  QueriesFit' /\ AloneMeansAlone' /\ ChargedIsDialled'
<1>1. QueriesFit'
  BY DEF ClientInv, QueriesFit, Fits, Shaped
<1>2. AloneMeansAlone' /\ ChargedIsDialled'
  BY DEF ClientInv, AloneMeansAlone, ChargedIsDialled, Active
<1> QED BY <1>1, <1>2

LEMMA NextInv == ClientInv /\ [Next]_vars => ClientInv'
<1> SUFFICES ASSUME ClientInv, [Next]_vars
             PROVE  ClientInv'
  OBVIOUS
<1> USE DEF ClientInv
<1>1. CASE LoadProxies
  <2>1. UNCHANGED <<pooled, dialer, query, alone>> /\ \E file \in Files : Loaded(file)
    BY <1>1 DEF LoadProxies
  <2> QED BY <2>1, LoadedSound, QueriesUnchanged
<1>2. ASSUME NEW d \in Domains, Forget(d) \/ Warm(d)
      PROVE  ClientInv'
  <2>1. UNCHANGED <<pool, pooled, dialer, query, alone>>
    BY <1>2 DEF Forget, Warm, client
  <2> QED BY <2>1, UnchangedSound, QueriesUnchanged
<1>3. ASSUME NEW p \in Proxies, CheckProxy(p)
      PROVE  ClientInv'
  <2>1. /\ UNCHANGED <<pooled, dialer, query, alone>>
        /\ MarkSuccess(p) \/ MarkFailure(p)
    BY <1>3 DEF CheckProxy, client
  <2> QED BY <2>1, MarkedSound, QueriesUnchanged
<1>4. ASSUME NEW c \in Callers, Step(c)
      PROVE  ClientInv'
  BY <1>4, StepSound, StepAlone
<1>5. CASE UNCHANGED vars
  <2>1. UNCHANGED <<pool, pooled, dialer, query, alone>>
    BY <1>5 DEF vars, client
  <2> QED BY <2>1, UnchangedSound, QueriesUnchanged
<1> QED BY <1>1, <1>2, <1>3, <1>4, <1>5, AskInv, CancelInv DEF Next

LEMMA InvCorrect == Spec => []ClientInv
BY InitInv, NextInv, PTL DEF Spec
-----------------------------------------------------------------------------
(* The pool keeps just the listed proxies that have not failed three times  *)
(* in a row, whatever queries, checks and reloads come between two accesses *)
(* to it (ProxyPool of proxy.go).                                           *)
THEOREM PoolKept == Spec => []PoolSound
<1>1. ClientInv => PoolSound
  BY DEF ClientInv
<1> QED BY <1>1, InvCorrect, PTL

(* A query that no other met charges its outcome to the proxy it dialled    *)
(* through (queryWithProxyPoolContext).                                     *)
THEOREM ChargedWasDialled == Spec => []ChargedIsDialled
<1>1. ClientInv => ChargedIsDialled
  BY DEF ClientInv
<1> QED BY <1>1, InvCorrect, PTL

(* Each step of a query that goes on leaves it fewer steps to take: the     *)
(* three nested loops of retries, proxies and referrals end, however the    *)
(* pool is reloaded and marked meanwhile.                                   *)
THEOREM QueriesEnd == Spec => QueriesShrink
<1> DEFINE Shrinks ==
      \A c \in Callers : Step(c) /\ Active(c)' => StepsLeft(query'[c]) < StepsLeft(query[c])
<1>1. ASSUME ClientInv, NEW c \in Callers, Step(c), Active(c)'
      PROVE  StepsLeft(query'[c]) < StepsLeft(query[c])
  <2>1. PICK q : Onward(c, q)
    BY <1>1, StepOnward DEF ClientInv
  <2>2. query'[c] = q
    BY <1>1, <2>1, SetQuery DEF Onward, ClientInv
  <2>3. q.pc \in Working
    BY <1>1, <2>2 DEF Active
  <2> QED BY <2>1, <2>2, <2>3 DEF Onward
<1>2. ClientInv => Shrinks
  BY <1>1
<1>3. ClientInv /\ [Next]_vars => [Shrinks]_vars
  BY <1>2
<1> QED BY <1>3, InvCorrect, PTL DEF Spec, QueriesShrink
-----------------------------------------------------------------------------
(* The types, and how far a query is referred. *)

(* The responses of a query, and the server that it asks next: that of the  *)
(* first, or that of the second, the first to name a registrar.             *)
LedBy(text, server) ==
  \/ Len(text) = 1 /\ text[1].registrar # None /\ server = text[1].registrar
  \/ /\ Len(text) = 1 /\ text[1].registrar = None
     /\ text[1].whois # None /\ server = text[1].whois
  \/ /\ Len(text) = 2 /\ text[1].registrar = None
     /\ text[2].registrar # None /\ server = text[2].registrar

Led(q) ==
  /\ q.server \in Servers \cup {None}
  /\ q.text # <<>> => q.pc = "dial" /\ LedBy(q.text, q.server)

DataTyped ==
  /\ twoLabels \subseteq Domains /\ loads \in 0 .. MaxLoads
  /\ dialer \in Proxies \cup {None}
  /\ cached \in [Domains -> {"nothing", "empty", "response"}]

QueriesLed == \A c \in Callers : Led(query[c])

LEMMA LeastIs ==
  ASSUME NEW S \in SUBSET Nat, NEW i \in S, \A j \in S : i <= j
  PROVE  Min(S) = i
<1>1. Min(S) \in S /\ \A j \in S : Min(S) <= j
  BY DEF Min
<1>2. Min(S) \in Nat /\ i \in Nat /\ Min(S) <= i /\ i <= Min(S)
  BY <1>1
<1> QED BY <1>2

(* extractReferralServer: the first registrar, or else the first whois.     *)
LEMMA RegistrarFirst ==
  ASSUME NEW t \in Seq(Answers), NEW i \in 1 .. Len(t), t[i].registrar # None,
         \A j \in 1 .. Len(t) : j < i => t[j].registrar = None
  PROVE  Referral(t) = t[i].registrar
<1>1. DOMAIN t = 1 .. Len(t) /\ Len(t) \in Nat
  OBVIOUS
<1>2. Registrars(t) \in SUBSET Nat /\ i \in Registrars(t) /\ \A j \in Registrars(t) : i <= j
  BY <1>1 DEF Registrars
<1>3. Min(Registrars(t)) = i
  BY <1>2, LeastIs
<1> QED BY <1>2, <1>3 DEF Referral

LEMMA WhoisFirst ==
  ASSUME NEW t \in Seq(Answers), NEW i \in 1 .. Len(t), \A j \in 1 .. Len(t) : t[j].registrar = None,
         t[i].whois # None, \A j \in 1 .. Len(t) : j < i => t[j].whois = None
  PROVE  Referral(t) = t[i].whois
<1>1. DOMAIN t = 1 .. Len(t) /\ Len(t) \in Nat
  OBVIOUS
<1>2. Registrars(t) = {}
  BY <1>1 DEF Registrars
<1>3. WhoisLines(t) \in SUBSET Nat /\ i \in WhoisLines(t) /\ \A j \in WhoisLines(t) : i <= j
  BY <1>1 DEF WhoisLines
<1>4. Min(WhoisLines(t)) = i
  BY <1>3, LeastIs
<1> QED BY <1>2, <1>3, <1>4 DEF Referral

LEMMA NothingNamed ==
  ASSUME NEW t \in Seq(Answers), \A j \in 1 .. Len(t) : t[j].registrar = None /\ t[j].whois = None
  PROVE  Referral(t) = None
<1>1. DOMAIN t = 1 .. Len(t)
  OBVIOUS
<1>2. Registrars(t) = {} /\ WhoisLines(t) = {}
  BY <1>1 DEF Registrars, WhoisLines
<1> QED BY <1>2 DEF Referral

(* One more response refers to a new server only when it is the first, or   *)
(* the second and the first to name a registrar.                            *)
LEMMA LedOn ==
  ASSUME NEW text \in Seq(Answers), NEW server, text = <<>> \/ LedBy(text, server), NEW a \in Answers,
         Referral(Append(text, a)) \notin {None, server}
  PROVE  /\ Referral(Append(text, a)) \in Servers
         /\ LedBy(Append(text, a), Referral(Append(text, a)))
<1> DEFINE t == Append(text, a)
           n == Len(text)
<1>1. /\ t \in Seq(Answers) /\ n \in Nat /\ Len(t) = n + 1 /\ t[n + 1] = a
      /\ \A i \in 1 .. n : t[i] = text[i]
  OBVIOUS
<1>2. \A b \in Answers : b.registrar \in Servers \cup {None} /\ b.whois \in Servers \cup {None}
  BY ClientAssumption
<1> HIDE DEF t
<1>3. CASE text = <<>>
  <2>1. Len(t) = 1 /\ t[1] = a
    BY <1>1, <1>3
  <2>2. CASE a.registrar # None
    <3>1. Referral(t) = a.registrar
      BY <1>1, <2>1, <2>2, RegistrarFirst
    <3> QED BY <1>2, <2>1, <2>2, <3>1 DEF LedBy, t
  <2>3. CASE a.registrar = None /\ a.whois # None
    <3>1. Referral(t) = a.whois
      BY <1>1, <2>1, <2>3, WhoisFirst
    <3> QED BY <1>2, <2>1, <2>3, <3>1 DEF LedBy, t
  <2>4. CASE a.registrar = None /\ a.whois = None
    <3>1. Referral(t) = None
      BY <1>1, <2>1, <2>4, NothingNamed
    <3> QED BY <3>1 DEF t
  <2> QED BY <2>2, <2>3, <2>4
<1>4. CASE n = 1 /\ text[1].registrar # None /\ server = text[1].registrar
  <2>1. 1 \in 1 .. Len(t) /\ t[1] = text[1]
    BY <1>1, <1>4
  <2>2. Referral(t) = server
    <3>1. \A j \in 1 .. Len(t) : ~(j < 1)
      BY <1>1
    <3>2. Referral(t) = t[1].registrar
      BY <1>1, <1>4, <2>1, <3>1, RegistrarFirst
    <3> QED BY <1>4, <2>1, <3>2
  <2> QED BY <2>2 DEF t
<1>5. CASE n = 1 /\ text[1].registrar = None /\ text[1].whois # None /\ server = text[1].whois
  <2>1. Len(t) = 2 /\ t[1] = text[1] /\ t[2] = a
    BY <1>1, <1>5
  <2>2. \A j \in 1 .. Len(t) : j = 1 \/ j = 2
    BY <2>1
  <2>3. CASE a.registrar # None
    <3>1. Referral(t) = a.registrar
      BY <1>1, <1>5, <2>1, <2>2, <2>3, RegistrarFirst
    <3> QED BY <1>2, <1>5, <2>1, <2>3, <3>1 DEF LedBy, t
  <2>4. CASE a.registrar = None
    <3>1. Referral(t) = server
      <4>1. 1 \in 1 .. Len(t) /\ t[1].whois # None
            /\ \A j \in 1 .. Len(t) : ~(j < 1) /\ t[j].registrar = None
        BY <1>5, <2>1, <2>2, <2>4
      <4>2. Referral(t) = t[1].whois
        BY <1>1, <4>1, WhoisFirst
      <4> QED BY <1>5, <2>1, <4>2
    <3> QED BY <3>1 DEF t
  <2> QED BY <2>3, <2>4
<1>6. CASE n = 2 /\ text[1].registrar = None /\ text[2].registrar # None /\ server = text[2].registrar
  <2>1. Len(t) = 3 /\ t[1] = text[1] /\ t[2] = text[2]
    BY <1>1, <1>6
  <2>2. Referral(t) = server
    <3>1. 2 \in 1 .. Len(t) /\ t[2].registrar # None
      BY <1>6, <2>1
    <3>2. \A j \in 1 .. Len(t) : j < 2 => t[j].registrar = None
      BY <1>6, <2>1
    <3>3. Referral(t) = t[2].registrar
      BY <1>1, <3>1, <3>2, RegistrarFirst
    <3> QED BY <1>6, <2>1, <3>3
  <2> QED BY <2>2 DEF t
<1> QED BY <1>3, <1>4, <1>5, <1>6 DEF LedBy

LEMMA SetLed ==
  ASSUME NEW q, Fits(q), Led(q), NEW pc, NEW n, NEW p, NEW b, NEW s \in Servers \cup {None}
  PROVE  /\ Led([q EXCEPT !.cancelled = b])
         /\ Led([q EXCEPT !.pc = "store", !.text = <<>>, !.server = None])
         /\ q.text = <<>> => /\ Led([q EXCEPT !.pc = pc])
                            /\ Led([q EXCEPT !.pc = pc, !.left = n])
                            /\ Led([q EXCEPT !.pc = pc, !.mine = p, !.left = n])
                            /\ Led([q EXCEPT !.pc = pc, !.server = s])
<1>1. q \in Shaped({q.server})
  BY DEF Fits
<1>2. Led([q EXCEPT !.cancelled = b])
  BY <1>1 DEF Led, Shaped
<1>3. Led([q EXCEPT !.pc = "store", !.text = <<>>, !.server = None])
  BY <1>1 DEF Led, Shaped
<1>4. ASSUME q.text = <<>>
      PROVE  /\ Led([q EXCEPT !.pc = pc])
             /\ Led([q EXCEPT !.pc = pc, !.left = n])
             /\ Led([q EXCEPT !.pc = pc, !.mine = p, !.left = n])
             /\ Led([q EXCEPT !.pc = pc, !.server = s])
  BY <1>1, <1>4 DEF Led, Shaped
<1> QED BY <1>2, <1>3, <1>4

LEMMA IdleLed ==
  ASSUME NEW pc, NEW d, NEW b, NEW n
  PROVE  /\ Led(Idle) /\ Led([Idle EXCEPT !.pc = pc]) /\ Led([Idle EXCEPT !.pc = pc, !.domain = d])
         /\ Led([Idle EXCEPT !.pc = pc, !.domain = d, !.cancelled = b, !.attempt = n])
BY DEF Idle, Led

(* The query of one caller changes.                                         *)
LEMMA LedKept ==
  ASSUME NEW c \in Callers, QueriesFit, QueriesLed, NEW q, Set(c, q), Led(q)
  PROVE  QueriesLed'
<1>1. PICK S : query \in [Callers -> S]
  BY DEF QueriesFit
<1>2. query' = [query EXCEPT ![c] = q]
  BY DEF Set
<1>3. \A x \in Callers : query'[x] = IF x = c THEN q ELSE query[x]
  BY <1>1, <1>2
<1>4. \A x \in Callers : Led(query'[x])
  BY <1>3 DEF QueriesLed
<1>5. QueriesLed' <=> \A x \in Callers : Led(query'[x])
  BY DEF QueriesLed, Led, LedBy
<1> QED BY <1>4, <1>5

LEMMA RetryLed ==
  ASSUME NEW c \in Callers, QueriesFit, QueriesLed, NEW result,
         Retry(c) \/ End(c, result)
  PROVE  QueriesLed'
<1>1. ASSUME NEW end, End(c, end)
      PROVE  QueriesLed'
  <2>1. Led([Idle EXCEPT !.pc = end])
    BY IdleLed
  <2> QED BY <1>1, <2>1, LedKept DEF End
<1>2. CASE Retry(c)
  <2>1. CASE End(c, "failed")
    BY <1>1, <2>1
  <2>2. CASE ~End(c, "failed")
    <3> DEFINE q == [Idle EXCEPT !.pc = "lookup", !.domain = query[c].domain,
                                 !.cancelled = query[c].cancelled,
                                 !.attempt = query[c].attempt + 1]
    <3>1. Set(c, q)
      BY <1>2, <2>2 DEF Retry
    <3>2. Led(q)
      BY IdleLed
    <3> HIDE DEF q
    <3> QED BY <3>1, <3>2, LedKept
  <2> QED BY <2>1, <2>2
<1> QED BY <1>1, <1>2

LEMMA FaultLed ==
  ASSUME NEW c \in Callers, QueriesFit, QueriesLed, query[c].text = <<>>, NEW r, NEW result,
         Fault(c, r, result)
  PROVE  QueriesLed'
<1>1. Fits(query[c]) /\ Led(query[c])
  BY DEF QueriesFit, QueriesLed
<1>2. CASE Go(c, "blame")
  <2>1. Led([query[c] EXCEPT !.pc = "blame"])
    BY <1>1, SetLed
  <2> QED BY <1>2, <2>1, LedKept DEF Go
<1>3. CASE Retry(c) \/ End(c, result)
  BY <1>3, RetryLed
<1> QED BY <1>2, <1>3 DEF Fault

LEMMA StepLed ==
  ASSUME NEW c \in Callers, QueriesFit, QueriesLed, DataTyped, Step(c)
  PROVE  QueriesLed'
<1>1. Fits(query[c]) /\ Led(query[c]) /\ query[c].text \in Seq(Answers)
  BY FitsParts DEF QueriesFit, QueriesLed
<1>2. query[c].pc # "dial" => query[c].text = <<>>
  BY <1>1 DEF Led
<1>3. CASE Lookup(c)
  <2>1. query[c].text = <<>>
    BY <1>2, <1>3 DEF Lookup, At
  <2>2. CASE Set(c, [query[c] EXCEPT !.pc = "pick", !.left = Len(list)])
    <3>1. Led([query[c] EXCEPT !.pc = "pick", !.left = Len(list)])
      BY <1>1, <2>1, SetLed
    <3> QED BY <2>2, <3>1, LedKept
  <2>3. CASE Go(c, "aim")
    <3>1. Led([query[c] EXCEPT !.pc = "aim"])
      BY <1>1, <2>1, SetLed
    <3> QED BY <2>3, <3>1, LedKept DEF Go
  <2>4. CASE End(c, "failed") \/ End(c, "answered")
    BY <2>4, RetryLed
  <2> QED BY <1>3, <2>2, <2>3, <2>4 DEF Lookup
<1>4. CASE Pick(c)
  <2>1. query[c].text = <<>>
    BY <1>2, <1>4 DEF Pick, At
  <2>2. CASE End(c, "failed") \/ Retry(c) \/ End(c, "panicked")
    BY <2>2, RetryLed
  <2>3. ASSUME NEW p, Set(c, [query[c] EXCEPT !.pc = "aim", !.mine = p, !.left = @ - 1])
        PROVE  QueriesLed'
    <3>1. Led([query[c] EXCEPT !.pc = "aim", !.mine = p, !.left = query[c].left - 1])
      BY <1>1, <2>1, SetLed
    <3> QED BY <2>3, <3>1, LedKept
  <2> QED BY <1>4, <2>2, <2>3 DEF Pick, NextUp, ResetAll
<1>5. CASE Aim(c)
  <2>1. query[c].text = <<>>
    BY <1>2, <1>5 DEF Aim, At
  <2>2. CASE Fault(c, FALSE, "no_server") \/ Fault(c, TRUE, "failed")
    BY <2>1, <2>2, FaultLed
  <2>3. CASE /\ query[c].domain \in twoLabels
             /\ Set(c, [query[c] EXCEPT !.pc = "dial", !.server = ServerOf[query[c].domain]])
    <3>1. ServerOf[query[c].domain] \in Servers
      BY <2>3, ClientAssumption DEF DataTyped
    <3>2. Led([query[c] EXCEPT !.pc = "dial", !.server = ServerOf[query[c].domain]])
      BY <1>1, <2>1, <3>1, SetLed
    <3> QED BY <2>3, <3>2, LedKept
  <2> QED BY <1>5, <2>2, <2>3 DEF Aim
<1>6. CASE Dial(c)
  <2>0. query[c].pc = "dial"
    BY <1>6 DEF Dial, At
  <2>1. CASE Stored(c)
    <3>1. Led([query[c] EXCEPT !.pc = "store", !.text = <<>>, !.server = None])
      BY <1>1, SetLed
    <3> QED BY <2>1, <3>1, LedKept DEF Stored
  <2>2. CASE query[c].text = <<>> /\ \E r \in BOOLEAN : Fault(c, r, "failed")
    BY <2>2, FaultLed
  <2>3. ASSUME NEW a \in Answers, Referral(Append(query[c].text, a)) \notin {None, query[c].server},
               Set(c, [query[c] EXCEPT !.text = Append(query[c].text, a),
                                       !.server = Referral(Append(query[c].text, a))])
        PROVE  QueriesLed'
    <3> DEFINE t == Append(query[c].text, a)
               q == [query[c] EXCEPT !.text = t, !.server = Referral(t)]
    <3>1. Referral(t) \in Servers /\ LedBy(t, Referral(t))
      BY <1>1, <2>3, LedOn DEF Led
    <3> HIDE DEF t
    <3>2. q.pc = "dial" /\ q.text = t /\ q.server = Referral(t)
      BY <1>1, <2>0 DEF Fits, Shaped
    <3>3. Led(q)
      BY <3>1, <3>2 DEF Led
    <3> QED BY <2>3, <3>3, LedKept DEF t
  <2> QED BY <1>6, <2>1, <2>2, <2>3 DEF Dial, Unanswered, Answered
<1>7. CASE Store(c)
  BY <1>7, RetryLed DEF Store
<1>8. CASE Blame(c)
  <2>1. query[c].text = <<>>
    BY <1>2, <1>8 DEF Blame, At
  <2>2. Led([query[c] EXCEPT !.pc = "pick", !.server = None])
    BY <1>1, <2>1, SetLed
  <2> QED BY <1>8, <2>2, LedKept DEF Blame
<1> QED BY <1>3, <1>4, <1>5, <1>6, <1>7, <1>8 DEF Step

LEMMA DataKept ==
  ASSUME ClientInv, DataTyped, [Next]_vars
  PROVE  DataTyped'
<1>1. CASE LoadProxies
  <2>1. loads' \in 0 .. MaxLoads
    BY <1>1, ClientAssumption DEF DataTyped, LoadProxies
  <2> QED BY <1>1, <2>1 DEF DataTyped, LoadProxies
<1>2. ASSUME NEW d \in Domains, Forget(d) \/ Warm(d)
      PROVE  DataTyped'
  BY <1>2 DEF DataTyped, Forget, Warm, client
<1>3. ASSUME NEW p \in Proxies, CheckProxy(p)
      PROVE  DataTyped'
  BY <1>3 DEF DataTyped, CheckProxy, client
<1>4. ASSUME NEW c \in Callers, Step(c)
      PROVE  DataTyped'
  <2>1. query[c].mine \in Proxies \cup {None}
    BY FitsParts DEF ClientInv, QueriesFit
  <2>2. CASE Aim(c)
    <3>1. dialer' \in Proxies \cup {None}
      BY <2>1, <2>2 DEF Aim, DialerFor, DataTyped
    <3> QED BY <2>2, <3>1 DEF Aim, DataTyped
  <2>3. CASE Store(c)
    BY <2>3 DEF Store, DataTyped, client
  <2>4. CASE Lookup(c) \/ Pick(c) \/ Dial(c) \/ Blame(c)
    BY <2>4 DEF Lookup, Pick, Dial, Blame, DataTyped, client
  <2> QED BY <1>4, <2>2, <2>3, <2>4 DEF Step
<1>5. ASSUME NEW c \in Callers, Cancel(c) \/ \E d \in Domains : Ask(c, d)
      PROVE  DataTyped'
  BY <1>5 DEF DataTyped, Cancel, Ask, client
<1>6. CASE UNCHANGED vars
  BY <1>6 DEF DataTyped, vars, client
<1> QED BY <1>1, <1>2, <1>3, <1>4, <1>5, <1>6 DEF Next

LEMMA LedAlways ==
  ASSUME ClientInv, DataTyped, QueriesLed, [Next]_vars
  PROVE  QueriesLed'
<1>0. QueriesFit
  BY DEF ClientInv
<1>1. CASE UNCHANGED query
  BY <1>1 DEF QueriesLed, Led, LedBy
<1>2. ASSUME NEW c \in Callers, Step(c)
      PROVE  QueriesLed'
  BY <1>0, <1>2, StepLed
<1>3. ASSUME NEW c \in Callers, Cancel(c)
      PROVE  QueriesLed'
  <2>1. Fits(query[c]) /\ Led(query[c])
    BY <1>0 DEF QueriesFit, QueriesLed
  <2>2. Led([query[c] EXCEPT !.cancelled = TRUE])
    BY <2>1, SetLed
  <2> QED BY <1>0, <1>3, <2>2, LedKept DEF Cancel
<1>4. ASSUME NEW c \in Callers, NEW d \in Domains, Ask(c, d)
      PROVE  QueriesLed'
  BY <1>0, <1>4, IdleLed, LedKept DEF Ask
<1>5. CASE LoadProxies \/ (\E d \in Domains : Forget(d) \/ Warm(d)) \/ \E p \in Proxies : CheckProxy(p)
  BY <1>1, <1>5 DEF LoadProxies, Forget, Warm, CheckProxy
<1> QED BY <1>1, <1>2, <1>3, <1>4, <1>5 DEF Next, vars

(* The client keeps its types, and however servers answer, no query follows *)
(* more than two referrals: extractReferralServer looks through all the     *)
(* responses so far, so that the loop of queryDirectContext, which would    *)
(* follow three, is not told of a third new server.                         *)
THEOREM ClientTyped == Spec => []TypeOK
<1>1. Init => DataTyped /\ QueriesLed
  <2> SUFFICES ASSUME Init
               PROVE  DataTyped /\ QueriesLed
    OBVIOUS
  <2>1. DataTyped
    BY ClientAssumption DEF Init, DataTyped
  <2>2. \A c \in Callers : query[c] = Idle
    BY DEF Init
  <2> QED BY <2>1, <2>2, IdleLed DEF QueriesLed
<1>2. ClientInv /\ DataTyped /\ QueriesLed /\ [Next]_vars => (DataTyped /\ QueriesLed)'
  BY DataKept, LedAlways
<1>3. ClientInv /\ DataTyped /\ QueriesLed => TypeOK
  <2> SUFFICES ASSUME ClientInv, DataTyped, QueriesLed
               PROVE  TypeOK
    OBVIOUS
  <2>1. PoolTyped /\ PoolSound /\ QueriesFit
    BY DEF ClientInv
  <2>2. up \subseteq Proxies
    BY <2>1 DEF PoolSound, PoolTyped, ToSet
  <2>3. ASSUME NEW c \in Callers
        PROVE  query[c] \in Query /\ Len(query[c].text) <= 2
    <3>1. query[c] \in Shaped({query[c].server}) /\ Led(query[c])
      BY <2>1 DEF QueriesFit, Fits, QueriesLed
    <3>2. query[c] \in Query
      BY <3>1 DEF Led, Shaped, Query
    <3>3. Len(query[c].text) <= 2
      <4>1. query[c].text = <<>> \/ Len(query[c].text) = 1 \/ Len(query[c].text) = 2
        BY <3>1 DEF Led, LedBy
      <4>2. CASE query[c].text = <<>>
        <5>1. Len(query[c].text) = 0
          BY <4>2
        <5> QED BY <5>1
      <4>3. CASE Len(query[c].text) = 1 \/ Len(query[c].text) = 2
        <5> DEFINE n == Len(query[c].text)
        <5>1. n = 1 \/ n = 2
          BY <4>3
        <5> HIDE DEF n
        <5>2. n <= 2
          BY <5>1
        <5> QED BY <5>2 DEF n
      <4> QED BY <4>1, <4>2, <4>3
    <3> QED BY <3>2, <3>3
  <2>4. query \in [Callers -> Query]
    <3>1. PICK S : query \in [Callers -> S]
      BY <2>1 DEF QueriesFit
    <3> QED BY <2>3, <3>1
  <2> QED BY <2>1, <2>2, <2>3, <2>4 DEF TypeOK, DataTyped, PoolTyped
<1> QED BY <1>1, <1>2, <1>3, InvCorrect, PTL DEF Spec
-----------------------------------------------------------------------------
(* What becomes of the domains below a suffix of one label.                 *)

(* A query of q's domain gets past the table of servers only below a known  *)
(* suffix, and ends without a server only if some domain is not below one.  *)
Passes(q, known) ==
  /\ q.pc \in Working => q.domain \in Domains
  /\ q.pc \in {"dial", "store"} => q.domain \in known
  /\ q.pc = "no_server" => known # Domains

QueriesPass == \A c \in Callers : Passes(query[c], twoLabels)
CacheBelow  == \A d \in Domains : cached[d] = "response" => d \in twoLabels

LEMMA SetPasses ==
  ASSUME NEW q, Fits(q), NEW known, Passes(q, known), q.pc \in Working,
         NEW b, NEW n, NEW p, NEW s, NEW t, NEW pc \in {"pick", "aim", "blame"}
  PROVE  /\ Passes([q EXCEPT !.cancelled = b], known)
         /\ Passes([q EXCEPT !.pc = pc], known)
         /\ Passes([q EXCEPT !.pc = pc, !.left = n], known)
         /\ Passes([q EXCEPT !.pc = pc, !.mine = p, !.left = n], known)
         /\ Passes([q EXCEPT !.pc = pc, !.server = s], known)
         /\ Passes([q EXCEPT !.text = t, !.server = s], known)
         /\ q.domain \in known => /\ Passes([q EXCEPT !.pc = "dial", !.server = s], known)
                                 /\ Passes([q EXCEPT !.pc = "store", !.text = t, !.server = s], known)
<1>1. q \in Shaped({q.server})
  BY DEF Fits
<1>2. q.domain \in Domains /\ (q.pc \in {"dial", "store"} => q.domain \in known)
      /\ q.pc # "no_server"
  BY DEF Passes, Working
<1> QED BY <1>1, <1>2 DEF Passes, Shaped, Working

LEMMA IdlePasses ==
  ASSUME NEW known, NEW d, NEW b, NEW n, NEW end \in Results \ {"no_server"}
  PROVE  /\ Passes(Idle, known) /\ Passes([Idle EXCEPT !.pc = end], known)
         /\ known # Domains => Passes([Idle EXCEPT !.pc = "no_server"], known)
         /\ d \in Domains =>
              /\ Passes([Idle EXCEPT !.pc = "lookup", !.domain = d], known)
              /\ Passes([Idle EXCEPT !.pc = "lookup", !.domain = d, !.cancelled = b,
                                     !.attempt = n], known)
BY DEF Idle, Passes, Working, Results

(* The query of one caller changes.                                         *)
LEMMA PassesKept ==
  ASSUME NEW c \in Callers, QueriesFit, QueriesPass, UNCHANGED twoLabels,
         NEW q, Set(c, q), Passes(q, twoLabels)
  PROVE  QueriesPass'
<1>1. PICK S : query \in [Callers -> S]
  BY DEF QueriesFit
<1>2. query' = [query EXCEPT ![c] = q]
  BY DEF Set
<1>3. \A x \in Callers : query'[x] = IF x = c THEN q ELSE query[x]
  BY <1>1, <1>2
<1>4. \A x \in Callers : Passes(query'[x], twoLabels)
  BY <1>3 DEF QueriesPass
<1>5. QueriesPass' <=> \A x \in Callers : Passes(query'[x], twoLabels)
  BY DEF QueriesPass, Passes
<1> QED BY <1>4, <1>5

LEMMA EndPasses ==
  ASSUME NEW c \in Callers, QueriesFit, QueriesPass, UNCHANGED twoLabels,
         NEW end \in Results, end = "no_server" => twoLabels # Domains, End(c, end)
  PROVE  QueriesPass'
<1>1. Passes([Idle EXCEPT !.pc = end], twoLabels)
  <2>1. CASE end = "no_server"
    <3>1. "failed" \in Results \ {"no_server"}
      BY DEF Results
    <3> QED BY <2>1, <3>1, IdlePasses
  <2>2. CASE end # "no_server"
    BY <2>2, IdlePasses
  <2> QED BY <2>1, <2>2
<1>2. Set(c, [Idle EXCEPT !.pc = end])
  BY DEF End
<1> DEFINE q == [Idle EXCEPT !.pc = end]
<1> HIDE DEF q
<1> QED BY <1>1, <1>2, PassesKept DEF q

LEMMA RetryPasses ==
  ASSUME NEW c \in Callers, QueriesFit, QueriesPass, UNCHANGED twoLabels,
         query[c].pc \in Working, Retry(c)
  PROVE  QueriesPass'
<1>1. query[c].domain \in Domains
  BY DEF QueriesPass, Passes
<1>2. CASE End(c, "failed")
  BY <1>2, EndPasses DEF Results
<1>3. CASE ~End(c, "failed")
  <2> DEFINE q == [Idle EXCEPT !.pc = "lookup", !.domain = query[c].domain,
                               !.cancelled = query[c].cancelled,
                               !.attempt = query[c].attempt + 1]
  <2>1. Set(c, q)
    BY <1>3 DEF Retry
  <2>2. "failed" \in Results \ {"no_server"}
    BY DEF Results
  <2>3. Passes(q, twoLabels)
    BY <1>1, <2>2, IdlePasses
  <2> HIDE DEF q
  <2> QED BY <2>1, <2>3, PassesKept
<1> QED BY <1>2, <1>3

LEMMA FaultPasses ==
  ASSUME NEW c \in Callers, QueriesFit, QueriesPass, UNCHANGED twoLabels,
         query[c].pc \in Working, NEW r, NEW result \in Results,
         result = "no_server" => twoLabels # Domains, Fault(c, r, result)
  PROVE  QueriesPass'
<1>1. CASE Go(c, "blame")
  <2>1. Passes([query[c] EXCEPT !.pc = "blame"], twoLabels)
    BY SetPasses DEF QueriesFit, QueriesPass
  <2> QED BY <1>1, <2>1, PassesKept DEF Go
<1>2. CASE Retry(c)
  BY <1>2, RetryPasses
<1>3. CASE End(c, result)
  BY <1>3, EndPasses
<1> QED BY <1>1, <1>2, <1>3 DEF Fault

LEMMA StepPasses ==
  ASSUME NEW c \in Callers, QueriesFit, QueriesPass, twoLabels \subseteq Domains, Step(c)
  PROVE  QueriesPass' /\ UNCHANGED twoLabels
<1>1. Fits(query[c]) /\ Passes(query[c], twoLabels)
  BY DEF QueriesFit, QueriesPass
<1>2. query[c].pc \in Working
  BY DEF Step, Lookup, Pick, Aim, Dial, Store, Blame, At, Working
<1>3. UNCHANGED twoLabels
  BY DEF Step, Lookup, Pick, Aim, Dial, Store, Blame, client
<1>4. query[c].domain \in Domains
  BY <1>1, <1>2 DEF Passes
<1>5. {"failed", "answered", "panicked", "no_server"} \subseteq Results
  BY DEF Results
<1>6. CASE End(c, "failed") \/ End(c, "answered") \/ End(c, "panicked")
  BY <1>3, <1>5, <1>6, EndPasses
<1>7. CASE Retry(c)
  BY <1>2, <1>3, <1>7, RetryPasses
<1>8. ASSUME NEW q, Set(c, q), Passes(q, twoLabels)
      PROVE  QueriesPass' /\ UNCHANGED twoLabels
  BY <1>3, <1>8, PassesKept
<1>9. CASE Lookup(c)
  <2>1. CASE Set(c, [query[c] EXCEPT !.pc = "pick", !.left = Len(list)])
    <3>1. Passes([query[c] EXCEPT !.pc = "pick", !.left = Len(list)], twoLabels)
      BY <1>1, <1>2, SetPasses
    <3> QED BY <1>8, <2>1, <3>1
  <2>2. CASE Go(c, "aim")
    <3>1. Passes([query[c] EXCEPT !.pc = "aim"], twoLabels)
      BY <1>1, <1>2, SetPasses
    <3> QED BY <1>8, <2>2, <3>1 DEF Go
  <2> QED BY <1>6, <1>9, <2>1, <2>2 DEF Lookup
<1>10. CASE Pick(c)
  <2>1. ASSUME NEW p, Set(c, [query[c] EXCEPT !.pc = "aim", !.mine = p, !.left = @ - 1])
        PROVE  QueriesPass' /\ UNCHANGED twoLabels
    <3>1. Passes([query[c] EXCEPT !.pc = "aim", !.mine = p, !.left = query[c].left - 1], twoLabels)
      BY <1>1, <1>2, SetPasses
    <3> QED BY <1>8, <2>1, <3>1
  <2> QED BY <1>6, <1>7, <1>10, <2>1 DEF Pick, NextUp, ResetAll
<1>11. CASE Aim(c)
  <2>1. CASE /\ query[c].domain \notin twoLabels /\ Fault(c, FALSE, "no_server")
    BY <1>2, <1>3, <1>4, <1>5, <2>1, FaultPasses
  <2>2. CASE Fault(c, TRUE, "failed")
    BY <1>2, <1>3, <1>5, <2>2, FaultPasses
  <2>3. CASE /\ query[c].domain \in twoLabels
             /\ Set(c, [query[c] EXCEPT !.pc = "dial", !.server = ServerOf[query[c].domain]])
    <3>1. Passes([query[c] EXCEPT !.pc = "dial", !.server = ServerOf[query[c].domain]], twoLabels)
      BY <1>1, <1>2, <2>3, SetPasses
    <3> QED BY <1>3, <2>3, <3>1, PassesKept
  <2> QED BY <1>11, <2>1, <2>2, <2>3 DEF Aim
<1>12. CASE Dial(c)
  <2>1. query[c].domain \in twoLabels
    BY <1>1, <1>12 DEF Dial, At, Passes
  <2>2. CASE Stored(c)
    <3>1. Passes([query[c] EXCEPT !.pc = "store", !.text = <<>>, !.server = None], twoLabels)
      BY <1>1, <1>2, <2>1, SetPasses
    <3> QED BY <1>3, <2>2, <3>1, PassesKept DEF Stored
  <2>3. CASE \E r \in BOOLEAN : Fault(c, r, "failed")
    BY <1>2, <1>3, <1>5, <2>3, FaultPasses
  <2>4. ASSUME NEW t, NEW s, Set(c, [query[c] EXCEPT !.text = t, !.server = s])
        PROVE  QueriesPass' /\ UNCHANGED twoLabels
    <3>1. Passes([query[c] EXCEPT !.text = t, !.server = s], twoLabels)
      BY <1>1, <1>2, SetPasses
    <3> QED BY <1>3, <2>4, <3>1, PassesKept
  <2>5. CASE Unanswered(c)
    BY <2>2, <2>3, <2>5 DEF Unanswered
  <2>6. CASE Answered(c)
    <3>1. PICK a \in Answers :
            \/ Set(c, [query[c] EXCEPT !.text = Append(query[c].text, a),
                                       !.server = Referral(Append(query[c].text, a))])
            \/ Stored(c)
      BY <2>6 DEF Answered
    <3> QED BY <2>2, <2>4, <3>1
  <2> QED BY <1>12, <2>5, <2>6 DEF Dial
<1>13. CASE Store(c)
  BY <1>6, <1>13 DEF Store
<1>14. CASE Blame(c)
  <2>1. Passes([query[c] EXCEPT !.pc = "pick", !.server = None], twoLabels)
    BY <1>1, <1>2, SetPasses
  <2> QED BY <1>8, <1>14, <2>1 DEF Blame
<1> QED BY <1>3, <1>9, <1>10, <1>11, <1>12, <1>13, <1>14 DEF Step

LEMMA PassAlways ==
  ASSUME QueriesFit, QueriesPass, CacheBelow, twoLabels \subseteq Domains,
         cached \in [Domains -> {"nothing", "empty", "response"}], [Next]_vars
  PROVE  QueriesPass' /\ CacheBelow' /\ UNCHANGED twoLabels
<1>1. ASSUME UNCHANGED <<query, twoLabels>>,
             UNCHANGED cached \/ \E d \in Domains : Forget(d) \/ Warm(d)
      PROVE  QueriesPass' /\ CacheBelow' /\ UNCHANGED twoLabels
  <2>1. QueriesPass'
    BY <1>1 DEF QueriesPass, Passes
  <2> QED BY <1>1, <2>1 DEF CacheBelow, Forget, Warm
<1>2. ASSUME NEW c \in Callers, Step(c)
      PROVE  QueriesPass' /\ CacheBelow' /\ UNCHANGED twoLabels
  <2>1. QueriesPass' /\ UNCHANGED twoLabels
    BY <1>2, StepPasses
  <2>2. CASE Store(c)
    <3>1. query[c].domain \in twoLabels
      BY <2>2 DEF Store, At, QueriesPass, Passes
    <3> QED BY <2>1, <2>2, <3>1 DEF Store, CacheBelow
  <2>3. CASE ~Store(c)
    BY <1>2, <2>1, <2>3 DEF Step, Lookup, Pick, Aim, Dial, Blame, CacheBelow
  <2> QED BY <2>1, <2>2, <2>3
<1>3. ASSUME NEW c \in Callers, Cancel(c)
      PROVE  QueriesPass' /\ CacheBelow' /\ UNCHANGED twoLabels
  <2>1. Passes([query[c] EXCEPT !.cancelled = TRUE], twoLabels)
    BY <1>3, SetPasses DEF Cancel, Active, QueriesFit, QueriesPass
  <2>2. QueriesPass'
    BY <1>3, <2>1, PassesKept DEF Cancel, client
  <2> QED BY <1>3, <2>2 DEF Cancel, CacheBelow, client
<1>4. ASSUME NEW c \in Callers, NEW d \in Domains, Ask(c, d)
      PROVE  QueriesPass' /\ CacheBelow' /\ UNCHANGED twoLabels
  <2>1. "failed" \in Results \ {"no_server"}
    BY DEF Results
  <2>2. Passes([Idle EXCEPT !.pc = "lookup", !.domain = d], twoLabels)
    BY <2>1, IdlePasses
  <2>3. QueriesPass'
    BY <1>4, <2>2, PassesKept DEF Ask, client
  <2> QED BY <1>4, <2>3 DEF Ask, CacheBelow, client
<1>5. CASE LoadProxies \/ (\E d \in Domains : Forget(d) \/ Warm(d)) \/ \E p \in Proxies : CheckProxy(p)
  BY <1>1, <1>5 DEF LoadProxies, Forget, Warm, CheckProxy, client
<1>6. CASE UNCHANGED vars
  BY <1>1, <1>6 DEF vars, client
<1> QED BY <1>2, <1>3, <1>4, <1>5, <1>6 DEF Next

(* What a query answers was asked of a server, or is cached: the domain is  *)
(* below a suffix of two labels.                                            *)
AnswersBelow ==
  \A c \in Callers : Step(c) /\ query'[c].pc = "answered" => query[c].domain \in twoLabels

LEMMA AnswerPasses ==
  ASSUME QueriesFit, QueriesPass, CacheBelow, NEW c \in Callers, Step(c), query'[c].pc = "answered"
  PROVE  query[c].domain \in twoLabels
<1>1. PICK S : query \in [Callers -> S]
  BY DEF QueriesFit
<1>2. query[c] \in Shaped({query[c].server}) /\ Passes(query[c], twoLabels)
  BY DEF QueriesFit, Fits, QueriesPass
<1>4. ~Retry(c) /\ \A end : End(c, end) => end = "answered"
  <2>1. \A end : End(c, end) => end = "answered"
    BY <1>1 DEF End, Set, Idle
  <2>2. ~Set(c, [Idle EXCEPT !.pc = "lookup", !.domain = query[c].domain,
                            !.cancelled = query[c].cancelled, !.attempt = query[c].attempt + 1])
    BY <1>1 DEF Set, Idle
  <2> QED BY <2>1, <2>2 DEF Retry
<1>5. \A pc : Go(c, pc) => pc = "answered"
  BY <1>1, <1>2 DEF Go, Set, Shaped
<1>6. CASE Lookup(c)
  <2>1. /\ query[c].domain \in Domains
    BY <1>2, <1>6 DEF Lookup, At, Passes, Working
  <2>2. ~Set(c, [query[c] EXCEPT !.pc = "pick", !.left = Len(list)])
    BY <1>1, <1>2 DEF Set, Shaped
  <2>3. cached[query[c].domain] = "response"
    BY <1>4, <1>5, <1>6, <2>2 DEF Lookup
  <2> QED BY <2>1, <2>3 DEF CacheBelow
<1>7. ~Pick(c)
  <2>1. \A p : ~Set(c, [query[c] EXCEPT !.pc = "aim", !.mine = p, !.left = query[c].left - 1])
    BY <1>1, <1>2 DEF Set, Shaped
  <2> QED BY <1>4, <2>1 DEF Pick, NextUp, ResetAll
<1>8. CASE Aim(c)
  <2>1. ~Fault(c, FALSE, "no_server")
    BY <1>4, <1>5 DEF Fault
  <2>2. query[c].domain \in twoLabels
    <3>1. CASE Fault(c, TRUE, "failed")
      BY <1>4, <1>5, <3>1 DEF Fault
    <3>2. CASE query[c].domain \in twoLabels
      BY <3>2
    <3> QED BY <1>8, <2>1, <3>1, <3>2 DEF Aim
  <2> QED BY <2>2
<1>9. CASE Dial(c) \/ Store(c)
  BY <1>2, <1>9 DEF Dial, Store, At, Passes
<1>10. ~Blame(c)
  <2>1. ~Set(c, [query[c] EXCEPT !.pc = "pick", !.server = None])
    BY <1>1, <1>2 DEF Set, Shaped
  <2> QED BY <2>1 DEF Blame
<1> QED BY <1>6, <1>7, <1>8, <1>9, <1>10 DEF Step

(* Whatever is asked: no domain below a suffix of one label is ever asked   *)
(* of a server or answered, with or without proxies, for queryDirectContext *)
(* gives getWhoisServer the suffix where it wants the domain.  That is all  *)
(* that leaves a domain without a server: none is if all the domains are    *)
(* below suffixes of two labels.                                            *)
THEOREM OneLabelUnanswered ==
  Spec => /\ [](\A c \in Callers : query[c].pc \in {"dial", "store"} => query[c].domain \in twoLabels)
          /\ [][AnswersBelow]_vars
          /\ [](twoLabels = Domains => ServerKnown)
<1> DEFINE Asked == \A c \in Callers : query[c].pc \in {"dial", "store"} => query[c].domain \in twoLabels
           Inv == ClientInv /\ TypeOK /\ QueriesPass /\ CacheBelow
<1>1. Init => QueriesPass /\ CacheBelow
  <2> SUFFICES ASSUME Init
               PROVE  QueriesPass /\ CacheBelow
    OBVIOUS
  <2>1. "failed" \in Results \ {"no_server"}
    BY DEF Results
  <2>2. \A c \in Callers : query[c] = Idle
    BY DEF Init
  <2>3. QueriesPass
    BY <2>1, <2>2, IdlePasses DEF QueriesPass
  <2> QED BY <2>3 DEF Init, CacheBelow
<1>2. Inv /\ [Next]_vars => QueriesPass' /\ CacheBelow'
  <2> SUFFICES ASSUME Inv, [Next]_vars
               PROVE  QueriesPass' /\ CacheBelow'
    OBVIOUS
  <2>1. QueriesFit /\ QueriesPass /\ CacheBelow /\ twoLabels \subseteq Domains
        /\ cached \in [Domains -> {"nothing", "empty", "response"}]
    BY DEF ClientInv, TypeOK
  <2> QED BY <2>1, PassAlways
<1>3. Inv => Asked
  BY DEF QueriesPass, Passes
<1>4. Inv => (twoLabels = Domains => ServerKnown)
  BY DEF QueriesPass, Passes, ServerKnown, At
<1>5. Inv => AnswersBelow
  <2> SUFFICES ASSUME Inv
               PROVE  AnswersBelow
    OBVIOUS
  <2>1. QueriesFit /\ QueriesPass /\ CacheBelow
    BY DEF ClientInv
  <2> QED BY <2>1, AnswerPasses DEF AnswersBelow
<1>6. Spec => []Inv
  BY <1>1, <1>2, InvCorrect, ClientTyped, PTL DEF Spec
<1>7. Spec => []Asked
  BY <1>3, <1>6, PTL
<1>8. Spec => [](twoLabels = Domains => ServerKnown)
  BY <1>4, <1>6, PTL
<1>9. Spec => [][AnswersBelow]_vars
  BY <1>5, <1>6, PTL DEF Spec
<1> QED BY <1>7, <1>8, <1>9
-----------------------------------------------------------------------------
(* Where the nil proxy comes from. *)

Unbroken == list # <<>> /\ \A c \in Callers : ~At(c, "panicked")

LEMMA StepUnbroken ==
  ASSUME QueriesFit, list # <<>>, NEW c \in Callers, Step(c)
  PROVE  query'[c].pc # "panicked" /\ \A x \in Callers \ {c} : query'[x] = query[x]
<1>1. PICK S : query \in [Callers -> S]
  BY DEF QueriesFit
<1>2. query[c] \in Shaped({query[c].server})
  BY DEF QueriesFit, Fits
<1>3. ASSUME NEW q, Set(c, q), q.pc # "panicked"
      PROVE  query'[c].pc # "panicked" /\ \A x \in Callers \ {c} : query'[x] = query[x]
  BY <1>1, <1>3 DEF Set
<1>4. ASSUME NEW end, End(c, end), end # "panicked"
      PROVE  query'[c].pc # "panicked" /\ \A x \in Callers \ {c} : query'[x] = query[x]
  <2>1. [Idle EXCEPT !.pc = end].pc # "panicked"
    BY <1>4 DEF Idle
  <2> QED BY <1>3, <1>4, <2>1 DEF End
<1>5. ASSUME NEW pc, Go(c, pc), pc # "panicked"
      PROVE  query'[c].pc # "panicked" /\ \A x \in Callers \ {c} : query'[x] = query[x]
  <2>1. [query[c] EXCEPT !.pc = pc].pc # "panicked"
    BY <1>2, <1>5 DEF Shaped
  <2> QED BY <1>3, <1>5, <2>1 DEF Go
<1>6. CASE Retry(c)
  <2>1. CASE End(c, "failed")
    BY <1>4, <2>1
  <2>2. CASE ~End(c, "failed")
    <3> DEFINE q == [Idle EXCEPT !.pc = "lookup", !.domain = query[c].domain,
                                 !.cancelled = query[c].cancelled,
                                 !.attempt = query[c].attempt + 1]
    <3>1. Set(c, q)
      BY <1>6, <2>2 DEF Retry
    <3>2. q.pc # "panicked"
      BY DEF Idle
    <3> HIDE DEF q
    <3> QED BY <1>3, <3>1, <3>2
  <2> QED BY <2>1, <2>2
<1>7. ASSUME NEW r, NEW result, Fault(c, r, result), result # "panicked"
      PROVE  query'[c].pc # "panicked" /\ \A x \in Callers \ {c} : query'[x] = query[x]
  <2>1. CASE Go(c, "blame")
    BY <1>5, <2>1
  <2>2. CASE End(c, result)
    BY <1>4, <1>7, <2>2
  <2> QED BY <1>6, <1>7, <2>1, <2>2 DEF Fault
<1>8. CASE Lookup(c)
  <2>1. CASE Set(c, [query[c] EXCEPT !.pc = "pick", !.left = Len(list)])
    <3>1. [query[c] EXCEPT !.pc = "pick", !.left = Len(list)].pc # "panicked"
      BY <1>2 DEF Shaped
    <3> QED BY <1>3, <2>1, <3>1
  <2> QED BY <1>4, <1>5, <1>8, <2>1 DEF Lookup
<1>9. CASE Pick(c)
  <2>1. ASSUME NEW p, Set(c, [query[c] EXCEPT !.pc = "aim", !.mine = p, !.left = @ - 1])
        PROVE  query'[c].pc # "panicked" /\ \A x \in Callers \ {c} : query'[x] = query[x]
    <3>1. [query[c] EXCEPT !.pc = "aim", !.mine = p, !.left = @ - 1].pc # "panicked"
      BY <1>2 DEF Shaped
    <3> QED BY <1>3, <2>1, <3>1
  <2> QED BY <1>4, <1>6, <1>9, <2>1 DEF Pick, NextUp, ResetAll
<1>10. CASE Aim(c)
  <2>1. ASSUME NEW server, Set(c, [query[c] EXCEPT !.pc = "dial", !.server = server])
        PROVE  query'[c].pc # "panicked" /\ \A x \in Callers \ {c} : query'[x] = query[x]
    <3>1. [query[c] EXCEPT !.pc = "dial", !.server = server].pc # "panicked"
      BY <1>2 DEF Shaped
    <3> QED BY <1>3, <2>1, <3>1
  <2> QED BY <1>7, <1>10, <2>1 DEF Aim
<1>11. CASE Dial(c)
  <2>1. CASE Stored(c)
    <3>1. [query[c] EXCEPT !.pc = "store", !.text = <<>>, !.server = None].pc # "panicked"
      BY <1>2 DEF Shaped
    <3> QED BY <1>3, <2>1, <3>1 DEF Stored
  <2>2. ASSUME NEW t, NEW s, Set(c, [query[c] EXCEPT !.text = t, !.server = s])
        PROVE  query'[c].pc # "panicked" /\ \A x \in Callers \ {c} : query'[x] = query[x]
    <3>1. [query[c] EXCEPT !.text = t, !.server = s].pc = "dial"
      BY <1>2, <1>11 DEF Dial, At, Shaped
    <3> QED BY <1>3, <2>2, <3>1
  <2>3. CASE Unanswered(c)
    BY <1>7, <2>1, <2>3 DEF Unanswered
  <2>4. CASE Answered(c)
    <3>1. PICK a \in Answers :
            \/ Set(c, [query[c] EXCEPT !.text = Append(query[c].text, a),
                                       !.server = Referral(Append(query[c].text, a))])
            \/ Stored(c)
      BY <2>4 DEF Answered
    <3> QED BY <2>1, <2>2, <3>1
  <2> QED BY <1>11, <2>3, <2>4 DEF Dial
<1>12. CASE Store(c)
  BY <1>4, <1>12 DEF Store
<1>13. CASE Blame(c)
  <2>1. [query[c] EXCEPT !.pc = "pick", !.server = None].pc # "panicked"
    BY <1>2 DEF Shaped
  <2> QED BY <1>3, <1>13, <2>1 DEF Blame
<1> QED BY <1>8, <1>9, <1>10, <1>11, <1>12, <1>13 DEF Step

(* A query dereferences the nil that GetNextProxy returns only if some list *)
(* of proxies that is loaded is empty, whatever fails or is marked down: a  *)
(* pool that has a proxy always gives one.                                  *)
THEOREM NilOnlyFromEmptyList ==
  ASSUME <<>> \notin Files
  PROVE  Spec => [](\A c \in Callers : ~At(c, "panicked"))
<1>1. Init => Unbroken
  BY DEF Init, Unbroken, At, Idle
<1>2. ClientInv /\ Unbroken /\ [Next]_vars => Unbroken'
  <2> SUFFICES ASSUME ClientInv, Unbroken, [Next]_vars
               PROVE  Unbroken'
    OBVIOUS
  <2>0. QueriesFit /\ list # <<>> /\ \A c \in Callers : query[c].pc # "panicked"
    BY DEF ClientInv, Unbroken, At
  <2>a. PICK S : query \in [Callers -> S]
    BY <2>0 DEF QueriesFit
  <2>b. (\A c \in Callers : query'[c].pc # "panicked") /\ list' # <<>> => Unbroken'
    BY DEF Unbroken, At
  <2>1. CASE LoadProxies
    BY <2>0, <2>1, <2>b DEF LoadProxies, Loaded
  <2>2. CASE (\E d \in Domains : Forget(d) \/ Warm(d)) \/ (\E p \in Proxies : CheckProxy(p)) \/ UNCHANGED vars
    BY <2>0, <2>2, <2>b DEF Forget, Warm, CheckProxy, MarkSuccess, MarkFailure, vars, pool
  <2>3. ASSUME NEW c \in Callers, Step(c)
        PROVE  Unbroken'
    <3>1. list' = list
      BY <2>3 DEF Step, Lookup, Pick, NextUp, ResetAll, Aim, Dial, Store, Blame, MarkSuccess, MarkFailure, pool
    <3>2. \A x \in Callers : query'[x].pc # "panicked"
      BY <2>0, <2>3, StepUnbroken
    <3> QED BY <2>0, <2>b, <3>1, <3>2
  <2>4. ASSUME NEW c \in Callers, Cancel(c)
        PROVE  Unbroken'
    <3>1. query[c] \in Shaped({query[c].server})
      BY <2>0 DEF QueriesFit, Fits
    <3>2. [query[c] EXCEPT !.cancelled = TRUE].pc = query[c].pc
      BY <3>1 DEF Shaped
    <3> QED BY <2>0, <2>4, <2>a, <2>b, <3>2 DEF Cancel, Set, pool
  <2>5. ASSUME NEW c \in Callers, NEW d \in Domains, Ask(c, d)
        PROVE  Unbroken'
    <3>1. [Idle EXCEPT !.pc = "lookup", !.domain = d].pc = "lookup"
      BY DEF Idle
    <3> QED BY <2>0, <2>5, <2>a, <2>b, <3>1 DEF Ask, Set, pool
  <2> QED BY <2>1, <2>2, <2>3, <2>4, <2>5 DEF Next
<1>3. Unbroken => \A c \in Callers : ~At(c, "panicked")
  BY DEF Unbroken
<1> QED BY <1>1, <1>2, <1>3, InvCorrect, PTL DEF Spec
=============================================================================
