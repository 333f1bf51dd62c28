----------------------------- MODULE QueryClient -----------------------------
(***************************************************************************)
(* A proxied WHOIS query: the retry loop of pkg/whois/query.go over the     *)
(* WhoisClient of proxy.go, with its proxy pool, the response cache and a   *)
(* rate limiter that may refuse any call.  Each caller runs the whole query *)
(* in its own goroutine; all share one client and its one dialer.           *)
(*                                                                         *)
(* A response is abstracted to the servers it refers to.                    *)
(***************************************************************************)
EXTENDS Integers, FiniteSets, SequencesExt

CONSTANTS
  Callers, Domains, Proxies, Servers,
  ServerOf,    \* the server of each domain
  Answers,     \* what a server may answer
  Files,       \* proxy lists that may be loaded
  MaxProxies,  \* length of the longest of them
  MaxRetries,
  MaxLoads     \* bound: reloads of the proxy list

None == "none"

ASSUME ClientAssumption ==
  /\ IsFiniteSet(Callers) /\ IsFiniteSet(Proxies) /\ None \notin Servers \cup Proxies
  /\ ServerOf \in [Domains -> Servers]
  /\ Answers \subseteq [registrar : Servers \cup {None}, whois : Servers \cup {None}]
  /\ Files \subseteq Seq(Proxies) /\ Files # {}
  /\ MaxProxies \in Nat /\ \A file \in Files : Len(file) <= MaxProxies
  /\ MaxRetries \in Nat /\ MaxLoads \in Nat

VARIABLES
  pooled,     \* has the client a proxy pool?
  twoLabels,  \* the domains below a public suffix of two labels, as co.uk
  list, next, \* ProxyPool.proxies, currentIndex
  up,         \* the proxies whose status is Available
  failures,   \* FailureCount, 3 for three or more
  loads,
  dialer,     \* c.dialer.ProxyDialer
  cached,     \* the raw response that the cache has of each domain
  query,      \* what each caller is doing
  alone       \* history: the callers whose query has met no other

pool   == <<list, next, up, failures>>
client == <<pooled, twoLabels, loads, dialer>>
vars   == <<pool, client, cached, query, alone>>
-----------------------------------------------------------------------------
Results == {"answered", "failed", "no_server", "panicked"}
Working == {"lookup", "pick", "aim", "dial", "store", "blame"}

Query == [pc : Working \cup Results \cup {"idle"}, domain : Domains \cup {None},
          cancelled : BOOLEAN, attempt : 0 .. MaxRetries, left : 0 .. MaxProxies,
          mine : Proxies \cup {None}, server : Servers \cup {None},
          text : Seq(Answers)]

Idle == [pc |-> "idle", domain |-> None, cancelled |-> FALSE, attempt |-> 0, left |-> 0,
         mine |-> None, server |-> None, text |-> <<>>]

At(c, pc)  == query[c].pc = pc
Active(c)  == query[c].pc \in Working
Set(c, q)  == query' = [query EXCEPT ![c] = q]
Go(c, pc)  == Set(c, [query[c] EXCEPT !.pc = pc])
End(c, result) == Set(c, [Idle EXCEPT !.pc = result])

(* LoadProxiesFromFile: all proxies of the new list are available.          *)
Loaded(file) ==
  /\ list' = file /\ next' = 0
  /\ up' = ToSet(file) /\ failures' = [p \in Proxies |-> 0]

Init ==
  /\ pooled \in BOOLEAN /\ twoLabels \in SUBSET Domains
  /\ \E file \in Files :
       /\ list = file /\ next = 0
       /\ up = ToSet(file) /\ failures = [p \in Proxies |-> 0]
  /\ loads = 0 /\ dialer = None
  /\ cached = [d \in Domains |-> "nothing"]
  /\ query = [c \in Callers |-> Idle]
  /\ alone = {}
-----------------------------------------------------------------------------
(* Around the queries. *)

LoadProxies ==
  /\ loads < MaxLoads /\ loads' = loads + 1
  /\ \E file \in Files : Loaded(file)
  /\ UNCHANGED <<pooled, twoLabels, dialer, cached, query, alone>>

(* An entry expires, is deleted, or is cleared away.                        *)
Forget(d) ==
  /\ cached[d] # "nothing"
  /\ cached' = [cached EXCEPT ![d] = "nothing"]
  /\ UNCHANGED <<pool, client, query, alone>>

(* The warm-up stores the parsed information without the raw response.      *)
Warm(d) ==
  /\ cached' = [cached EXCEPT ![d] = "empty"]
  /\ UNCHANGED <<pool, client, query, alone>>

Cancel(c) ==
  /\ Active(c) /\ ~query[c].cancelled
  /\ Set(c, [query[c] EXCEPT !.cancelled = TRUE])
  /\ UNCHANGED <<pool, client, cached, alone>>

(* The status of a proxy that is no longer listed is not kept.  Mutation:   *)
(* a success makes the proxy available but does not end the row of failures.*)
MarkAvailable(p) ==
  /\ up' = up \cup ({p} \cap ToSet(list))
  /\ UNCHANGED <<list, next, failures>>
MarkSuccess(p) ==
  /\ up' = up \cup ({p} \cap ToSet(list))
  /\ failures' = [failures EXCEPT ![p] = 0]
  /\ UNCHANGED <<list, next>>

MarkFailure(p) ==
  /\ failures' = [failures EXCEPT ![p] = IF p \in ToSet(list) /\ @ < 3 THEN @ + 1 ELSE @]
  /\ up' = {q \in up : failures'[q] < 3}
  /\ UNCHANGED <<list, next>>

(* The health check dials each proxy of a copy of the list, on its own.     *)
CheckProxy(p) ==
  /\ MarkSuccess(p) \/ MarkFailure(p)
  /\ UNCHANGED <<client, cached, query, alone>>
-----------------------------------------------------------------------------
(* The query. *)

Ask(c, d) ==
  /\ ~Active(c)
  /\ Set(c, [Idle EXCEPT !.pc = "lookup", !.domain = d])
  /\ alone' = IF \E x \in Callers : Active(x) THEN {} ELSE {c}
  /\ UNCHANGED <<pool, client, cached>>

(* The loop of ExecuteQueryWithResultContext, after a retryable error.      *)
(* Mutations: the attempt is not counted; there is one retry too many.      *)
RetryAgain(c) ==
  Set(c, [Idle EXCEPT !.pc = "lookup", !.domain = query[c].domain,
                      !.cancelled = query[c].cancelled, !.attempt = query[c].attempt])
RetryOnceMore(c) ==
  IF query[c].attempt <= MaxRetries
  THEN Set(c, [Idle EXCEPT !.pc = "lookup", !.domain = query[c].domain,
                           !.cancelled = query[c].cancelled,
                           !.attempt = query[c].attempt + 1])
  ELSE End(c, "failed")
Retry(c) ==
  IF query[c].attempt < MaxRetries
  THEN Set(c, [Idle EXCEPT !.pc = "lookup", !.domain = query[c].domain,
                           !.cancelled = query[c].cancelled,
                           !.attempt = query[c].attempt + 1])
  ELSE End(c, "failed")

(* An error of queryDirectContext: with a pool, the proxy is charged.       *)
Fault(c, retryable, result) ==
  IF pooled THEN Go(c, "blame")
  ELSE IF retryable THEN Retry(c) ELSE End(c, result)

(* QueryWithContext: the context, the cache, then the pool if there is one. *)
Lookup(c) ==
  /\ At(c, "lookup")
  /\ \/ query[c].cancelled /\ End(c, "failed")
     \/ /\ ~query[c].cancelled /\ cached[query[c].domain] = "response"
        /\ End(c, "answered")
     \/ /\ ~query[c].cancelled /\ cached[query[c].domain] = "empty"
        /\ End(c, "failed")
     \/ /\ ~query[c].cancelled /\ cached[query[c].domain] = "nothing"
        /\ IF pooled THEN Set(c, [query[c] EXCEPT !.pc = "pick", !.left = Len(list)])
                     ELSE Go(c, "aim")
  /\ UNCHANGED <<pool, client, cached, alone>>

(* GetNextProxy, on a list that is not empty: the first available proxy     *)
(* from currentIndex on.                                                    *)
Turn(i) == ((next + i) % Len(list)) + 1
UpTurns == {i \in 0 .. Len(list) - 1 : list[Turn(i)] \in up}

NextUp(c) ==
  /\ UpTurns # {}
  /\ LET t == Turn(CHOOSE i \in UpTurns : \A j \in UpTurns : i <= j)
     IN  /\ next' = t % Len(list)
         /\ Set(c, [query[c] EXCEPT !.pc = "aim", !.mine = list[t], !.left = @ - 1])
  /\ UNCHANGED <<list, up, failures>>

(* None is available: all get another chance, beginning with the first.     *)
ResetAll(c) ==
  /\ UpTurns = {}
  /\ up' = ToSet(list) /\ failures' = [p \in Proxies |-> 0] /\ next' = 1
  /\ Set(c, [query[c] EXCEPT !.pc = "aim", !.mine = list[1], !.left = @ - 1])
  /\ UNCHANGED list

(* The loop of queryWithProxyPoolContext runs as often as there were        *)
(* proxies; if the list has become empty since, GetNextProxy returns nil.   *)
Pick(c) ==
  /\ At(c, "pick")
  /\ \/ query[c].left = 0 /\ End(c, "failed") /\ UNCHANGED pool
     \/ query[c].left > 0 /\ query[c].cancelled /\ Retry(c) /\ UNCHANGED pool
     \/ /\ query[c].left > 0 /\ ~query[c].cancelled /\ list = <<>>
        /\ End(c, "panicked") /\ UNCHANGED pool
     \/ /\ query[c].left > 0 /\ ~query[c].cancelled /\ list # <<>>
        /\ NextUp(c) \/ ResetAll(c)
  /\ UNCHANGED <<client, cached, alone>>

(* The dialer is set, the server looked up, the limiter asked.  The client  *)
(* gives the suffix of the domain to a function that wants a domain, and    *)
(* takes the suffix of that: a single label has none.  Mutation: the dialer *)
(* is only set when it is nil.                                              *)
DialerOnce(c) == IF dialer = None THEN query[c].mine ELSE dialer
DialerFor(c) == IF pooled THEN query[c].mine ELSE dialer

Aim(c) ==
  /\ At(c, "aim")
  /\ dialer' = DialerFor(c)
  /\ LET d == query[c].domain
     IN  \/ d \notin twoLabels /\ Fault(c, FALSE, "no_server")
         \/ d \in twoLabels /\ Fault(c, TRUE, "failed")
         \/ /\ d \in twoLabels
            /\ Set(c, [query[c] EXCEPT !.pc = "dial", !.server = ServerOf[d]])
  /\ UNCHANGED <<pool, pooled, twoLabels, loads, cached, alone>>

(* extractReferralServer looks through all responses so far: the first      *)
(* registrar server, or else the first "whois:" server.                     *)
Registrars(text) == {i \in DOMAIN text : text[i].registrar # None}
WhoisLines(text) == {i \in DOMAIN text : text[i].whois # None}
Referral(text) ==
  IF Registrars(text) # {} THEN text[Min(Registrars(text))].registrar
  ELSE IF WhoisLines(text) # {} THEN text[Min(WhoisLines(text))].whois
  ELSE None

MaxReferrals == 3

Stored(c) == Set(c, [query[c] EXCEPT !.pc = "store", !.text = <<>>, !.server = None])

(* rawWhoisQuery through whatever proxy the dialer has by now: it fails, or *)
(* the response names the next server to ask.  A failed referral leaves the *)
(* response so far.                                                         *)
Unanswered(c) ==
  \/ query[c].text = <<>> /\ \E retryable \in BOOLEAN :
       (query[c].cancelled => retryable) /\ Fault(c, retryable, "failed")
  \/ query[c].text # <<>> /\ Stored(c)

Answered(c) ==
  /\ ~query[c].cancelled
  /\ \E a \in Answers :
       LET text == Append(query[c].text, a)
           ref  == Referral(text)
           more == Len(text) <= MaxReferrals /\ ref \notin {None, query[c].server}
       IN  \/ more /\ Set(c, [query[c] EXCEPT !.text = text, !.server = ref])
           \/ ~more /\ Stored(c)

Dial(c) ==
  /\ At(c, "dial")
  /\ Unanswered(c) \/ Answered(c)
  /\ UNCHANGED <<pool, client, cached, alone>>

(* Only a response that parses is cached; the engine parses it once more.   *)
(* The proxy has done its part either way.  The cache and the pool have     *)
(* nothing in common: the two calls are one step.                           *)
Store(c) ==
  /\ At(c, "store")
  /\ \/ /\ cached' = [cached EXCEPT ![query[c].domain] = "response"]
        /\ End(c, "answered")
     \/ UNCHANGED cached /\ End(c, "failed")
  /\ IF pooled THEN MarkSuccess(query[c].mine) ELSE UNCHANGED pool
  /\ UNCHANGED <<client, alone>>

Blame(c) ==
  /\ At(c, "blame")
  /\ MarkFailure(query[c].mine)
  /\ Set(c, [query[c] EXCEPT !.pc = "pick", !.server = None])
  /\ UNCHANGED <<client, cached, alone>>
-----------------------------------------------------------------------------
Step(c) == Lookup(c) \/ Pick(c) \/ Aim(c) \/ Dial(c) \/ Store(c) \/ Blame(c)

Next ==
  \/ LoadProxies
  \/ \E d \in Domains : Forget(d) \/ Warm(d)
  \/ \E p \in Proxies : CheckProxy(p)
  \/ \E c \in Callers : Cancel(c) \/ Step(c) \/ \E d \in Domains : Ask(c, d)

Spec == Init /\ [][Next]_vars
-----------------------------------------------------------------------------
(* Properties. *)

TypeOK ==
  /\ pooled \in BOOLEAN /\ twoLabels \subseteq Domains /\ loads \in 0 .. MaxLoads
  /\ list \in Seq(Proxies) /\ next \in Nat /\ up \subseteq Proxies
  /\ failures \in [Proxies -> 0 .. 3] /\ dialer \in Proxies \cup {None}
  /\ cached \in [Domains -> {"nothing", "empty", "response"}]
  /\ query \in [Callers -> Query] /\ alone \subseteq Callers
  \* The code would follow three referrals, but a search of all the responses
  \* can name a new server at most twice.
  /\ \A c \in Callers : Len(query[c].text) <= 2

(* Whatever queries, health checks and reloads interleave, the pool keeps   *)
(* just the listed proxies that have not failed three times in a row.       *)
PoolSound ==
  /\ up = {p \in ToSet(list) : failures[p] < 3}
  /\ next <= Len(list)

(* A query that ran alone dialled through the proxy that it charges.        *)
ChargedIsDialled ==
  \A c \in alone : pooled /\ query[c].pc \in {"dial", "store"}
    => dialer = query[c].mine

(* How many steps the query of c may still take.                            *)
TrySteps == 8
AllTries == TrySteps * (MaxProxies + 1)
StepsOfTry(q) ==
  CASE q.pc = "aim"   -> 7
    [] q.pc = "dial"  -> 6 - Len(q.text)
    [] q.pc \in {"store", "blame"} -> 2
    [] OTHER -> 0
StepsLeft(q) ==
  (MaxRetries - q.attempt) * (AllTries + 1)
    + IF q.pc = "lookup" THEN AllTries ELSE TrySteps * q.left + StepsOfTry(q)

(* Every query that is scheduled ends, whatever is refused, fails, or is    *)
(* reloaded meanwhile: each of its steps is one of a bounded number.        *)
QueriesShrink ==
  [][\A c \in Callers : Step(c) /\ Active(c)' => StepsLeft(query'[c]) < StepsLeft(query[c])]_vars

(* A domain that the server table knows is never without a server: "the     *)
(* WHOIS server of a TLD".                                                  *)
ServerKnown == \A c \in Callers : ~At(c, "no_server")
=============================================================================
