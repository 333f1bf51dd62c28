-------------------------------- MODULE Lookups --------------------------------
(***************************************************************************)
(* Numbers and addresses: the RDAP queries of rdap.go, the ASN queries of   *)
(* asn_enhanced.go with their cache, batches and fallback from RDAP to      *)
(* RADB.  The BGP relations that a detail may show are in AsnRelations.     *)
(***************************************************************************)
EXTENDS Naturals, Sequences, FiniteSets

CONSTANTS
  Asns,         \* the numbers
  Ranged,       \* those in a range of the RDAP bootstrap
  Concurrency,  \* the size of a batch's semaphore
  MaxListed,    \* bound on the length of a batch
  NotCached

ASSUME LookupsAssumption ==
  /\ Ranged \subseteq Asns /\ Concurrency \in Nat \ {0}
  /\ MaxListed \in Nat

VARIABLES
  asnCache,  \* asnDetailCache.items
  lookup,    \* the goroutines of a batch, by position, and a caller at 0
  batch,     \* the BatchQueryASN under way
  reached    \* history: the sources that have answered for each number

lookups == <<asnCache, lookup, batch, reached>>
-----------------------------------------------------------------------------
(* A detail is where it comes from; its prefixes and relations, optional,   *)
(* are left out.                                                            *)
Details == {"rdap", "radb"}
Sources == {"radb", "rdap", "all"}

Slots   == 0 .. MaxListed
NoLookup    == [pc |-> "none"]

(* A query for a number: waiting for a slot, asking, with its answer, over.  *)
Querying == [pc : {"queued", "refused"}, asn : Asns]
           \cup [pc : {"rdap", "radb"}, asn : Asns, source : Sources]
           \cup [pc : {"answered", "found"}, asn : Asns, detail : Details]
NoBatch == [list |-> <<>>, results |-> {}, errors |-> {}, ok |-> 0, failed |-> 0]

LookupsInit ==
  /\ asnCache = [a \in Asns |-> NotCached]
  /\ lookup = [c \in Slots |-> NoLookup]
  /\ batch = NoBatch
  /\ reached = [a \in Asns |-> {}]
-----------------------------------------------------------------------------
(* RDAPBootstrap: its tables have entries for some domains, addresses and   *)
(* handles, and ranges of numbers.                                          *)
MayBeEntered == BOOLEAN
InRange(asn) == asn \in Ranged

(* The discovery: what no entry is for goes to a default server, but a      *)
(* number out of all ranges nowhere.                                        *)
RdapServer(kind, entered) ==
  IF entered THEN "own" ELSE IF kind = "asn" THEN "nowhere" ELSE "default"

(* rdapHTTPRequest, to the server that was found, for one document.         *)
MayAnswer(kind, entered) == RdapServer(kind, entered) # "nowhere"

Fetch(kind, entered) ==
  /\ lookup[0] = NoLookup
  /\ \E ok \in BOOLEAN :
       /\ ok => MayAnswer(kind, entered)
       /\ lookup' = [lookup EXCEPT ![0] = [pc |-> IF ok THEN "shown" ELSE "refused"]]
  /\ UNCHANGED <<asnCache, batch, reached>>

QueryRDAP        == \E entered \in MayBeEntered : Fetch("domain", entered)
QueryRDAP_IP     == \E entered \in MayBeEntered : Fetch("ip", entered)
QueryRDAP_Entity == \E entered \in MayBeEntered : Fetch("entity", entered)
QueryRDAP_ASN    == \E a \in Asns : Fetch("asn", InRange(a))

Forget ==
  /\ lookup[0].pc \in {"shown", "refused", "found"}
  /\ lookup' = [lookup EXCEPT ![0] = NoLookup]
  /\ UNCHANGED <<asnCache, batch, reached>>
-----------------------------------------------------------------------------
(* QueryASNWithContext: the cache knows the number only, not the source     *)
(* that its detail was asked of.                                            *)
Begun(asn, source) ==
  IF asnCache[asn] # NotCached THEN [pc |-> "found", asn |-> asn, detail |-> asnCache[asn]]
  ELSE [pc |-> IF source = "radb" THEN "radb" ELSE "rdap", asn |-> asn, source |-> source]

QueryASN(asn, source) ==
  /\ lookup[0] = NoLookup
  /\ lookup' = [lookup EXCEPT ![0] = Begun(asn, source)]
  /\ UNCHANGED <<asnCache, batch, reached>>

SourceAnswered(c, source) ==
  /\ lookup' = [lookup EXCEPT ![c] = [pc |-> "answered", asn |-> lookup[c].asn, detail |-> source]]
  /\ reached' = [reached EXCEPT ![lookup[c].asn] = @ \cup {source}]
SourceFailed(c) ==
  /\ lookup' = [lookup EXCEPT ![c] = [pc |-> "refused", asn |-> lookup[c].asn]]
  /\ UNCHANGED reached

(* queryASNFromRDAP; of all sources, RADB is next.                          *)
AskRdap(c) ==
  /\ lookup[c].pc = "rdap"
  /\ \/ MayAnswer("asn", InRange(lookup[c].asn)) /\ SourceAnswered(c, "rdap")
     \/ lookup[c].source = "rdap" /\ SourceFailed(c)
     \/ /\ lookup[c].source = "all"
        /\ lookup' = [lookup EXCEPT ![c].pc = "radb"] /\ UNCHANGED reached
  /\ UNCHANGED <<asnCache, batch>>

(* queryASNFromRADB: an answer that breaks off is one too.                  *)
AskRadb(c) ==
  /\ lookup[c].pc = "radb"
  /\ SourceAnswered(c, "radb") \/ SourceFailed(c)
  /\ UNCHANGED <<asnCache, batch>>

(* The detail is stored, over that of a query that was faster.              *)
Store(c) ==
  /\ lookup[c].pc = "answered"
  /\ asnCache' = [asnCache EXCEPT ![lookup[c].asn] = lookup[c].detail]
  /\ lookup' = [lookup EXCEPT ![c].pc = "found"]
  /\ UNCHANGED <<batch, reached>>

ClearASNDetailCache ==
  /\ asnCache' = [a \in Asns |-> NotCached]
  /\ UNCHANGED <<lookup, batch, reached>>
-----------------------------------------------------------------------------
(* BatchQueryASN: a goroutine for each position of the list.                *)
Positions == DOMAIN batch.list

BatchQueryASN(list) ==
  /\ batch = NoBatch
  /\ batch' = [NoBatch EXCEPT !.list = list]
  /\ lookup' = [c \in Slots |->
       IF c \in DOMAIN list THEN [pc |-> "queued", asn |-> list[c]] ELSE lookup[c]]
  /\ UNCHANGED <<asnCache, reached>>

Holding == {c \in Positions : lookup[c].pc \notin {"queued", "none"}}
AcquireSlot(c) ==
  /\ lookup[c].pc = "queued" /\ Cardinality(Holding) < Concurrency
  /\ lookup' = [lookup EXCEPT ![c] = Begun(lookup[c].asn, "all")]
  /\ UNCHANGED <<asnCache, batch, reached>>

(* The results are maps; the counts are of the list, with what is on it     *)
(* twice.  Mutation: a number is counted once.                              *)
CountedOkOnce(b, asn) == IF asn \in b.results THEN b.ok ELSE b.ok + 1
CountedOk(b, asn)     == b.ok + 1

Collect(c) ==
  /\ c \in Positions
  /\ LET asn == lookup[c].asn IN
     \/ /\ lookup[c].pc = "found"
        /\ batch' = [batch EXCEPT !.ok = CountedOk(batch, asn), !.results = @ \cup {asn}]
     \/ /\ lookup[c].pc = "refused"
        /\ batch' = [batch EXCEPT !.failed = @ + 1, !.errors = @ \cup {asn}]
  /\ lookup' = [lookup EXCEPT ![c] = NoLookup]
  /\ UNCHANGED <<asnCache, reached>>

BatchOver == batch # NoBatch /\ \A c \in Positions : lookup[c] = NoLookup
BatchReturns ==
  /\ BatchOver /\ batch' = NoBatch
  /\ UNCHANGED <<asnCache, lookup, reached>>
-----------------------------------------------------------------------------
LookupsNext ==
  \/ QueryRDAP \/ QueryRDAP_IP \/ QueryRDAP_Entity \/ QueryRDAP_ASN
  \/ Forget
  \/ \E a \in Asns, source \in Sources : QueryASN(a, source)
  \/ \E c \in Slots : AskRdap(c) \/ AskRadb(c) \/ Store(c)
  \/ ClearASNDetailCache
  \/ \E n \in 1 .. MaxListed : \E list \in [1 .. n -> Asns] : BatchQueryASN(list)
  \/ (\E c \in Positions : AcquireSlot(c) \/ Collect(c)) \/ BatchReturns

LookupsSpec == LookupsInit /\ [][LookupsNext]_lookups
-----------------------------------------------------------------------------
LookupsTypeOK ==
  /\ asnCache \in [Asns -> Details \cup {NotCached}]
  /\ lookup \in [Slots -> {NoLookup} \cup [pc : {"shown", "refused"}] \cup Querying]
  /\ batch \in [list : Seq(Asns), results : SUBSET Asns, errors : SUBSET Asns, ok : Nat, failed : Nat]
  /\ reached \in [Asns -> SUBSET Details]

(* Whoever else asks, and whenever the cache is cleared: the counts of a    *)
(* batch that is over add up to its list, and each of its numbers has a     *)
(* result or an error; no more queries of a batch run than the semaphore    *)
(* lets; and a detail, cached or given out, is of a source that answered    *)
(* for its number and that the bootstrap leads to.                          *)
BatchCounted ==
  /\ BatchOver =>
       /\ batch.ok + batch.failed = Len(batch.list)
       /\ {batch.list[c] : c \in Positions} = batch.results \cup batch.errors
  /\ Cardinality(Holding) <= Concurrency
  /\ \A a \in Asns : asnCache[a] # NotCached => asnCache[a] \in reached[a]
  /\ \A c \in Slots : lookup[c].pc = "found" =>
       /\ lookup[c].detail \in reached[lookup[c].asn]
       /\ lookup[c].detail = "rdap" => InRange(lookup[c].asn)
=============================================================================
