------------------------------ MODULE AsnRelations -----------------------------
(***************************************************************************)
(* The BGP relations of asn_bgp.go: a file of lines from|to|type, indexed   *)
(* by both ends, and what QueryRelations makes of them for one number.      *)
(***************************************************************************)
EXTENDS Integers, Sequences, FiniteSets

CONSTANTS
  Systems,   \* the numbers in the file
  MaxLines   \* bound on its lines

ASSUME RelationsAssumption == MaxLines \in Nat

VARIABLE edges  \* the lines that were loaded: fromIndex and toIndex hold them both

(* The types of a line.                                                     *)
ASRelationProvider == -1
ASRelationPeer     == 0
ASRelationCustomer == 1
Edge == [from : Systems, to : Systems, type : {ASRelationProvider, ASRelationPeer, ASRelationCustomer}]

RelationsInit == edges = <<>>

(* loadFile, under the lock: the indexes are emptied once the file is open, *)
(* and each line that parses goes into both.  A line too long ends the      *)
(* reading, and what was read stays.                                        *)
OpenFile    == edges' = <<>>
ReadLine(e) == Len(edges) < MaxLines /\ edges' = Append(edges, e)

RelationsNext == OpenFile \/ \E e \in Edge : ReadLine(e)
RelationsSpec == RelationsInit /\ [][RelationsNext]_edges
-----------------------------------------------------------------------------
(* QueryRelations.                                                          *)
FromIndex(asn, type) == {i \in DOMAIN edges : edges[i].from = asn /\ edges[i].type = type}
ToIndex(asn, type)   == {i \in DOMAIN edges : edges[i].to = asn /\ edges[i].type = type}

(* How often a number is listed as upstream, downstream and peer of another. *)
Upstream(asn, other)   == Cardinality({i \in FromIndex(asn, ASRelationProvider) : edges[i].to = other})
Downstream(asn, other) == Cardinality({i \in ToIndex(asn, ASRelationProvider) : edges[i].from = other})

OwnPeer(asn, other) == Cardinality({i \in FromIndex(asn, ASRelationPeer) : edges[i].to = other})

(* A peer that is found from the other side is added unless it is listed.   *)
(* Mutation: it is added for each line.                                     *)
AddedForEach(own, lines) == Cardinality(lines)
Added(own, lines)        == IF own = 0 /\ lines # {} THEN 1 ELSE 0

Peer(asn, other) ==
  LET own == OwnPeer(asn, other) IN
  own + Added(own, {i \in ToIndex(asn, ASRelationPeer) : edges[i].from = other})
-----------------------------------------------------------------------------
RelationsTypeOK == edges \in Seq(Edge)

(* Both ends of a line tell the same of it, on whichever of them it is      *)
(* listed: one is upstream of another as often as the other is downstream   *)
(* of it, peers are peers of each other, and unless a line is there twice   *)
(* no peer is.                                                              *)
RelationsMirror ==
  \A x, y \in Systems :
    /\ Upstream(x, y) = Downstream(y, x)
    /\ Peer(x, y) > 0 <=> Peer(y, x) > 0
    /\ Cardinality({edges[i] : i \in DOMAIN edges}) = Len(edges) => Peer(x, y) <= 1
=============================================================================
