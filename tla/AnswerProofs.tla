----------------------------- MODULE AnswerProofs -----------------------------
(***************************************************************************)
(* What is asked, what is made of the answers and what is counted: the     *)
(* relations of domains and of autonomous systems, the batches of numbers, *)
(* the aggregator, and the comparison, merge and quality of records; then  *)
(* the collector, the performance monitor and the metrics providers.  For  *)
(* all domains, numbers, tasks, files, durations, windows and reporters.   *)
(***************************************************************************)
EXTENDS Correlation, AsnRelations, Lookups, Aggregator, Records, Metrics, Observability,
        FiniteSetTheorems, SequenceTheorems, WellFoundedInduction, TLAPS
------------------------------------------------------------------------------
(***************************************************************************)
(* What is related to what: the correlation engine, and the BGP relations. *)
(***************************************************************************)
(* A cluster has no domain twice, and has just the domains that ever showed *)
(* its attribute, in that order, the records of today among them.           *)
EachOnce ==
  \A a \in Attributes : \A i, j \in DOMAIN clusters[a] :
    clusters[a][i] = clusters[a][j] => i = j
ClustersShow == \A a \in Attributes, d \in Related : d \in Domains(a) <=> a \in shown[d]
ShownBefore ==
  \A d \in Related :
    /\ domainMap[d] = Absent => shown[d] = {}
    /\ domainMap[d] # Absent => Clustered(domainMap[d]) \subseteq shown[d]

BeforeFollows ==
  \A a \in Attributes, d, e \in Related : <<a, d, e>> \in before <=> Follows(a, d, e)

CorrelationInv ==
  CorrelationTypeOK /\ EachOnce /\ ClustersShow /\ ShownBefore /\ BeforeFollows

(* What a record shows are attributes.                                      *)
LEMMA ClusteredAttributes ==
  ASSUME NEW info \in WhoisInfos \cup {NilInfo}
  PROVE  Clustered(info) \subseteq Attributes
BY DEF Clustered, Attributes, Spelled

LEMMA CorrelationInitInv == CorrelationInit => CorrelationInv
BY CorrelationAssumption
   DEF CorrelationInit, CorrelationInv, CorrelationTypeOK, EachOnce, ClustersShow, ShownBefore, Domains,
       BeforeFollows, Follows

(* addToCluster keeps a sequence without repetitions, and adds its domain    *)
(* after all others.                                                        *)
LEMMA EnteredOnce ==
  ASSUME NEW s \in Seq(Related), NEW d \in Related,
         \A i, j \in DOMAIN s : s[i] = s[j] => i = j
  PROVE  /\ Entered(s, d) \in Seq(Related)
         /\ \A i, j \in DOMAIN Entered(s, d) : Entered(s, d)[i] = Entered(s, d)[j] => i = j
         /\ \A e : (\E i \in DOMAIN Entered(s, d) : Entered(s, d)[i] = e)
                     <=> e = d \/ \E i \in DOMAIN s : s[i] = e
         /\ \A x, y : (\E i, j \in DOMAIN Entered(s, d) :
                         i < j /\ Entered(s, d)[i] = x /\ Entered(s, d)[j] = y)
              <=> \/ \E i, j \in DOMAIN s : i < j /\ s[i] = x /\ s[j] = y
                  \/ /\ y = d /\ \A i \in DOMAIN s : s[i] # d
                     /\ \E i \in DOMAIN s : s[i] = x
<1>1. CASE \E i \in DOMAIN s : s[i] = d
  BY <1>1 DEF Entered
<1>2. CASE \A i \in DOMAIN s : s[i] # d
  <2> DEFINE t == Append(s, d)
  <2>1. Entered(s, d) = t
    BY <1>2 DEF Entered
  <2>2. /\ t \in Seq(Related) /\ DOMAIN t = 1 .. Len(s) + 1
        /\ DOMAIN s = 1 .. Len(s) /\ Len(s) \in Nat
        /\ t[Len(s) + 1] = d /\ \A i \in 1 .. Len(s) : t[i] = s[i]
    OBVIOUS
  <2>3. \A i, j \in DOMAIN t : t[i] = t[j] => i = j
    <3> SUFFICES ASSUME NEW i \in DOMAIN t, NEW j \in DOMAIN t, t[i] = t[j]
                 PROVE  i = j
      OBVIOUS
    <3>1. CASE i \in DOMAIN s /\ j \in DOMAIN s
      BY <3>1, <2>2
    <3>2. CASE i \notin DOMAIN s \/ j \notin DOMAIN s
      BY <3>2, <2>2, <1>2
    <3> QED BY <3>1, <3>2
  <2>4. \A e : (\E i \in DOMAIN t : t[i] = e) <=> e = d \/ \E i \in DOMAIN s : s[i] = e
    BY <2>2
  <2>5. ASSUME NEW x, NEW y
        PROVE  (\E i, j \in DOMAIN t : i < j /\ t[i] = x /\ t[j] = y)
                 <=> \/ \E i, j \in DOMAIN s : i < j /\ s[i] = x /\ s[j] = y
                     \/ y = d /\ \E i \in DOMAIN s : s[i] = x
    <3>1. ASSUME NEW i \in DOMAIN t, NEW j \in DOMAIN t, i < j, t[i] = x, t[j] = y
          PROVE  \/ \E k, l \in DOMAIN s : k < l /\ s[k] = x /\ s[l] = y
                 \/ y = d /\ \E k \in DOMAIN s : s[k] = x
      <4>1. i \in DOMAIN s /\ s[i] = x BY <2>2, <3>1
      <4>2. CASE j \in DOMAIN s BY <2>2, <3>1, <4>1, <4>2
      <4>3. CASE j \notin DOMAIN s
        <5>1. j = Len(s) + 1 BY <2>2, <4>3
        <5> QED BY <2>2, <3>1, <4>1, <5>1
      <4> QED BY <4>2, <4>3
    <3>2. ASSUME NEW i \in DOMAIN s, NEW j \in DOMAIN s, i < j, s[i] = x, s[j] = y
          PROVE  \E k, l \in DOMAIN t : k < l /\ t[k] = x /\ t[l] = y
      BY <2>2, <3>2
    <3>3. ASSUME y = d, NEW i \in DOMAIN s, s[i] = x
          PROVE  \E k, l \in DOMAIN t : k < l /\ t[k] = x /\ t[l] = y
      <4>1. i \in DOMAIN t /\ Len(s) + 1 \in DOMAIN t /\ i < Len(s) + 1 BY <2>2
      <4> QED BY <2>2, <3>3, <4>1
    <3> QED BY <3>1, <3>2, <3>3
  <2> HIDE DEF t
  <2> QED BY <1>2, <2>1, <2>2, <2>3, <2>4, <2>5
<1> QED BY <1>1, <1>2

LEMMA CorrelationNextInv == CorrelationInv /\ [CorrelationNext]_correlation => CorrelationInv'
<1> SUFFICES ASSUME CorrelationInv, [CorrelationNext]_correlation
             PROVE  CorrelationInv'
  OBVIOUS
<1> USE DEF CorrelationInv
<1>1. ASSUME NEW d \in Related, NEW info \in WhoisInfos \cup {NilInfo}, AddDomain(d, info)
      PROVE  CorrelationInv'
  <2>1. Clustered(info) \subseteq Attributes
    BY ClusteredAttributes
  <2>2. \A a \in Attributes :
          clusters'[a] = IF a \in Clustered(info) THEN Entered(clusters[a], d) ELSE clusters[a]
    BY <1>1 DEF AddDomain
  <2>3. \A a \in Attributes :
          /\ clusters[a] \in Seq(Related)
          /\ \A i, j \in DOMAIN clusters[a] : clusters[a][i] = clusters[a][j] => i = j
    BY DEF CorrelationTypeOK, EachOnce
  <2>4. \A a \in Attributes :
          /\ clusters'[a] \in Seq(Related)
          /\ \A i, j \in DOMAIN clusters'[a] : clusters'[a][i] = clusters'[a][j] => i = j
          /\ \A e : (\E i \in DOMAIN clusters'[a] : clusters'[a][i] = e)
                      <=> \/ a \in Clustered(info) /\ e = d
                          \/ \E i \in DOMAIN clusters[a] : clusters[a][i] = e
    <3> TAKE a \in Attributes
    <3>1. CASE a \in Clustered(info)
      <4>1. clusters'[a] = Entered(clusters[a], d)
        BY <3>1, <2>2
      <4>2. /\ Entered(clusters[a], d) \in Seq(Related)
            /\ \A i, j \in DOMAIN Entered(clusters[a], d) :
                 Entered(clusters[a], d)[i] = Entered(clusters[a], d)[j] => i = j
            /\ \A e : (\E i \in DOMAIN Entered(clusters[a], d) : Entered(clusters[a], d)[i] = e)
                        <=> e = d \/ \E i \in DOMAIN clusters[a] : clusters[a][i] = e
        BY <2>3, EnteredOnce
      <4> QED BY <4>1, <4>2, <3>1
    <3>2. CASE a \notin Clustered(info)
      BY <3>2, <2>2, <2>3
    <3> QED BY <3>1, <3>2
  <2>5. CorrelationTypeOK'
    <3>1. before' \subseteq Attributes \X Related \X Related
      BY <1>1, <2>1 DEF AddDomain, CorrelationTypeOK
    <3> QED BY <1>1, <2>1, <2>4, <3>1 DEF AddDomain, CorrelationTypeOK
  <2>6. EachOnce'
    BY <2>4 DEF EachOnce
  <2>7. \A e \in Related :
          shown'[e] = IF e = d THEN shown[d] \cup Clustered(info) ELSE shown[e]
    BY <1>1 DEF AddDomain, CorrelationTypeOK
  <2>8. ClustersShow'
    <3> SUFFICES ASSUME NEW a \in Attributes, NEW e \in Related
                 PROVE  e \in Domains(a)' <=> a \in shown'[e]
      BY DEF ClustersShow
    <3>1. e \in Domains(a) <=> a \in shown[e]
      BY DEF ClustersShow
    <3>2. e \in Domains(a)' <=> (a \in Clustered(info) /\ e = d) \/ e \in Domains(a)
      BY <2>4 DEF Domains
    <3> QED BY <3>1, <3>2, <2>7
  <2>9. ShownBefore'
    BY <1>1, <2>7, CorrelationAssumption DEF AddDomain, CorrelationTypeOK, ShownBefore
  <2>10. ASSUME NEW a \in Attributes, NEW x \in Related, NEW y \in Related
         PROVE  <<a, x, y>> \in before' <=> Follows(a, x, y)'
    <3>1. <<a, x, y>> \in before' <=>
            \/ <<a, x, y>> \in before
            \/ y = d /\ a \in Clustered(info) \ shown[d] /\ a \in shown[x]
      <4> DEFINE Earlier == {q \in (Clustered(info) \ shown[d]) \X Related : q[1] \in shown[q[2]]}
                 New == {<<p[1], p[2], d>> : p \in Earlier}
      <4>1. before' = before \cup New BY <1>1 DEF AddDomain
      <4>2. ASSUME <<a, x, y>> \in New
            PROVE  y = d /\ a \in Clustered(info) \ shown[d] /\ a \in shown[x]
        <5>1. PICK p \in Earlier : <<a, x, y>> = <<p[1], p[2], d>> BY <4>2
        <5> QED BY <5>1
      <4>3. ASSUME y = d, a \in Clustered(info) \ shown[d], a \in shown[x]
            PROVE  <<a, x, y>> \in New
        <5>1. <<a, x>> \in Earlier BY <4>3
        <5>2. <<a, x, y>> = <<<<a, x>>[1], <<a, x>>[2], d>> BY <4>3
        <5> QED BY <5>1, <5>2
      <4> HIDE DEF New
      <4> QED BY <4>1, <4>2, <4>3
    <3>2. <<a, x, y>> \in before <=> Follows(a, x, y)
      BY DEF BeforeFollows
    <3>3. /\ a \in shown[x] <=> \E i \in DOMAIN clusters[a] : clusters[a][i] = x
          /\ a \in shown[d] <=> \E i \in DOMAIN clusters[a] : clusters[a][i] = d
      BY DEF ClustersShow, Domains
    <3>4. CASE a \notin Clustered(info)
      BY <2>2, <3>1, <3>2, <3>4 DEF Follows
    <3>5. CASE a \in Clustered(info)
      <4>1. clusters'[a] = Entered(clusters[a], d) BY <2>2, <3>5
      <4>2. Follows(a, x, y)' <=>
              \/ Follows(a, x, y)
              \/ /\ y = d /\ \A i \in DOMAIN clusters[a] : clusters[a][i] # d
                 /\ \E i \in DOMAIN clusters[a] : clusters[a][i] = x
        <5> DEFINE c == clusters[a]
        <5>1. \A i, j \in DOMAIN c : c[i] = c[j] => i = j BY <2>3
        <5>2. c \in Seq(Related) BY <2>3
        <5>3. (\E i, j \in DOMAIN Entered(c, d) :
                 i < j /\ Entered(c, d)[i] = x /\ Entered(c, d)[j] = y)
                <=> \/ \E i, j \in DOMAIN c : i < j /\ c[i] = x /\ c[j] = y
                    \/ /\ y = d /\ \A i \in DOMAIN c : c[i] # d
                       /\ \E i \in DOMAIN c : c[i] = x
          <6> HIDE DEF c
          <6>1. \A u, v : (\E i, j \in DOMAIN Entered(c, d) :
                            i < j /\ Entered(c, d)[i] = u /\ Entered(c, d)[j] = v)
                  <=> \/ \E i, j \in DOMAIN c : i < j /\ c[i] = u /\ c[j] = v
                      \/ /\ v = d /\ \A i \in DOMAIN c : c[i] # d
                         /\ \E i \in DOMAIN c : c[i] = u
            BY <5>1, <5>2, EnteredOnce
          <6> QED BY <6>1, Zenon
        <5> QED BY <4>1, <5>3 DEF Follows
      <4> QED BY <3>1, <3>2, <3>3, <3>5, <4>2
    <3> QED BY <3>4, <3>5
  <2> QED BY <2>5, <2>6, <2>8, <2>9, <2>10 DEF BeforeFollows
<1>2. ASSUME UNCHANGED correlation
      PROVE  CorrelationInv'
  BY <1>2 DEF correlation, CorrelationTypeOK, EachOnce, ClustersShow, ShownBefore, Domains,
                  BeforeFollows, Follows
<1> QED BY <1>1, <1>2 DEF CorrelationNext

(* An edge counts what its source showed before its target, and the two     *)
(* edges between two domains together what both have shown.                 *)
LEMMA StrengthOfTwo ==
  ASSUME CorrelationInv, NEW d \in Related, NEW e \in Related
  PROVE  /\ Strength(d, e) \in Nat
         /\ Strength(d, e) = Cardinality({a \in Attributes : <<a, d, e>> \in before})
         /\ Strength(d, e) + Strength(e, d) =
              IF d = e THEN 0 ELSE Cardinality(shown[d] \cap shown[e])
         /\ Strength(d, e) > 0 => d \in Nodes /\ e \in Nodes
<1> DEFINE F(x, y) == {a \in Significant : Follows(a, x, y)}
<1>1. \A x, y \in Related : IsFiniteSet(F(x, y)) /\ F(x, y) \subseteq Attributes
  <2> TAKE x, y \in Related
  <2>1. F(x, y) \subseteq Attributes
    BY DEF Significant
  <2> QED BY <2>1, CorrelationAssumption, FS_Subset
<1>2. \A x, y \in Related : Strength(x, y) = Cardinality(F(x, y)) /\ Strength(x, y) \in Nat
  BY <1>1, FS_CardinalityType DEF Strength
<1>3. \A a \in Attributes, x, y \in Related :
        a \in F(x, y) <=> \E i, j \in DOMAIN clusters[a] :
          i < j /\ clusters[a][i] = x /\ clusters[a][j] = y
  <2> TAKE a \in Attributes, x, y \in Related
  <2>1. clusters[a] \in Seq(Related)
    BY DEF CorrelationInv, CorrelationTypeOK
  <2>2. Follows(a, x, y) => a \in Significant
    BY <2>1 DEF Follows, Significant
  <2> QED BY <2>2 DEF Follows
<1>9. Strength(d, e) = Cardinality({a \in Attributes : <<a, d, e>> \in before})
  <2>1. F(d, e) = {a \in Attributes : <<a, d, e>> \in before}
    <3>1. \A a \in Attributes : a \in F(d, e) <=> <<a, d, e>> \in before
      BY <1>3 DEF CorrelationInv, BeforeFollows, Follows
    <3> HIDE DEF F
    <3> QED BY <1>1, <3>1
  <2> QED BY <1>2, <2>1
<1> HIDE DEF F
<1>4. \A a \in Attributes, x \in Related :
        (\E i \in DOMAIN clusters[a] : clusters[a][i] = x) <=> a \in shown[x]
  BY DEF CorrelationInv, ClustersShow, Domains
<1>5. \A a \in Attributes : \A i, j \in DOMAIN clusters[a] :
        /\ i \in Nat /\ j \in Nat
        /\ clusters[a][i] = clusters[a][j] => i = j
  BY DEF CorrelationInv, EachOnce, CorrelationTypeOK
<1>6. ASSUME d = e
      PROVE  Strength(d, e) + Strength(e, d) = 0
  <2>1. F(d, d) = {}
    <3> SUFFICES ASSUME NEW a \in Attributes, a \in F(d, d)
                 PROVE  FALSE
      BY <1>1
    <3>1. PICK i, j \in DOMAIN clusters[a] : i < j /\ clusters[a][i] = d /\ clusters[a][j] = d
      BY <1>3
    <3> QED BY <3>1, <1>5
  <2>2. Strength(d, d) = 0
    BY <2>1, <1>2, FS_EmptySet
  <2> QED BY <1>6, <2>2
<1>7. ASSUME d # e
      PROVE  Strength(d, e) + Strength(e, d) = Cardinality(shown[d] \cap shown[e])
  <2>1. F(d, e) \cap F(e, d) = {}
    <3> SUFFICES ASSUME NEW a \in Attributes, a \in F(d, e), a \in F(e, d)
                 PROVE  FALSE
      BY <1>1
    <3>1. PICK i, j \in DOMAIN clusters[a] : i < j /\ clusters[a][i] = d /\ clusters[a][j] = e
      BY <1>3
    <3>2. PICK k, l \in DOMAIN clusters[a] : k < l /\ clusters[a][k] = e /\ clusters[a][l] = d
      BY <1>3
    <3> QED BY <3>1, <3>2, <1>5
  <2>2. F(d, e) \cup F(e, d) = shown[d] \cap shown[e]
    <3>1. shown[d] \subseteq Attributes
      BY DEF CorrelationInv, CorrelationTypeOK
    <3>2. ASSUME NEW a \in Attributes
          PROVE  a \in F(d, e) \cup F(e, d) <=> a \in shown[d] /\ a \in shown[e]
      <4>1. ASSUME a \in shown[d], a \in shown[e]
            PROVE  a \in F(d, e) \cup F(e, d)
        <5>1. PICK i \in DOMAIN clusters[a] : clusters[a][i] = d
          BY <1>4, <4>1
        <5>2. PICK j \in DOMAIN clusters[a] : clusters[a][j] = e
          BY <1>4, <4>1
        <5>3. i < j \/ j < i
          BY <5>1, <5>2, <1>5, <1>7
        <5> QED BY <5>1, <5>2, <5>3, <1>3
      <4>2. a \in F(d, e) \cup F(e, d) => a \in shown[d] /\ a \in shown[e]
        BY <1>3, <1>4
      <4> QED BY <4>1, <4>2
    <3> QED BY <3>1, <3>2, <1>1
  <2>3. Cardinality(F(d, e) \cup F(e, d)) = Cardinality(F(d, e)) + Cardinality(F(e, d))
    <3>1. IsFiniteSet(F(d, e)) /\ IsFiniteSet(F(e, d))
      BY <1>1
    <3>2. Cardinality(F(d, e) \cup F(e, d)) =
            Cardinality(F(d, e)) + Cardinality(F(e, d)) - Cardinality(F(d, e) \cap F(e, d))
      BY <3>1, FS_Union
    <3>3. Cardinality(F(d, e)) \in Nat /\ Cardinality(F(e, d)) \in Nat
      BY <3>1, FS_CardinalityType
    <3>4. Cardinality(F(d, e) \cap F(e, d)) = 0
      BY <2>1, FS_EmptySet
    <3> QED BY <3>2, <3>3, <3>4
  <2>4. Strength(d, e) + Strength(e, d) = Cardinality(shown[d] \cap shown[e])
    <3>1. Strength(d, e) = Cardinality(F(d, e)) /\ Strength(e, d) = Cardinality(F(e, d))
      BY <1>2
    <3>2. Cardinality(shown[d] \cap shown[e]) = Cardinality(F(d, e) \cup F(e, d))
      BY <2>2
    <3> QED BY <3>1, <3>2, <2>3
  <2> QED BY <2>4
<1>8. ASSUME Strength(d, e) > 0
      PROVE  d \in Nodes /\ e \in Nodes
  <2>1. PICK a \in Attributes : a \in F(d, e)
    <3>1. F(d, e) # {}
      BY <1>8, <1>2, FS_EmptySet
    <3> QED BY <3>1, <1>1
  <2>2. a \in shown[d] /\ a \in shown[e]
    BY <2>1, <1>3, <1>4
  <2> QED BY <2>2 DEF CorrelationInv, ShownBefore, Nodes
<1> QED BY <1>2, <1>6, <1>7, <1>8, <1>9

(* StrengthShared holds in every state, for all domains and records: what   *)
(* Analyze, the profiles and the statistics tell of a relation is what the  *)
(* domains have shown, in whatever order AddDomain was called.              *)
THEOREM RelationsAsShown == CorrelationSpec => []StrengthShared
<1>1. CorrelationInv => StrengthShared
  <2> SUFFICES ASSUME CorrelationInv PROVE StrengthShared
    OBVIOUS
  <2>1. \A edge \in Edges : edge[1] \in Nodes /\ edge[2] \in Nodes
    BY StrengthOfTwo DEF Edges
  <2>2. ASSUME NEW a \in Attributes, NEW d \in Nodes, a \in Clustered(domainMap[d])
        PROVE  d \in AssetProfile(a) /\ d \in Domains(a)
    <3>1. domainMap[d] # NilInfo
      BY <2>2 DEF Clustered
    <3>2. a \in shown[d]
      BY <2>2 DEF Nodes, CorrelationInv, ShownBefore
    <3>3. d \in Domains(a)
      BY <3>2 DEF Nodes, CorrelationInv, ClustersShow
    <3> QED BY <3>1, <3>3 DEF AssetProfile
  <2>3. ASSUME NEW r \in Spelled, r.type = "registrar", ~StatsPanic
        PROVE  RegistrarStat(r) \subseteq Domains(Normal[r])
    <3> SUFFICES ASSUME NEW d \in Nodes, r \in domainMap[d]
                 PROVE  d \in Domains(Normal[r])
      BY DEF RegistrarStat
    <3>1. domainMap[d] # NilInfo
      BY <2>3 DEF StatsPanic
    <3>2. Normal[r] \in Attributes /\ Normal[r].type = "registrar"
      BY <2>3, CorrelationAssumption DEF Attributes
    <3>3. Normal[r] \in Clustered(domainMap[d])
      BY <3>1, <3>2 DEF Clustered, Contact
    <3> QED BY <3>2, <3>3, <2>2
  <2> QED BY StrengthOfTwo, <2>1, <2>2, <2>3 DEF StrengthShared
<1> QED BY <1>1, CorrelationInitInv, CorrelationNextInv, PTL DEF CorrelationSpec
-----------------------------------------------------------------------------
(* How often a number is upstream of another is how often that is           *)
(* downstream of it: both count one set of lines.                           *)
LEMMA UpstreamIsDownstream ==
  ASSUME NEW x \in Systems, NEW y \in Systems
  PROVE  Upstream(x, y) = Downstream(y, x)
<1>1. {i \in FromIndex(x, ASRelationProvider) : edges[i].to = y}
        = {i \in ToIndex(y, ASRelationProvider) : edges[i].from = x}
  BY DEF FromIndex, ToIndex
<1> QED BY <1>1 DEF Upstream, Downstream

(* The positions of a sequence.                                             *)
LEMMA UpTo ==
  ASSUME NEW n \in Nat
  PROVE  IsFiniteSet(1 .. n) /\ Cardinality(1 .. n) = n
<1>1. IsFiniteSet(1 .. n) /\ Cardinality(1 .. n) = IF 1 > n THEN 0 ELSE n - 1 + 1
  BY FS_Interval
<1> QED BY <1>1

(* A system is listed as a peer if a line of either of the two says so.     *)
PeerLines(x, y) == {i \in FromIndex(x, ASRelationPeer) : edges[i].to = y}

LEMMA PeerByLines ==
  ASSUME RelationsTypeOK, NEW x \in Systems, NEW y \in Systems
  PROVE  /\ IsFiniteSet(PeerLines(x, y)) /\ PeerLines(x, y) \subseteq DOMAIN edges
         /\ OwnPeer(x, y) = Cardinality(PeerLines(x, y)) /\ OwnPeer(x, y) \in Nat
         /\ Peer(x, y) =
              IF PeerLines(x, y) = {} /\ PeerLines(y, x) # {} THEN 1 ELSE OwnPeer(x, y)
<1>1. edges \in Seq(Edge) /\ DOMAIN edges = 1 .. Len(edges) /\ Len(edges) \in Nat
  BY DEF RelationsTypeOK
<1>2. PeerLines(x, y) \subseteq DOMAIN edges
  BY DEF PeerLines, FromIndex
<1>3. IsFiniteSet(PeerLines(x, y))
  <2>1. IsFiniteSet(DOMAIN edges)
    BY <1>1, UpTo
  <2> QED BY <2>1, <1>2, FS_Subset
<1>4. OwnPeer(x, y) = Cardinality(PeerLines(x, y)) /\ OwnPeer(x, y) \in Nat
  BY <1>3, FS_CardinalityType DEF OwnPeer, PeerLines
<1>5. OwnPeer(x, y) = 0 <=> PeerLines(x, y) = {}
  BY <1>3, <1>4, FS_EmptySet
<1>6. {i \in ToIndex(x, ASRelationPeer) : edges[i].from = y} = PeerLines(y, x)
  BY DEF ToIndex, FromIndex, PeerLines
<1> QED BY <1>2, <1>3, <1>4, <1>5, <1>6 DEF Peer, Added

(* Without a line that is there twice, two systems have one line of a type. *)
LEMMA LinesApart ==
  ASSUME RelationsTypeOK, Cardinality({edges[i] : i \in DOMAIN edges}) = Len(edges)
  PROVE  \A i, j \in DOMAIN edges : edges[i] = edges[j] => i = j
<1> DEFINE T == {edges[i] : i \in DOMAIN edges}
           f == [i \in DOMAIN edges |-> edges[i]]
<1>1. edges \in Seq(Edge) /\ DOMAIN edges = 1 .. Len(edges) /\ Len(edges) \in Nat
  BY DEF RelationsTypeOK
<1>2. IsFiniteSet(DOMAIN edges) /\ Cardinality(DOMAIN edges) = Len(edges)
  BY <1>1, UpTo
<1>3. f \in Surjection(DOMAIN edges, T)
  BY DEF Surjection
<1>4. f \in Injection(DOMAIN edges, T)
  BY <1>2, <1>3, FS_SurjSameCardinalityImpliesInj
<1>5. \A i, j \in DOMAIN edges : f[i] = f[j] => i = j
  BY <1>4 DEF Injection, IsInjective
<1> QED BY <1>5

LEMMA MirrorOfTypes == RelationsTypeOK => RelationsMirror
<1> SUFFICES ASSUME RelationsTypeOK, NEW x \in Systems, NEW y \in Systems
             PROVE  /\ Upstream(x, y) = Downstream(y, x)
                    /\ Peer(x, y) > 0 <=> Peer(y, x) > 0
                    /\ Cardinality({edges[i] : i \in DOMAIN edges}) = Len(edges) => Peer(x, y) <= 1
  BY DEF RelationsMirror
<1>1. \A v, w \in {x, y} :
        /\ OwnPeer(v, w) \in Nat
        /\ OwnPeer(v, w) = 0 <=> PeerLines(v, w) = {}
        /\ Peer(v, w) = IF PeerLines(v, w) = {} /\ PeerLines(w, v) # {} THEN 1 ELSE OwnPeer(v, w)
  <2> TAKE v, w \in {x, y}
  <2>1. IsFiniteSet(PeerLines(v, w)) /\ OwnPeer(v, w) = Cardinality(PeerLines(v, w))
    BY PeerByLines
  <2> QED BY <2>1, PeerByLines, FS_EmptySet
<1>2. Peer(x, y) > 0 <=> Peer(y, x) > 0
  BY <1>1
<1>3. ASSUME Cardinality({edges[i] : i \in DOMAIN edges}) = Len(edges)
      PROVE  Peer(x, y) <= 1
  <2>1. \A i, j \in PeerLines(x, y) : i = j
    <3> TAKE i, j \in PeerLines(x, y)
    <3>1. edges[i] \in Edge /\ edges[j] \in Edge /\ i \in DOMAIN edges /\ j \in DOMAIN edges
      BY PeerByLines DEF RelationsTypeOK
    <3>2. /\ edges[i].from = x /\ edges[i].to = y /\ edges[i].type = ASRelationPeer
          /\ edges[j].from = x /\ edges[j].to = y /\ edges[j].type = ASRelationPeer
      BY DEF PeerLines, FromIndex
    <3>3. edges[i] = edges[j]
      BY <3>1, <3>2 DEF Edge
    <3> QED BY <3>1, <3>3, <1>3, LinesApart
  <2>2. OwnPeer(x, y) <= 1
    <3>1. CASE PeerLines(x, y) = {}
      BY <3>1, <1>1
    <3>2. CASE PeerLines(x, y) # {}
      <4>1. PICK i : PeerLines(x, y) = {i}
        BY <3>2, <2>1
      <4> QED BY <4>1, PeerByLines, FS_Singleton
    <3> QED BY <3>1, <3>2
  <2> QED BY <1>1, <2>2
<1> QED BY UpstreamIsDownstream, <1>2, <1>3

LEMMA RelationsTyped == RelationsSpec => []RelationsTypeOK
<1>1. RelationsInit => RelationsTypeOK
  BY DEF RelationsInit, RelationsTypeOK
<1>2. RelationsTypeOK /\ [RelationsNext]_edges => RelationsTypeOK'
  <2> SUFFICES ASSUME RelationsTypeOK, [RelationsNext]_edges PROVE RelationsTypeOK'
    OBVIOUS
  <2>1. ASSUME NEW e \in Edge, edges' = Append(edges, e) PROVE edges' \in Seq(Edge)
    BY <2>1 DEF RelationsTypeOK
  <2>2. edges' = <<>> => edges' \in Seq(Edge)
    OBVIOUS
  <2> QED BY <2>1, <2>2 DEF RelationsTypeOK, RelationsNext, OpenFile, ReadLine
<1> QED BY <1>1, <1>2, PTL DEF RelationsSpec

(* Both ends of every line of every file that loadFile can read tell the    *)
(* same of it.                                                              *)
THEOREM RelationsToldAlike == RelationsSpec => []RelationsMirror
  BY RelationsTyped, MirrorOfTypes, PTL

------------------------------------------------------------------------------
(***************************************************************************)
(* The batches of numbers and the cache of their details.                  *)
(***************************************************************************)
(* The batches of numbers.  Each position that is not over has a query for  *)
(* its number; the others are what was counted and collected.               *)
Active == {c \in Positions : lookup[c] # NoLookup}

BatchShape ==
  /\ Len(batch.list) <= MaxListed
  /\ \A c \in Slots : c \notin Positions /\ c # 0 => lookup[c] = NoLookup
  /\ \A c \in Active : lookup[c] \in Querying /\ lookup[c].asn = batch.list[c]

BatchTally ==
  /\ batch.ok + batch.failed + Cardinality(Active) = Len(batch.list)
  /\ {batch.list[c] : c \in Positions \ Active} = batch.results \cup batch.errors
  /\ Cardinality(Holding) <= Concurrency

(* A detail, cached or answered, is of a source that answered.              *)
Sourced ==
  /\ \A a \in Asns : asnCache[a] # NotCached =>
       asnCache[a] \in reached[a] /\ (asnCache[a] = "rdap" => InRange(a))
  /\ \A c \in Slots : lookup[c].pc \in {"answered", "found"} =>
       /\ lookup[c].detail \in reached[lookup[c].asn]
       /\ lookup[c].detail = "rdap" => InRange(lookup[c].asn)

LookupsInv == LookupsTypeOK /\ BatchShape /\ BatchTally /\ Sourced

-----------------------------------------------------------------------------
(* What can be at a slot.                                                   *)
Looks == {NoLookup} \cup [pc : {"shown", "refused"}] \cup Querying

(* A query with a number is one of those that were asked.                   *)
LEMMA LookFields ==
  ASSUME NEW L \in Looks
  PROVE  /\ L.pc \in {"queued", "rdap", "radb", "answered", "found"} => L \in Querying
         /\ L \in Querying => L.asn \in Asns /\ L # NoLookup
         /\ L.pc \in {"rdap", "radb"} => L \in [pc : {"rdap", "radb"}, asn : Asns, source : Sources]
         /\ L.pc \in {"answered", "found"} =>
              L \in [pc : {"answered", "found"}, asn : Asns, detail : Details]
         /\ L.pc = "none" <=> L = NoLookup
<1>1. CASE L = NoLookup BY <1>1 DEF NoLookup, Querying
<1>2. CASE L \in [pc : {"shown", "refused"}]
  <2>1. L.pc \in {"shown", "refused"} BY <1>2
  <2>2. ~(L \in Querying) \/ (L.asn \in Asns) BY DEF Querying
  <2> QED BY <2>1, <2>2 DEF NoLookup
<1>3. CASE L \in Querying
  <2>1. CASE L \in [pc : {"queued", "refused"}, asn : Asns] BY <2>1, <1>3 DEF NoLookup
  <2>2. CASE L \in [pc : {"rdap", "radb"}, asn : Asns, source : Sources] BY <2>2, <1>3 DEF NoLookup
  <2>3. CASE L \in [pc : {"answered", "found"}, asn : Asns, detail : Details] BY <2>3, <1>3 DEF NoLookup
  <2> QED BY <2>1, <2>2, <2>3, <1>3 DEF Querying
<1> QED BY <1>1, <1>2, <1>3 DEF Looks

(* The positions of a batch are slots other than the caller's.              *)
LEMMA BatchPositions ==
  ASSUME LookupsTypeOK, BatchShape
  PROVE  /\ Positions = 1 .. Len(batch.list) /\ Len(batch.list) \in Nat
         /\ Positions \subseteq Slots /\ 0 \notin Positions
         /\ IsFiniteSet(Positions) /\ IsFiniteSet(Active) /\ IsFiniteSet(Holding)
         /\ Cardinality(Active) \in Nat /\ Cardinality(Holding) \in Nat
         /\ \A c \in Slots : lookup[c] \in Looks
         /\ \A c \in Positions : batch.list[c] \in Asns
<1>1. batch.list \in Seq(Asns) /\ Len(batch.list) \in Nat BY DEF LookupsTypeOK
<1>2. Positions = 1 .. Len(batch.list) BY <1>1 DEF Positions
<1>3. Positions \subseteq Slots /\ 0 \notin Positions
  BY <1>1, <1>2, LookupsAssumption DEF Slots, BatchShape
<1>4. IsFiniteSet(Positions) BY <1>1, <1>2, FS_Interval
<1>5. IsFiniteSet(Active) /\ IsFiniteSet(Holding) BY <1>4, FS_Subset DEF Active, Holding
<1>6. Cardinality(Active) \in Nat /\ Cardinality(Holding) \in Nat BY <1>5, FS_CardinalityType
<1>7. \A c \in Slots : lookup[c] \in Looks BY DEF LookupsTypeOK, Looks
<1>8. \A c \in Positions : batch.list[c] \in Asns BY <1>1, <1>2
<1> QED BY <1>1, <1>2, <1>3, <1>4, <1>5, <1>6, <1>7, <1>8

LEMMA LookupsBegin == LookupsInit => LookupsInv
<1> SUFFICES ASSUME LookupsInit PROVE LookupsInv OBVIOUS
<1> USE DEF LookupsInit
<1>1. LookupsTypeOK BY DEF LookupsTypeOK, NoBatch
<1>2. Positions = {} /\ Active = {} /\ Holding = {} BY DEF Positions, Active, Holding, NoBatch
<1>3. \A c \in Slots : lookup[c] = NoLookup OBVIOUS
<1>4. BatchShape BY <1>2, <1>3, LookupsAssumption DEF BatchShape, NoBatch
<1>5. Cardinality({}) = 0 BY FS_EmptySet
<1>6. BatchTally BY <1>2, <1>5, LookupsAssumption DEF BatchTally, NoBatch
<1>7. Sourced BY <1>3 DEF Sourced, NoLookup
<1> QED BY <1>1, <1>4, <1>6, <1>7 DEF LookupsInv

(* A step of one query, that leaves it under way, or of the caller, leaves  *)
(* the batch as it is.                                                      *)
LEMMA OneLookup ==
  ASSUME LookupsInv, NEW c \in Slots, NEW L \in Looks,
         lookup' = [lookup EXCEPT ![c] = L], batch' = batch,
         c \in Positions => /\ lookup[c] # NoLookup /\ L \in Querying /\ L.asn = lookup[c].asn
                            /\ lookup[c].pc \notin {"queued", "none"}
                            /\ L.pc \notin {"queued", "none"},
         c \notin Positions => c = 0
  PROVE  lookup' \in [Slots -> Looks] /\ BatchShape' /\ BatchTally'
<1>0. LookupsTypeOK /\ BatchShape /\ BatchTally BY DEF LookupsInv
<1>1. lookup \in [Slots -> Looks] BY <1>0 DEF LookupsTypeOK, Looks
<1>2. lookup' \in [Slots -> Looks] BY <1>1
<1>3. Positions' = Positions BY DEF Positions
<1>4. \A d \in Positions : d \in Slots /\ (d # c => lookup'[d] = lookup[d])
  BY <1>0, <1>1, BatchPositions
<1>5. lookup'[c] = L BY <1>1
<1>6. Active' = Active
  <2>1. c \in Positions => c \in Active /\ L # NoLookup BY LookFields DEF Active
  <2> QED BY <1>3, <1>4, <1>5, <2>1 DEF Active
<1>7. Holding' = Holding BY <1>3, <1>4, <1>5 DEF Holding
<1>8. BatchShape'
  <2>1. \A d \in Slots : d \notin Positions /\ d # 0 => lookup'[d] = NoLookup
    BY <1>0, <1>1 DEF BatchShape
  <2>2. \A d \in Active : lookup'[d] \in Querying /\ lookup'[d].asn = batch.list[d]
    <3> TAKE d \in Active
    <3>1. d \in Positions /\ lookup[d] \in Querying /\ lookup[d].asn = batch.list[d]
      BY <1>0 DEF BatchShape, Active
    <3>2. CASE d = c BY <3>1, <3>2, <1>5
    <3>3. CASE d # c BY <3>1, <3>3, <1>4
    <3> QED BY <3>2, <3>3
  <2> QED BY <1>0, <1>3, <1>6, <2>1, <2>2 DEF BatchShape
<1>9. BatchTally' BY <1>0, <1>3, <1>6, <1>7 DEF BatchTally
<1> QED BY <1>2, <1>8, <1>9

LEMMA LookupsKept == LookupsInv /\ [LookupsNext]_lookups => LookupsInv'
<1> SUFFICES ASSUME LookupsInv, [LookupsNext]_lookups PROVE LookupsInv' OBVIOUS
<1>0. LookupsTypeOK /\ BatchShape /\ BatchTally /\ Sourced BY DEF LookupsInv
<1>a. lookup \in [Slots -> Looks] BY <1>0 DEF LookupsTypeOK, Looks
<1>b. 0 \in Slots BY LookupsAssumption DEF Slots
<1>c. 0 \notin Positions BY <1>0, BatchPositions
<1>d. ASSUME lookup' \in [Slots -> Looks], asnCache' = asnCache, batch' = batch, reached' = reached
      PROVE  LookupsTypeOK'
  BY <1>0, <1>d DEF LookupsTypeOK, Looks
<1>1. ASSUME NEW kind, NEW entered, Fetch(kind, entered) PROVE LookupsInv'
  <2>1. PICK ok \in BOOLEAN : lookup' = [lookup EXCEPT ![0] = [pc |-> IF ok THEN "shown" ELSE "refused"]]
    BY <1>1 DEF Fetch
  <2> DEFINE L == [pc |-> IF ok THEN "shown" ELSE "refused"]
  <2>2. L \in Looks /\ L.pc \in {"shown", "refused"} BY DEF Looks
  <2>3. asnCache' = asnCache /\ batch' = batch /\ reached' = reached BY <1>1 DEF Fetch
  <2> HIDE DEF L
  <2>4. lookup' = [lookup EXCEPT ![0] = L] BY <2>1 DEF L
  <2>5. lookup' \in [Slots -> Looks] /\ BatchShape' /\ BatchTally' 
    BY <2>2, <2>3, <2>4, <1>b, <1>c, OneLookup
  <2>6. Sourced' BY <2>2, <2>3, <2>4, <1>0, <1>a, <1>b DEF Sourced
  <2> QED BY <2>3, <2>5, <2>6, <1>d DEF LookupsInv
<1>2. CASE Forget
  <2>1. lookup' = [lookup EXCEPT ![0] = NoLookup] /\ asnCache' = asnCache /\ batch' = batch
          /\ reached' = reached
    BY <1>2 DEF Forget
  <2>2. NoLookup \in Looks /\ NoLookup.pc = "none" BY DEF Looks, NoLookup
  <2>5. lookup' \in [Slots -> Looks] /\ BatchShape' /\ BatchTally' 
    BY <2>1, <2>2, <1>b, <1>c, OneLookup
  <2>6. Sourced' BY <2>1, <2>2, <1>0, <1>a, <1>b DEF Sourced
  <2> QED BY <2>1, <2>5, <2>6, <1>d DEF LookupsInv
(* What a query begins as, in QueryASN and when a slot is free.             *)
<1>e. ASSUME NEW a \in Asns, NEW source \in Sources
      PROVE  /\ Begun(a, source) \in Querying /\ Begun(a, source).asn = a
             /\ Begun(a, source).pc \in {"rdap", "radb", "found"}
             /\ Begun(a, source).pc = "found" => 
                  /\ Begun(a, source).detail \in reached[a]
                  /\ Begun(a, source).detail = "rdap" => InRange(a)
  <2>1. CASE asnCache[a] # NotCached
    <3>1. asnCache[a] \in Details BY <2>1, <1>0 DEF LookupsTypeOK
    <3>2. asnCache[a] \in reached[a] /\ (asnCache[a] = "rdap" => InRange(a)) BY <2>1, <1>0 DEF Sourced
    <3> QED BY <2>1, <3>1, <3>2 DEF Begun, Querying
  <2>2. CASE asnCache[a] = NotCached
    <3>1. Begun(a, source) = [pc |-> IF source = "radb" THEN "radb" ELSE "rdap", asn |-> a, source |-> source]
      BY <2>2 DEF Begun
    <3> QED BY <3>1 DEF Querying
  <2> QED BY <2>1, <2>2
<1>3. ASSUME NEW a \in Asns, NEW source \in Sources, QueryASN(a, source) PROVE LookupsInv'
  <2> DEFINE L == Begun(a, source)
  <2>1. lookup' = [lookup EXCEPT ![0] = L] /\ asnCache' = asnCache /\ batch' = batch
          /\ reached' = reached
    BY <1>3 DEF QueryASN
  <2>2. /\ L \in Looks /\ L.asn = a
        /\ L.pc = "answered" => FALSE
        /\ L.pc = "found" => L.detail \in reached[a] /\ (L.detail = "rdap" => InRange(a))
    BY <1>e DEF Looks
  <2> HIDE DEF L
  <2>5. lookup' \in [Slots -> Looks] /\ BatchShape' /\ BatchTally' 
    BY <2>1, <2>2, <1>b, <1>c, OneLookup
  <2>6. Sourced' BY <2>1, <2>2, <1>0, <1>a, <1>b DEF Sourced
  <2> QED BY <2>1, <2>5, <2>6, <1>d DEF LookupsInv
(* The steps of one query that is under way.                                *)
<1>4. ASSUME NEW c \in Slots, lookup[c].pc \in {"rdap", "radb", "answered"}
      PROVE  /\ lookup[c] \in Querying /\ lookup[c] # NoLookup /\ lookup[c].asn \in Asns
             /\ c \notin Positions => c = 0
             /\ lookup[c].pc \notin {"queued", "none"}
  <2>1. lookup[c] \in Looks BY <1>a
  <2>2. lookup[c] \in Querying /\ lookup[c] # NoLookup BY <1>4, <2>1, LookFields
  <2>3. c \notin Positions => c = 0 BY <2>2, <1>0 DEF BatchShape
  <2> QED BY <1>4, <2>1, <2>2, <2>3, LookFields
<1>5. ASSUME NEW c \in Slots, lookup[c].pc \in {"rdap", "radb"}, NEW source \in Details,
             source = "rdap" => InRange(lookup[c].asn),
             SourceAnswered(c, source), UNCHANGED <<asnCache, batch>>
      PROVE  LookupsInv'
  <2> DEFINE L == [pc |-> "answered", asn |-> lookup[c].asn, detail |-> source]
  <2>1. lookup[c].asn \in Asns BY <1>4, <1>5
  <2>2. L \in Querying /\ L.asn = lookup[c].asn /\ L.pc = "answered" /\ L.detail = source
    BY <2>1 DEF Querying
  <2>3. lookup' = [lookup EXCEPT ![c] = L] BY <1>5 DEF SourceAnswered
  <2> HIDE DEF L
  <2>4. L \in Looks BY <2>2 DEF Looks
  <2>5. lookup' \in [Slots -> Looks] /\ BatchShape' /\ BatchTally'
    BY <1>4, <1>5, <2>2, <2>3, <2>4, OneLookup
  <2>6. reached \in [Asns -> SUBSET Details] BY <1>0 DEF LookupsTypeOK
  <2>7. reached' = [reached EXCEPT ![lookup[c].asn] = @ \cup {source}] BY <1>5 DEF SourceAnswered
  <2>8. reached' \in [Asns -> SUBSET Details] BY <2>6, <2>7
  <2>9. \A a \in Asns : reached[a] \subseteq reached'[a] BY <2>6, <2>7
  <2>10. source \in reached'[lookup[c].asn] BY <2>1, <2>6, <2>7
  <2>11. \A d \in Slots : lookup[d].pc \in {"answered", "found"} => lookup[d].asn \in Asns
    BY <1>a, LookFields
  <2>12. Sourced'
    <3>1. \A a \in Asns : asnCache'[a] # NotCached =>
            asnCache'[a] \in reached'[a] /\ (asnCache'[a] = "rdap" => InRange(a))
      BY <1>0, <1>5, <2>9 DEF Sourced
    <3>2. \A d \in Slots : lookup'[d].pc \in {"answered", "found"} =>
            /\ lookup'[d].detail \in reached'[lookup'[d].asn]
            /\ lookup'[d].detail = "rdap" => InRange(lookup'[d].asn)
      <4> TAKE d \in Slots
      <4> HAVE lookup'[d].pc \in {"answered", "found"}
      <4>1. CASE d = c BY <4>1, <1>a, <2>2, <2>3, <2>10, <1>5
      <4>2. CASE d # c
        <5>1. lookup'[d] = lookup[d] BY <4>2, <1>a, <2>3
        <5> QED BY <5>1, <2>9, <2>11, <1>0 DEF Sourced
      <4> QED BY <4>1, <4>2
    <3> QED BY <3>1, <3>2 DEF Sourced, InRange
  <2>13. LookupsTypeOK' BY <1>0, <1>5, <2>5, <2>8 DEF LookupsTypeOK, Looks
  <2> QED BY <2>5, <2>12, <2>13 DEF LookupsInv
<1>6. ASSUME NEW c \in Slots, lookup[c].pc \in {"rdap", "radb"}, NEW L \in Querying,
             L.asn = lookup[c].asn, L.pc \in {"refused", "radb"},
             lookup' = [lookup EXCEPT ![c] = L], UNCHANGED <<asnCache, batch, reached>>
      PROVE  LookupsInv'
  <2>1. L \in Looks BY DEF Looks
  <2>2. lookup' \in [Slots -> Looks] /\ BatchShape' /\ BatchTally' BY <1>4, <1>6, <2>1, OneLookup
  <2>3. Sourced' BY <1>0, <1>a, <1>6 DEF Sourced
  <2> QED BY <1>6, <2>2, <2>3, <1>d DEF LookupsInv
<1>7. ASSUME NEW c \in Slots, lookup[c].pc \in {"rdap", "radb"}, SourceFailed(c),
             UNCHANGED <<asnCache, batch>>
      PROVE  LookupsInv'
  <2> DEFINE L == [pc |-> "refused", asn |-> lookup[c].asn]
  <2>1. L \in Querying /\ L.asn = lookup[c].asn /\ L.pc = "refused" BY <1>4, <1>7 DEF Querying
  <2>2. lookup' = [lookup EXCEPT ![c] = L] /\ reached' = reached BY <1>7 DEF SourceFailed
  <2> HIDE DEF L
  <2> QED BY <1>6, <1>7, <2>1, <2>2
<1>8. ASSUME NEW c \in Slots, AskRdap(c) PROVE LookupsInv'
  <2>1. lookup[c].pc = "rdap" /\ UNCHANGED <<asnCache, batch>> BY <1>8 DEF AskRdap
  <2>2. CASE MayAnswer("asn", InRange(lookup[c].asn)) /\ SourceAnswered(c, "rdap")
    <3>1. lookup[c].asn \in Ranged BY <2>2 DEF MayAnswer, RdapServer, InRange
    <3> QED BY <2>1, <2>2, <3>1, <1>5 DEF Details, InRange
  <2>3. CASE SourceFailed(c) BY <2>1, <2>3, <1>7
  <2>4. CASE /\ lookup[c].source = "all"
             /\ lookup' = [lookup EXCEPT ![c].pc = "radb"] /\ UNCHANGED reached
    <3> DEFINE L == [lookup[c] EXCEPT !.pc = "radb"]
    <3>1. lookup[c] \in [pc : {"rdap", "radb"}, asn : Asns, source : Sources] BY <2>1, <1>a, LookFields
    <3>2. L \in [pc : {"rdap", "radb"}, asn : Asns, source : Sources] /\ L.asn = lookup[c].asn
            /\ L.pc = "radb"
      BY <3>1
    <3>3. L \in Querying BY <3>2 DEF Querying
    <3>4. lookup' = [lookup EXCEPT ![c] = L] BY <2>4
    <3> HIDE DEF L
    <3> QED BY <2>1, <2>4, <3>2, <3>3, <3>4, <1>6
  <2> QED BY <1>8, <2>2, <2>3, <2>4 DEF AskRdap
<1>9. ASSUME NEW c \in Slots, AskRadb(c) PROVE LookupsInv'
  BY <1>9, <1>5, <1>7 DEF AskRadb, Details
<1>10. ASSUME NEW c \in Slots, Store(c) PROVE LookupsInv'
  <2> DEFINE L == [lookup[c] EXCEPT !.pc = "found"]
  <2>1. lookup[c].pc = "answered" /\ batch' = batch /\ reached' = reached BY <1>10 DEF Store
  <2>2. lookup[c] \in [pc : {"answered", "found"}, asn : Asns, detail : Details]
    BY <2>1, <1>a, LookFields
  <2>3. /\ L \in [pc : {"answered", "found"}, asn : Asns, detail : Details] 
        /\ L.asn = lookup[c].asn /\ L.pc = "found" /\ L.detail = lookup[c].detail
        /\ lookup[c].asn \in Asns /\ lookup[c].detail \in Details
    BY <2>2
  <2>4. L \in Querying BY <2>3 DEF Querying
  <2>5. lookup' = [lookup EXCEPT ![c] = L] BY <1>10 DEF Store
  <2> HIDE DEF L
  <2>6. L \in Looks BY <2>4 DEF Looks
  <2>7. lookup' \in [Slots -> Looks] /\ BatchShape' /\ BatchTally'
    BY <1>4, <2>1, <2>3, <2>4, <2>5, <2>6, OneLookup
  <2>8. asnCache' = [asnCache EXCEPT ![lookup[c].asn] = lookup[c].detail]
          /\ asnCache \in [Asns -> Details \cup {NotCached}]
    BY <1>0, <1>10 DEF Store, LookupsTypeOK
  <2>9. asnCache' \in [Asns -> Details \cup {NotCached}] BY <2>3, <2>8
  <2>10. lookup[c].detail \in reached[lookup[c].asn] /\ (lookup[c].detail = "rdap" => InRange(lookup[c].asn))
    BY <1>0, <2>1 DEF Sourced
  <2>11. \A a \in Asns : asnCache'[a] # NotCached =>
           asnCache'[a] \in reached'[a] /\ (asnCache'[a] = "rdap" => InRange(a))
    BY <1>0, <2>1, <2>3, <2>8, <2>10 DEF Sourced
  <2>12. \A d \in Slots : lookup'[d].pc \in {"answered", "found"} =>
           /\ lookup'[d].detail \in reached'[lookup'[d].asn]
           /\ lookup'[d].detail = "rdap" => InRange(lookup'[d].asn)
    BY <1>0, <1>a, <2>1, <2>3, <2>5, <2>10 DEF Sourced
  <2>13. Sourced' BY <2>11, <2>12 DEF Sourced, InRange
  <2>14. LookupsTypeOK' BY <1>0, <2>1, <2>7, <2>9 DEF LookupsTypeOK, Looks
  <2> QED BY <2>7, <2>13, <2>14 DEF LookupsInv
<1>11. CASE ClearASNDetailCache
  <2> USE <1>11 DEF ClearASNDetailCache
  <2>1. LookupsTypeOK' BY <1>0 DEF LookupsTypeOK
  <2>2. Positions' = Positions /\ Active' = Active /\ Holding' = Holding
    BY DEF Positions, Active, Holding
  <2>3. BatchShape' /\ BatchTally' BY <1>0, <2>2 DEF BatchShape, BatchTally
  <2>4. Sourced' BY <1>0 DEF Sourced
  <2> QED BY <2>1, <2>3, <2>4 DEF LookupsInv
(* The steps of a batch.                                                    *)
<1>12. ASSUME NEW n \in 1 .. MaxListed, NEW list \in [1 .. n -> Asns], BatchQueryASN(list)
       PROVE  LookupsInv'
  <2>0. MaxListed \in Nat /\ n \in Nat BY LookupsAssumption
  <2>1. list \in Seq(Asns) /\ Len(list) = n /\ DOMAIN list = 1 .. n BY <2>0
  <2>2. batch = NoBatch /\ batch' = [NoBatch EXCEPT !.list = list] /\ asnCache' = asnCache
          /\ reached' = reached
    BY <1>12 DEF BatchQueryASN
  <2>3. batch' = [list |-> list, results |-> {}, errors |-> {}, ok |-> 0, failed |-> 0]
    BY <2>2 DEF NoBatch
  <2>4. Positions = {} BY <2>2 DEF Positions, NoBatch
  <2>5. \A c \in Slots \ {0} : lookup[c] = NoLookup BY <1>0, <2>4 DEF BatchShape
  <2>6. 1 .. n \subseteq Slots \ {0} BY <2>0 DEF Slots
  <2>7. lookup' = [c \in Slots |-> IF c \in 1 .. n THEN [pc |-> "queued", asn |-> list[c]] ELSE lookup[c]]
    BY <1>12, <2>1 DEF BatchQueryASN
  <2>8. \A c \in 1 .. n : /\ lookup'[c] = [pc |-> "queued", asn |-> list[c]]
                          /\ lookup'[c] \in Querying
                          /\ lookup'[c] # NoLookup /\ lookup'[c].pc = "queued" /\ lookup'[c].asn = list[c]
    <3> TAKE c \in 1 .. n
    <3>1. lookup'[c] = [pc |-> "queued", asn |-> list[c]] BY <2>6, <2>7
    <3>2. list[c] \in Asns OBVIOUS
    <3> QED BY <3>1, <3>2 DEF Querying, NoLookup
  <2>9. lookup' \in [Slots -> Looks] BY <1>a, <2>7, <2>8 DEF Looks
  <2>10. LookupsTypeOK' BY <1>0, <2>1, <2>2, <2>3, <2>9 DEF LookupsTypeOK, Looks
  <2>11. Positions' = 1 .. n BY <2>1, <2>3 DEF Positions
  <2>12. Active' = 1 .. n /\ Holding' = {} BY <2>8, <2>11 DEF Active, Holding
  <2>13. Cardinality(1 .. n) = n /\ Cardinality({}) = 0 BY <2>0, FS_Interval, FS_EmptySet
  <2>14. BatchShape'
    <3>1. \A c \in Slots : c \notin 1 .. n /\ c # 0 => lookup'[c] = NoLookup BY <2>5, <2>7
    <3>2. batch'.list = list BY <2>3
    <3>3. Len(list) <= MaxListed BY <2>0, <2>1
    <3>4. \A c \in 1 .. n : lookup'[c] \in Querying /\ lookup'[c].asn = list[c] BY <2>8
    <3> QED BY <2>11, <2>12, <3>1, <3>2, <3>3, <3>4 DEF BatchShape
  <2>15. BatchTally'
    BY <2>0, <2>1, <2>3, <2>11, <2>12, <2>13, LookupsAssumption DEF BatchTally
  <2>16. Sourced'
    <3>1. \A c \in Slots : lookup'[c].pc \in {"answered", "found"} => lookup'[c] = lookup[c]
      BY <2>7, <2>8
    <3> QED BY <1>0, <2>2, <3>1 DEF Sourced
  <2> QED BY <2>10, <2>14, <2>15, <2>16 DEF LookupsInv
<1>13. ASSUME NEW c \in Positions PROVE c \in Slots /\ c # 0 BY <1>0, BatchPositions
<1>14. ASSUME NEW c \in Positions, AcquireSlot(c) PROVE LookupsInv'
  <2> DEFINE L == Begun(lookup[c].asn, "all")
  <2>1. /\ lookup[c].pc = "queued" /\ Cardinality(Holding) < Concurrency
        /\ lookup' = [lookup EXCEPT ![c] = L] 
        /\ asnCache' = asnCache /\ batch' = batch /\ reached' = reached
    BY <1>14 DEF AcquireSlot
  <2>2. lookup[c] \in Looks /\ lookup[c] \in Querying /\ lookup[c] # NoLookup /\ lookup[c].asn \in Asns
    BY <2>1, <1>13, <1>a, LookFields
  <2>3. /\ L \in Querying /\ L.asn = lookup[c].asn /\ L.pc \in {"rdap", "radb", "found"}
        /\ L.pc = "found" => L.detail \in reached[lookup[c].asn] /\ (L.detail = "rdap" => InRange(lookup[c].asn))
    BY <1>e, <2>2 DEF Sources
  <2> HIDE DEF L
  <2>4. L \in Looks /\ L # NoLookup BY <2>3, LookFields DEF Looks
  <2>5. lookup' \in [Slots -> Looks] BY <1>a, <2>1, <2>4
  <2>6. Positions' = Positions BY <2>1 DEF Positions
  <2>7. lookup'[c] = L /\ \A d \in Slots : d # c => lookup'[d] = lookup[d] BY <1>a, <1>13, <2>1
  <2>8. Active' = Active BY <1>13, <2>2, <2>4, <2>6, <2>7 DEF Active
  <2>9. Holding' = Holding \cup {c} /\ c \notin Holding BY <1>13, <2>1, <2>3, <2>6, <2>7 DEF Holding
  <2>10. Cardinality(Holding') = Cardinality(Holding) + 1
    BY <1>0, <2>9, BatchPositions, FS_AddElement
  <2>11. BatchShape'
    <3>1. \A d \in Active : lookup'[d] \in Querying /\ lookup'[d].asn = batch.list[d]
      <4> TAKE d \in Active
      <4>1. d \in Slots /\ lookup[d] \in Querying /\ lookup[d].asn = batch.list[d]
        BY <1>0, <1>13 DEF BatchShape, Active
      <4> QED BY <4>1, <2>3, <2>7
    <3>2. \A d \in Slots : d \notin Positions /\ d # 0 => lookup'[d] = NoLookup
      BY <1>0, <2>7 DEF BatchShape
    <3> QED BY <1>0, <2>1, <2>6, <2>8, <3>1, <3>2 DEF BatchShape
  <2>12. BatchTally'
    <3>1. Cardinality(Holding') <= Concurrency
      BY <1>0, <2>1, <2>10, BatchPositions, LookupsAssumption
    <3> QED BY <1>0, <2>1, <2>6, <2>8, <3>1 DEF BatchTally
  <2>13. Sourced'
    <3>1. \A d \in Slots : lookup'[d].pc \in {"answered", "found"} =>
            /\ lookup'[d].detail \in reached[lookup'[d].asn]
            /\ lookup'[d].detail = "rdap" => InRange(lookup'[d].asn)
      BY <1>0, <2>3, <2>7 DEF Sourced
    <3> QED BY <1>0, <2>1, <3>1 DEF Sourced, InRange
  <2> QED BY <2>1, <2>5, <2>11, <2>12, <2>13, <1>d DEF LookupsInv
<1>15. ASSUME NEW c \in Positions, Collect(c) PROVE LookupsInv'
  <2>1. /\ lookup[c].pc \in {"found", "refused"} /\ lookup' = [lookup EXCEPT ![c] = NoLookup]
        /\ asnCache' = asnCache /\ reached' = reached
    BY <1>15 DEF Collect
  <2>2. c \in Slots /\ lookup[c] # NoLookup BY <2>1, <1>13 DEF NoLookup
  <2>3. c \in Active /\ c \in Holding BY <2>1, <2>2 DEF Active, Holding
  <2>4. lookup[c].asn = batch.list[c] /\ batch.list[c] \in Asns
    BY <1>0, <2>3, BatchPositions DEF BatchShape
  <2> DEFINE asn == batch.list[c]
  <2>5. batch \in [list : Seq(Asns), results : SUBSET Asns, errors : SUBSET Asns, ok : Nat, failed : Nat]
    BY <1>0 DEF LookupsTypeOK
  <2>6. /\ batch' \in [list : Seq(Asns), results : SUBSET Asns, errors : SUBSET Asns, ok : Nat, failed : Nat]
        /\ batch'.list = batch.list
        /\ batch'.ok + batch'.failed = batch.ok + batch.failed + 1
        /\ batch'.results \cup batch'.errors = batch.results \cup batch.errors \cup {asn}
    <3>1. CASE lookup[c].pc = "found"
      <4>1. batch' = [batch EXCEPT !.ok = batch.ok + 1, !.results = batch.results \cup {asn}]
        BY <3>1, <1>15, <2>4 DEF Collect, CountedOk
      <4>2. /\ batch'.ok = batch.ok + 1 /\ batch'.failed = batch.failed /\ batch'.list = batch.list
            /\ batch'.results = batch.results \cup {asn} /\ batch'.errors = batch.errors
        BY <2>5, <4>1
      <4>3. batch.ok \in Nat /\ batch.failed \in Nat BY <2>5
      <4>4. batch.results \cup {asn} \in SUBSET Asns /\ batch.list \in Seq(Asns)
              /\ batch.errors \in SUBSET Asns
        BY <2>4, <2>5
      <4>5. batch' = [list |-> batch.list, results |-> batch.results \cup {asn}, errors |-> batch.errors,
                      ok |-> batch.ok + 1, failed |-> batch.failed]
        BY <2>5, <4>1
      <4> HIDE DEF asn
      <4>7. batch' \in [list : Seq(Asns), results : SUBSET Asns, errors : SUBSET Asns, ok : Nat, failed : Nat]
        BY <4>3, <4>4, <4>5
      <4>6. batch'.ok + batch'.failed = batch.ok + batch.failed + 1 BY <4>2, <4>3
      <4> QED BY <4>2, <4>6, <4>7
    <3>2. CASE lookup[c].pc = "refused"
      <4>1. batch' = [batch EXCEPT !.failed = batch.failed + 1, !.errors = batch.errors \cup {asn}]
        BY <3>2, <1>15, <2>4 DEF Collect
      <4>2. /\ batch'.ok = batch.ok /\ batch'.failed = batch.failed + 1 /\ batch'.list = batch.list
            /\ batch'.results = batch.results /\ batch'.errors = batch.errors \cup {asn}
        BY <2>5, <4>1
      <4>3. batch.ok \in Nat /\ batch.failed \in Nat BY <2>5
      <4>4. batch.errors \cup {asn} \in SUBSET Asns /\ batch.list \in Seq(Asns)
              /\ batch.results \in SUBSET Asns
        BY <2>4, <2>5
      <4>5. batch' = [list |-> batch.list, results |-> batch.results, errors |-> batch.errors \cup {asn},
                      ok |-> batch.ok, failed |-> batch.failed + 1]
        BY <2>5, <4>1
      <4> HIDE DEF asn
      <4>7. batch' \in [list : Seq(Asns), results : SUBSET Asns, errors : SUBSET Asns, ok : Nat, failed : Nat]
        BY <4>3, <4>4, <4>5
      <4>6. batch'.ok + batch'.failed = batch.ok + batch.failed + 1 BY <4>2, <4>3
      <4> QED BY <4>2, <4>6, <4>7
    <3> QED BY <2>1, <3>1, <3>2
  <2>7. lookup' \in [Slots -> Looks] BY <1>a, <2>1 DEF Looks
  <2>8. Positions' = Positions BY <2>6 DEF Positions
  <2>9. lookup'[c] = NoLookup /\ \A d \in Slots : d # c => lookup'[d] = lookup[d]
    BY <1>a, <2>1, <2>2
  <2>10. Active' = Active \ {c} BY <1>13, <2>8, <2>9 DEF Active
  <2>11. Holding' = Holding \ {c} BY <1>13, <2>8, <2>9 DEF Holding, NoLookup
  <2>12. Cardinality(Active') = Cardinality(Active) - 1 /\ Cardinality(Holding') = Cardinality(Holding) - 1
    BY <1>0, <2>3, <2>10, <2>11, BatchPositions, FS_RemoveElement
  <2>13. BatchShape'
    <3>1. \A d \in Active \ {c} : lookup'[d] \in Querying /\ lookup'[d].asn = batch.list[d]
      <4> TAKE d \in Active \ {c}
      <4>1. d \in Slots /\ lookup[d] \in Querying /\ lookup[d].asn = batch.list[d]
        BY <1>0, <1>13 DEF BatchShape, Active
      <4> QED BY <4>1, <2>9
    <3>2. \A d \in Slots : d \notin Positions /\ d # 0 => lookup'[d] = NoLookup
      BY <1>0, <2>9 DEF BatchShape
    <3> QED BY <1>0, <2>6, <2>8, <2>10, <3>1, <3>2 DEF BatchShape
  <2>14. BatchTally'
    <3>1. batch'.ok + batch'.failed + Cardinality(Active') = Len(batch'.list)
      <4>1. batch.ok + batch.failed + Cardinality(Active) = Len(batch.list) BY <1>0 DEF BatchTally
      <4>2. batch.ok \in Nat /\ batch.failed \in Nat /\ batch'.ok \in Nat /\ batch'.failed \in Nat
        BY <2>5, <2>6
      <4>3. Cardinality(Active) \in Nat BY <1>0, BatchPositions
      <4>4. Len(batch'.list) = Len(batch.list) BY <2>6
      <4>5. Cardinality(Active') = Cardinality(Active) - 1 BY <2>12
      <4>6. batch'.ok + batch'.failed = batch.ok + batch.failed + 1 BY <2>6
      <4>7. \A u, v, w, x, y, z, n : u \in Nat /\ v \in Nat /\ w \in Nat /\ x + y = u + v + 1
              /\ z = w - 1 /\ u + v + w = n /\ x \in Nat /\ y \in Nat => x + y + z = n
        OBVIOUS
      <4> QED BY <4>1, <4>2, <4>3, <4>4, <4>5, <4>6, <4>7
    <3>2. {batch.list[d] : d \in Positions \ (Active \ {c})} = batch.results \cup batch.errors \cup {asn}
      <4>1. {batch.list[d] : d \in Positions \ Active} = batch.results \cup batch.errors
        BY <1>0 DEF BatchTally
      <4>2. Positions \ (Active \ {c}) = (Positions \ Active) \cup {c} OBVIOUS
      <4> QED BY <4>1, <4>2
    <3>3. Cardinality(Holding') <= Concurrency
      BY <1>0, <2>12, BatchPositions, LookupsAssumption DEF BatchTally
    <3> QED BY <2>6, <2>8, <2>10, <3>1, <3>2, <3>3 DEF BatchTally
  <2>15. Sourced'
    <3>1. \A d \in Slots : lookup'[d].pc \in {"answered", "found"} => lookup'[d] = lookup[d]
      BY <2>9 DEF NoLookup
    <3> QED BY <1>0, <2>1, <3>1 DEF Sourced
  <2>16. LookupsTypeOK' BY <1>0, <2>1, <2>6, <2>7 DEF LookupsTypeOK, Looks
  <2> QED BY <2>13, <2>14, <2>15, <2>16 DEF LookupsInv
<1>16. CASE BatchReturns
  <2>1. /\ batch' = NoBatch /\ asnCache' = asnCache /\ lookup' = lookup /\ reached' = reached
        /\ \A c \in Positions : lookup[c] = NoLookup
    BY <1>16 DEF BatchReturns, BatchOver
  <2>2. LookupsTypeOK' BY <1>0, <2>1 DEF LookupsTypeOK, NoBatch
  <2>3. Positions' = {} /\ Active' = {} /\ Holding' = {}
    BY <2>1 DEF Positions, Active, Holding, NoBatch
  <2>4. \A c \in Slots : c # 0 => lookup[c] = NoLookup BY <1>0, <2>1 DEF BatchShape
  <2>5. BatchShape' BY <2>1, <2>3, <2>4, LookupsAssumption DEF BatchShape, NoBatch
  <2>6. BatchTally'
    <3>1. Cardinality({}) = 0 BY FS_EmptySet
    <3> QED BY <2>1, <2>3, <3>1, LookupsAssumption DEF BatchTally, NoBatch
  <2>7. Sourced' BY <1>0, <2>1 DEF Sourced
  <2> QED BY <2>2, <2>5, <2>6, <2>7 DEF LookupsInv
<1>17. CASE UNCHANGED lookups
  <2> USE <1>17 DEF lookups
  <2>1. Positions' = Positions /\ Active' = Active /\ Holding' = Holding
    BY DEF Positions, Active, Holding
  <2> QED BY <1>0, <2>1 DEF LookupsInv, LookupsTypeOK, BatchShape, BatchTally, Sourced
<1> QED BY <1>1, <1>2, <1>3, <1>8, <1>9, <1>10, <1>11, <1>12, <1>14, <1>15, <1>16, <1>17
  DEF LookupsNext, QueryRDAP, QueryRDAP_IP, QueryRDAP_Entity, QueryRDAP_ASN

(* BatchQueryASN, whoever else asks and whenever the cache is cleared: the  *)
(* counts of a batch that is over add up to its list, each of its numbers   *)
(* has a result or an error, the semaphore bounds its queries, and a detail *)
(* is of a source that answered for its number.                             *)
THEOREM BatchIsCounted == LookupsSpec => []BatchCounted
<1>1. LookupsInv => BatchCounted
  <2> SUFFICES ASSUME LookupsInv PROVE BatchCounted OBVIOUS
  <2>0. LookupsTypeOK /\ BatchShape /\ BatchTally /\ Sourced BY DEF LookupsInv
  <2>1. ASSUME BatchOver
        PROVE  /\ batch.ok + batch.failed = Len(batch.list)
               /\ {batch.list[c] : c \in Positions} = batch.results \cup batch.errors
    <3>1. Active = {} BY <2>1 DEF BatchOver, Active
    <3>2. Cardinality({}) = 0 BY FS_EmptySet
    <3>3. batch.ok \in Nat /\ batch.failed \in Nat BY <2>0 DEF LookupsTypeOK
    <3>4. Positions \ {} = Positions OBVIOUS
    <3> QED BY <2>0, <3>1, <3>2, <3>3, <3>4 DEF BatchTally
  <2> QED BY <2>0, <2>1 DEF BatchCounted, BatchTally, Sourced
<1> QED BY <1>1, LookupsBegin, LookupsKept, PTL DEF LookupsSpec

------------------------------------------------------------------------------
(***************************************************************************)
(* The aggregator.                                                         *)
(***************************************************************************)
-----------------------------------------------------------------------------
(* The aggregator, as long as no two touch its heap at once.  One call of   *)
(* ExecuteAll runs, and what it or AddQuery found of the heap is the heap   *)
(* still, with a task in it for the one that pops or waits to.              *)
OneAtATime ==
  /\ \A e, f \in Executors : e \in Running /\ f \in Running => e = f
  /\ adding # NoPush => adding.found = heap /\ adding.task \in added /\ Popping = {}
  /\ \A e \in Popping : executor[e].found = heap
  /\ \A e \in Executors : executor[e].pc \in {"waiting", "popping"} => heap # {}
  /\ \A e \in Executors : executor[e].pc # "dead"

(* Where a task is that was added; one that was not, or that is being       *)
(* pushed, is nowhere.                                                      *)
Waiting(t)  == t \in heap /\ answered[t] = 0 /\ \A q \in querying : q[2] # t
Over(t)     == t \notin heap /\ answered[t] = 1 /\ \A q \in querying : q[2] # t
UnderWay(t) == /\ t \notin heap /\ answered[t] = 0
               /\ \E q \in querying : q[2] = t
               /\ \A q, r \in querying : q[2] = t /\ r[2] = t => q = r
Nowhere(t)  == t \notin heap /\ answered[t] = 0 /\ \A q \in querying : q[2] # t

Placed ==
  \A t \in Tasks : IF t \in added /\ t # adding.task THEN Waiting(t) \/ Over(t) \/ UnderWay(t)
                   ELSE Nowhere(t)

AnsweredTasks == {t \in Tasks : answered[t] > 0}
AnswersTallied ==
  /\ IsFiniteSet(AnsweredTasks) /\ tally.ok + tally.failed = Cardinality(AnsweredTasks)
  /\ \A q \in querying : executor[q[1]].pc # "away"

Undisturbed == OneAtATime /\ Placed /\ AnswersTallied
AggregatorInv == AggregatorTypeOK /\ (~overlap => Undisturbed)

Executing == [pc : {"away", "looking", "waiting", "popping", "joining", "dead"}, found : SUBSET Tasks]

Pushing == {NoPush} \cup [task : Tasks, found : SUBSET Tasks]

LEMMA AggregatorTyped == AggregatorTypeOK /\ [AggregatorNext]_aggregator => AggregatorTypeOK'
<1> SUFFICES ASSUME AggregatorTypeOK, [AggregatorNext]_aggregator PROVE AggregatorTypeOK' OBVIOUS
<1>0. /\ heap \subseteq Tasks /\ adding \in Pushing
      /\ executor \in [Executors -> Executing] /\ querying \subseteq Executors \X Tasks
      /\ answered \in [Tasks -> Nat] /\ calls \in 0 .. MaxCalls
      /\ tally \in [total : Nat, ok : Nat, failed : Nat] /\ added \subseteq Tasks
      /\ overlap \in BOOLEAN
  BY DEF AggregatorTypeOK, Executing, Pushing
<1>a. NoPush \in Pushing BY DEF Pushing
<1>b. MaxCalls \in Nat BY AggregatorAssumption
<1>c. ASSUME heap' \subseteq Tasks, adding' \in Pushing,
             executor' \in [Executors -> Executing], querying' \subseteq Executors \X Tasks,
             answered' \in [Tasks -> Nat], calls' \in 0 .. MaxCalls,
             tally' \in [total : Nat, ok : Nat, failed : Nat], added' \subseteq Tasks,
             overlap' \in BOOLEAN
      PROVE  AggregatorTypeOK'
  BY <1>c DEF AggregatorTypeOK, Executing, Pushing
<1>1. ASSUME NEW t \in Tasks, AddQuery(t) PROVE AggregatorTypeOK'
  <2>1. [task |-> t, found |-> heap] \in Pushing BY <1>0 DEF Pushing
  <2> QED BY <1>0, <1>1, <1>c, <2>1 DEF AddQuery
<1>2. CASE Pushed
  <2>1. adding.found \subseteq Tasks /\ adding.task \in Tasks BY <1>0, <1>2 DEF Pushed, Pushing
  <2> QED BY <1>0, <1>2, <1>a, <1>c, <2>1 DEF Pushed
<1>3. ASSUME NEW e \in Executors, ExecuteAll(e) PROVE AggregatorTypeOK'
  <2>1. [executor[e] EXCEPT !.pc = "looking"] \in Executing BY <1>0 DEF Executing
  <2>2. executor' = [executor EXCEPT ![e] = [executor[e] EXCEPT !.pc = "looking"]] BY <1>3 DEF ExecuteAll
  <2>3. executor' \in [Executors -> Executing] BY <1>0, <2>1, <2>2
  <2>4. calls' \in 0 .. MaxCalls BY <1>0, <1>b, <1>3 DEF ExecuteAll
  <2> QED BY <1>0, <1>3, <1>c, <2>3, <2>4 DEF ExecuteAll
<1>4. ASSUME NEW e \in Executors, Look(e) PROVE AggregatorTypeOK'
  <2> DEFINE x == [executor[e] EXCEPT !.pc = IF heap = {} THEN "joining" ELSE "waiting"]
  <2>1. x \in Executing BY <1>0 DEF Executing
  <2>2. executor' = [executor EXCEPT ![e] = x] BY <1>4 DEF Look
  <2> HIDE DEF x
  <2>3. executor' \in [Executors -> Executing] BY <1>0, <2>1, <2>2
  <2> QED BY <1>0, <1>4, <1>c, <2>3 DEF Look
<1>5. ASSUME NEW e \in Executors, Acquire(e) PROVE AggregatorTypeOK'
  <2>1. [pc |-> "popping", found |-> heap] \in Executing BY <1>0 DEF Executing
  <2>2. executor' \in [Executors -> Executing] BY <1>0, <1>5, <2>1 DEF Acquire
  <2> QED BY <1>0, <1>5, <1>c, <2>2 DEF Acquire
<1>6. ASSUME NEW e \in Executors, Pop(e) PROVE AggregatorTypeOK'
  <2>1. [pc |-> "looking", found |-> {}] \in Executing BY DEF Executing
  <2>2. executor' \in [Executors -> Executing] BY <1>0, <1>6, <2>1 DEF Pop
  <2>3. executor[e].found \subseteq Tasks BY <1>0 DEF Executing
  <2>4. heap' \subseteq Tasks /\ querying' \subseteq Executors \X Tasks
    BY <1>0, <1>6, <2>3 DEF Pop, First, Rest
  <2> QED BY <1>0, <1>6, <1>c, <2>2, <2>4 DEF Pop
<1>7. ASSUME NEW e \in Executors, Panic(e) PROVE AggregatorTypeOK'
  <2>1. [pc |-> "dead", found |-> {}] \in Executing BY DEF Executing
  <2>2. executor' \in [Executors -> Executing] BY <1>7, <2>1 DEF Panic
  <2> QED BY <1>0, <1>7, <1>a, <1>c, <2>2 DEF Panic
<1>8. ASSUME NEW e \in Executors, ReturnAll(e) PROVE AggregatorTypeOK'
  <2>1. Away \in Executing BY DEF Executing, Away
  <2>2. executor' \in [Executors -> Executing] BY <1>0, <1>8, <2>1 DEF ReturnAll
  <2> QED BY <1>0, <1>8, <1>c, <2>2 DEF ReturnAll
<1>9. ASSUME NEW q \in querying, Answer(q) PROVE AggregatorTypeOK'
  <2>1. q[2] \in Tasks BY <1>0
  <2>2. answered' \in [Tasks -> Nat] BY <1>0, <1>9, <2>1 DEF Answer
  <2>3. tally' \in [total : Nat, ok : Nat, failed : Nat]
    <3>1. tally.total \in Nat /\ tally.ok \in Nat /\ tally.failed \in Nat BY <1>0
    <3>2. \/ tally' = [tally EXCEPT !.total = tally.total + 2, !.ok = tally.ok + 1]
          \/ tally' = [tally EXCEPT !.total = tally.total + 1, !.failed = tally.failed + 1]
      BY <1>9 DEF Answer
    <3>3. \/ tally' = [total |-> tally.total + 2, ok |-> tally.ok + 1, failed |-> tally.failed]
          \/ tally' = [total |-> tally.total + 1, ok |-> tally.ok, failed |-> tally.failed + 1]
      BY <1>0, <3>2
    <3> QED BY <3>1, <3>3
  <2> QED BY <1>0, <1>9, <1>c, <2>2, <2>3 DEF Answer
<1>10. CASE UNCHANGED aggregator BY <1>10 DEF aggregator, AggregatorTypeOK
<1> QED BY <1>1, <1>2, <1>3, <1>4, <1>5, <1>6, <1>7, <1>8, <1>9, <1>10 DEF AggregatorNext

LEMMA AggregatorBegin == AggregatorInit => AggregatorInv
<1> SUFFICES ASSUME AggregatorInit PROVE AggregatorInv OBVIOUS
<1> USE DEF AggregatorInit
<1>1. AggregatorTypeOK
  <2>1. Away \in [pc : {"away", "looking", "waiting", "popping", "joining", "dead"}, found : SUBSET Tasks]
    BY DEF Away
  <2>2. calls \in 0 .. MaxCalls BY AggregatorAssumption
  <2> QED BY <2>1, <2>2 DEF AggregatorTypeOK
<1>2. \A e \in Executors : executor[e].pc = "away" BY DEF Away
<1>3. Running = {} /\ Popping = {} BY <1>2 DEF Running, Popping
<1>4. OneAtATime BY <1>2, <1>3 DEF OneAtATime
<1>5. Placed BY DEF Placed, Nowhere
<1>6. AnsweredTasks = {} BY DEF AnsweredTasks
<1>7. AnswersTallied BY <1>6, FS_EmptySet DEF AnswersTallied
<1> QED BY <1>1, <1>4, <1>5, <1>7 DEF AggregatorInv, Undisturbed

(* A step of one executor that leaves the heap and the queries as they are. *)
LEMMA OneExecutor ==
  ASSUME AggregatorInv, Undisturbed, NEW e \in Executors, NEW x \in Executing,
         executor' = [executor EXCEPT ![e] = x],
         UNCHANGED <<heap, adding, querying, answered, tally, added>>,
         x.pc # "dead",
         x.pc = "away" => \A q \in querying : q[1] # e,
         x.pc \in {"looking", "waiting", "popping"} => e \in Running \/ Running = {},
         x.pc = "popping" => adding = NoPush /\ x.found = heap,
         x.pc \in {"waiting", "popping"} => heap # {}
  PROVE  Undisturbed'
<1>0. executor \in [Executors -> Executing] /\ OneAtATime /\ Placed /\ AnswersTallied
        /\ querying \subseteq Executors \X Tasks
  BY DEF AggregatorInv, AggregatorTypeOK, Executing, Undisturbed
<1>1. executor'[e] = x /\ \A f \in Executors : f # e => executor'[f] = executor[f] BY <1>0
<1>2. \A f \in Executors : f # e => /\ f \in Running' <=> f \in Running
                                    /\ f \in Popping' <=> f \in Popping
  BY <1>1 DEF Running, Popping
<1>3. e \in Running' => e \in Running \/ Running = {} BY <1>1 DEF Running
<1>4. e \in Popping' => x.pc = "popping" BY <1>1 DEF Popping
<1>5. Popping' \subseteq Executors /\ Running' \subseteq Executors BY DEF Popping, Running
<1>6. OneAtATime'
  <2>1. \A f, g \in Executors : f \in Running' /\ g \in Running' => f = g
    BY <1>0, <1>2, <1>3 DEF OneAtATime
  <2>2. adding # NoPush => adding.found = heap /\ adding.task \in added /\ Popping' = {}
    BY <1>0, <1>2, <1>4, <1>5 DEF OneAtATime
  <2>3. \A f \in Popping' : executor'[f].found = heap
    BY <1>0, <1>1, <1>2, <1>4, <1>5 DEF OneAtATime
  <2>4. \A f \in Executors : executor'[f].pc \in {"waiting", "popping"} => heap # {}
    BY <1>0, <1>1 DEF OneAtATime
  <2>5. \A f \in Executors : executor'[f].pc # "dead" BY <1>0, <1>1 DEF OneAtATime
  <2> QED BY <2>1, <2>2, <2>3, <2>4, <2>5 DEF OneAtATime
<1>7. Placed' BY <1>0 DEF Placed, Waiting, Over, UnderWay, Nowhere
<1>8. AnswersTallied'
  <2>1. AnsweredTasks' = AnsweredTasks BY DEF AnsweredTasks
  <2>2. \A q \in querying : executor'[q[1]].pc # "away" BY <1>0, <1>1 DEF AnswersTallied
  <2> QED BY <1>0, <2>1, <2>2 DEF AnswersTallied
<1> QED BY <1>6, <1>7, <1>8 DEF Undisturbed

LEMMA AggregatorKept == AggregatorInv /\ [AggregatorNext]_aggregator => AggregatorInv'
<1> SUFFICES ASSUME AggregatorInv, [AggregatorNext]_aggregator PROVE AggregatorInv' OBVIOUS
<1>t. AggregatorTypeOK /\ AggregatorTypeOK' BY AggregatorTyped DEF AggregatorInv
<1> SUFFICES ASSUME ~overlap' PROVE Undisturbed' BY <1>t DEF AggregatorInv
<1>a. /\ heap \subseteq Tasks /\ adding \in Pushing
      /\ executor \in [Executors -> Executing] /\ querying \subseteq Executors \X Tasks
      /\ answered \in [Tasks -> Nat] /\ calls \in 0 .. MaxCalls
      /\ tally \in [total : Nat, ok : Nat, failed : Nat] /\ added \subseteq Tasks
      /\ overlap \in BOOLEAN
  BY <1>t DEF AggregatorTypeOK, Executing, Pushing
<1>b. ~overlap
  BY DEF AggregatorNext, aggregator, AddQuery, Pushed, ExecuteAll, Look, Acquire, Pop, Panic,
         ReturnAll, Answer
<1>0. Undisturbed /\ OneAtATime /\ Placed /\ AnswersTallied
  BY <1>b DEF AggregatorInv, Undisturbed
<1>c. "none" \notin Tasks BY AggregatorAssumption
<1>1. ASSUME NEW t \in Tasks, AddQuery(t) PROVE Undisturbed'
  <2>1. /\ adding = NoPush /\ t \notin added /\ added' = added \cup {t}
        /\ adding' = [task |-> t, found |-> heap] /\ Popping = {}
        /\ UNCHANGED <<heap, executor, querying, answered, tally>>
    BY <1>1 DEF AddQuery
  <2>2. Running' = Running /\ Popping' = {} BY <2>1 DEF Running, Popping
  <2>3. OneAtATime' BY <1>0, <2>1, <2>2 DEF OneAtATime
  <2>4. Placed'
    <3>1. adding.task = "none" /\ adding'.task = t BY <2>1 DEF NoPush
    <3> SUFFICES ASSUME NEW u \in Tasks
                 PROVE  IF u \in added' /\ u # adding'.task THEN Waiting(u)' \/ Over(u)' \/ UnderWay(u)'
                        ELSE Nowhere(u)'
      BY DEF Placed
    <3>2. /\ Waiting(u)' <=> Waiting(u)
          /\ Over(u)' <=> Over(u)
          /\ UnderWay(u)' <=> UnderWay(u)
          /\ Nowhere(u)' <=> Nowhere(u)
      BY <2>1 DEF Waiting, Over, UnderWay, Nowhere
    <3>3. CASE u = t
      <4>1. Nowhere(u) BY <1>0, <2>1, <3>3 DEF Placed
      <4> QED BY <3>1, <3>2, <3>3, <4>1
    <3>4. CASE u # t
      <4>1. u \in added' <=> u \in added BY <2>1, <3>4
      <4>2. u # adding.task BY <1>c, <3>1
      <4> QED BY <1>0, <3>1, <3>2, <3>4, <4>1, <4>2 DEF Placed
    <3> QED BY <3>3, <3>4
  <2>5. AnswersTallied'
    <3>1. AnsweredTasks' = AnsweredTasks BY <2>1 DEF AnsweredTasks
    <3> QED BY <1>0, <2>1, <3>1 DEF AnswersTallied
  <2> QED BY <2>3, <2>4, <2>5 DEF Undisturbed
<1>2. CASE Pushed
  <2> DEFINE t == adding.task
  <2>1. /\ adding # NoPush /\ adding.found = heap /\ Popping = {} 
        /\ heap' = heap \cup {t} /\ adding' = NoPush
        /\ UNCHANGED <<executor, querying, answered, tally, added>>
    BY <1>0, <1>2 DEF Pushed, OneAtATime
  <2>2. Running' = Running /\ Popping' = {} BY <2>1 DEF Running, Popping
  <2>3. OneAtATime' BY <1>0, <2>1, <2>2 DEF OneAtATime
  <2>4. t \in Tasks BY <1>t, <2>1, <1>c DEF AggregatorTypeOK
  <2>5. Placed'
    <3>1. adding'.task = "none" BY <2>1 DEF NoPush
    <3>2. t \in added BY <1>0, <2>1 DEF OneAtATime
    <3> SUFFICES ASSUME NEW u \in Tasks
                 PROVE  IF u \in added' /\ u # adding'.task THEN Waiting(u)' \/ Over(u)' \/ UnderWay(u)'
                        ELSE Nowhere(u)'
      BY DEF Placed
    <3>3. u # adding'.task BY <1>c, <3>1
    <3>4. CASE u = t
      <4>1. Nowhere(u) BY <1>0, <2>4, <3>4 DEF Placed
      <4>2. Waiting(u)' BY <2>1, <3>4, <4>1 DEF Nowhere, Waiting
      <4> QED BY <2>1, <3>2, <3>3, <3>4, <4>2
    <3>5. CASE u # t
      <4>1. /\ Waiting(u)' <=> Waiting(u)
            /\ Over(u)' <=> Over(u)
            /\ UnderWay(u)' <=> UnderWay(u)
            /\ Nowhere(u)' <=> Nowhere(u)
        BY <2>1, <3>5 DEF Waiting, Over, UnderWay, Nowhere
      <4> QED BY <1>0, <2>1, <3>3, <3>5, <4>1 DEF Placed
    <3> QED BY <3>4, <3>5
  <2>6. AnswersTallied'
    <3>1. AnsweredTasks' = AnsweredTasks BY <2>1 DEF AnsweredTasks
    <3> QED BY <1>0, <2>1, <3>1 DEF AnswersTallied
  <2> QED BY <2>3, <2>5, <2>6 DEF Undisturbed
<1>3. ASSUME NEW e \in Executors, ExecuteAll(e) PROVE Undisturbed'
  <2> DEFINE x == [executor[e] EXCEPT !.pc = "looking"]
  <2>1. x \in Executing /\ x.pc = "looking" BY <1>a DEF Executing
  <2>2. /\ executor' = [executor EXCEPT ![e] = x] /\ Running = {} 
        /\ UNCHANGED <<heap, adding, querying, answered, tally, added>>
    BY <1>3 DEF ExecuteAll
  <2> HIDE DEF x
  <2> QED BY <1>0, <2>1, <2>2, OneExecutor
<1>4. ASSUME NEW e \in Executors, Look(e) PROVE Undisturbed'
  <2> DEFINE x == [executor[e] EXCEPT !.pc = IF heap = {} THEN "joining" ELSE "waiting"]
  <2>1. /\ x \in Executing /\ x.pc \in {"joining", "waiting"} 
        /\ x.pc = "waiting" => heap # {}
    BY <1>a DEF Executing
  <2>2. /\ executor' = [executor EXCEPT ![e] = x] /\ e \in Running
        /\ UNCHANGED <<heap, adding, querying, answered, tally, added>>
    BY <1>4 DEF Look, Running
  <2> HIDE DEF x
  <2> QED BY <1>0, <2>1, <2>2, OneExecutor
<1>5. ASSUME NEW e \in Executors, Acquire(e) PROVE Undisturbed'
  <2> DEFINE x == [pc |-> "popping", found |-> heap]
  <2>1. x \in Executing /\ x.pc = "popping" /\ x.found = heap BY <1>a DEF Executing
  <2>2. /\ executor' = [executor EXCEPT ![e] = x] /\ e \in Running /\ adding = NoPush
        /\ executor[e].pc = "waiting"
        /\ UNCHANGED <<heap, adding, querying, answered, tally, added>>
    BY <1>5 DEF Acquire, Running
  <2>3. heap # {} BY <1>0, <2>2 DEF OneAtATime
  <2> HIDE DEF x
  <2> QED BY <1>0, <2>1, <2>2, <2>3, OneExecutor
<1>6. ASSUME NEW e \in Executors, Pop(e) PROVE Undisturbed'
  <2>1. e \in Popping /\ e \in Running BY <1>6 DEF Pop, Popping, Running
  <2>2. executor[e].found = heap /\ adding = NoPush BY <1>0, <2>1 DEF OneAtATime
  <2>3. PICK t \in heap : heap' = heap \ {t} /\ querying' = querying \cup {<<e, t>>}
    BY <1>6, <2>2 DEF Pop, First, Rest
  <2>4. /\ executor' = [executor EXCEPT ![e] = [pc |-> "looking", found |-> {}]]
        /\ UNCHANGED <<adding, answered, tally, added>>
    BY <1>6 DEF Pop
  <2>5. executor'[e].pc = "looking" /\ \A f \in Executors : f # e => executor'[f] = executor[f]
    BY <1>a, <2>4
  <2>6. \A f \in Executors : /\ f \in Running' <=> f \in Running
                             /\ f \in Popping' => f \in Popping /\ f # e
    BY <2>1, <2>5 DEF Running, Popping
  <2>7. \A f \in Executors : f \in Running => f = e BY <1>0, <2>1 DEF OneAtATime
  <2>8. \A f \in Executors : executor[f].pc \in {"waiting", "popping"} => f \in Running
    BY DEF Running
  <2>9. OneAtATime'
    <3>1. Popping' = {} BY <2>6, <2>7, <2>8 DEF Popping
    <3>2. \A f \in Executors : executor'[f].pc \notin {"waiting", "popping"}
      BY <2>5, <2>7, <2>8
    <3>3. \A f \in Executors : executor'[f].pc # "dead" BY <1>0, <2>5 DEF OneAtATime
    <3> QED BY <1>0, <2>2, <2>4, <2>6, <3>1, <3>2, <3>3 DEF OneAtATime
  <2>10. t \in Tasks /\ t \in added /\ Waiting(t)
    <3>1. t \in Tasks BY <1>a, <2>3
    <3>2. ~Nowhere(t) /\ ~Over(t) /\ ~UnderWay(t) BY <2>3 DEF Nowhere, Over, UnderWay
    <3> QED BY <1>0, <3>1, <3>2 DEF Placed
  <2>11. Placed'
    <3> SUFFICES ASSUME NEW u \in Tasks
                 PROVE  IF u \in added' /\ u # adding'.task THEN Waiting(u)' \/ Over(u)' \/ UnderWay(u)'
                        ELSE Nowhere(u)'
      BY DEF Placed
    <3>1. adding.task = "none" /\ u # adding'.task BY <1>c, <2>2, <2>4 DEF NoPush
    <3>2. CASE u = t
      <4>1. UnderWay(u)' 
        <5>1. answered[t] = 0 /\ \A q \in querying : q[2] # t BY <2>10 DEF Waiting
        <5>2. <<e, t>>[2] = t OBVIOUS
        <5>3. \A q \in querying' : q[2] = t => q = <<e, t>> BY <2>3, <5>1
        <5> QED BY <2>3, <2>4, <3>2, <5>1, <5>2, <5>3 DEF UnderWay
      <4> QED BY <2>4, <2>10, <3>1, <3>2, <4>1
    <3>3. CASE u # t
      <4>1. \A q : q \in querying' /\ q[2] = u <=> q \in querying /\ q[2] = u BY <2>3, <3>3
      <4>2. /\ Waiting(u) => Waiting(u)'
            /\ Over(u) => Over(u)'
            /\ UnderWay(u) => UnderWay(u)'
            /\ Nowhere(u) => Nowhere(u)'
        BY <2>3, <2>4, <3>3, <4>1 DEF Waiting, Over, UnderWay, Nowhere
      <4> QED BY <1>0, <2>4, <3>1, <3>3, <4>2 DEF Placed
    <3> QED BY <3>2, <3>3
  <2>12. AnswersTallied'
    <3>1. AnsweredTasks' = AnsweredTasks BY <2>4 DEF AnsweredTasks
    <3>2. \A q \in querying' : executor'[q[1]].pc # "away"
      <4> TAKE q \in querying'
      <4>1. CASE q = <<e, t>> BY <2>5, <4>1
      <4>2. CASE q \in querying
        <5>1. q[1] \in Executors BY <1>a, <4>2
        <5> QED BY <1>0, <2>5, <4>2, <5>1 DEF AnswersTallied
      <4> QED BY <2>3, <4>1, <4>2
    <3> QED BY <1>0, <2>4, <3>1, <3>2 DEF AnswersTallied
  <2> QED BY <2>9, <2>11, <2>12 DEF Undisturbed
(* A Pop that none disturbs finds what it looked at.                        *)
<1>7. ASSUME NEW e \in Executors, Panic(e) PROVE FALSE
  <2>1. e \in Popping BY <1>7 DEF Panic, Popping
  <2> QED BY <1>0, <1>7, <2>1 DEF Panic, OneAtATime
<1>8. ASSUME NEW e \in Executors, ReturnAll(e) PROVE Undisturbed'
  <2>1. Away \in Executing /\ Away.pc = "away" BY DEF Executing, Away
  <2>2. /\ executor' = [executor EXCEPT ![e] = Away] /\ \A q \in querying : q[1] # e
        /\ UNCHANGED <<heap, adding, querying, answered, tally, added>>
    BY <1>8 DEF ReturnAll, Joined
  <2> QED BY <1>0, <2>1, <2>2, OneExecutor
<1>9. ASSUME NEW q \in querying, Answer(q) PROVE Undisturbed'
  <2> DEFINE t == q[2]
  <2>1. t \in Tasks /\ answered' = [answered EXCEPT ![t] = answered[t] + 1] 
          /\ querying' = querying \ {q}
          /\ UNCHANGED <<heap, adding, executor, added>>
    BY <1>a, <1>9 DEF Answer
  <2>2. OneAtATime'
    <3>1. Running' = Running /\ Popping' = Popping BY <2>1 DEF Running, Popping
    <3> QED BY <1>0, <2>1, <3>1 DEF OneAtATime
  <2>3. UnderWay(t) /\ t \in added /\ t # adding.task
    <3>1. ~Nowhere(t) /\ ~Over(t) /\ ~Waiting(t) BY DEF Nowhere, Over, Waiting
    <3> QED BY <1>0, <2>1, <3>1 DEF Placed
  <2>4. answered[t] = 0 /\ answered'[t] = 1 /\ \A u \in Tasks : u # t => answered'[u] = answered[u]
    BY <1>a, <2>1, <2>3 DEF UnderWay
  <2>5. Placed'
    <3> SUFFICES ASSUME NEW u \in Tasks
                 PROVE  IF u \in added' /\ u # adding'.task THEN Waiting(u)' \/ Over(u)' \/ UnderWay(u)'
                        ELSE Nowhere(u)'
      BY DEF Placed
    <3>1. CASE u = t
      <4>1. Over(u)' BY <2>1, <2>3, <2>4, <3>1 DEF Over, UnderWay
      <4> QED BY <2>1, <2>3, <3>1, <4>1
    <3>2. CASE u # t
      <4>1. \A r : r \in querying' /\ r[2] = u <=> r \in querying /\ r[2] = u BY <2>1, <3>2
      <4>2. /\ Waiting(u) => Waiting(u)'
            /\ Over(u) => Over(u)'
            /\ UnderWay(u) => UnderWay(u)'
            /\ Nowhere(u) => Nowhere(u)'
        BY <2>1, <2>4, <3>2, <4>1 DEF Waiting, Over, UnderWay, Nowhere
      <4> QED BY <1>0, <2>1, <4>2 DEF Placed
    <3> QED BY <3>1, <3>2
  <2>6. AnswersTallied'
    <3>1. t \notin AnsweredTasks /\ AnsweredTasks' = AnsweredTasks \cup {t}
      BY <1>a, <2>1, <2>4 DEF AnsweredTasks
    <3>2. IsFiniteSet(AnsweredTasks) /\ tally.ok + tally.failed = Cardinality(AnsweredTasks)
      BY <1>0 DEF AnswersTallied
    <3>3. IsFiniteSet(AnsweredTasks') /\ Cardinality(AnsweredTasks') = Cardinality(AnsweredTasks) + 1
      BY <3>1, <3>2, FS_AddElement
    <3>4. tally'.ok + tally'.failed = tally.ok + tally.failed + 1
      <4>1. tally.ok \in Nat /\ tally.failed \in Nat BY <1>a
      <4>2. CASE tally' = [tally EXCEPT !.total = @ + 2, !.ok = @ + 1]
        <5>1. tally'.ok = tally.ok + 1 /\ tally'.failed = tally.failed BY <1>a, <4>2
        <5> QED BY <4>1, <5>1
      <4>3. CASE tally' = [tally EXCEPT !.total = @ + 1, !.failed = @ + 1]
        <5>1. tally'.ok = tally.ok /\ tally'.failed = tally.failed + 1 BY <1>a, <4>3
        <5> QED BY <4>1, <5>1
      <4> QED BY <1>9, <4>2, <4>3 DEF Answer
    <3>5. \A r \in querying' : executor'[r[1]].pc # "away" BY <1>0, <2>1 DEF AnswersTallied
    <3> QED BY <3>2, <3>3, <3>4, <3>5 DEF AnswersTallied
  <2> QED BY <2>2, <2>5, <2>6 DEF Undisturbed
<1>10. CASE UNCHANGED aggregator
  <2> USE <1>10 DEF aggregator
  <2>1. Running' = Running /\ Popping' = Popping /\ AnsweredTasks' = AnsweredTasks
    BY DEF Running, Popping, AnsweredTasks
  <2>2. OneAtATime' BY <1>0, <2>1 DEF OneAtATime
  <2>3. Placed' BY <1>0 DEF Placed, Waiting, Over, UnderWay, Nowhere
  <2>4. AnswersTallied' BY <1>0, <2>1 DEF AnswersTallied
  <2> QED BY <2>2, <2>3, <2>4 DEF Undisturbed
<1> QED BY <1>1, <1>2, <1>3, <1>4, <1>5, <1>6, <1>7, <1>8, <1>9, <1>10 DEF AggregatorNext

(* QueryAggregator, however AddQuery comes between the look at the heap,    *)
(* the wait for a slot and the Pop: as long as no two touched the heap at   *)
(* once, every task that was added is waiting, under way or answered, once, *)
(* ExecuteAll has not returned while its tasks are under way, and the       *)
(* statistics count each answer.                                            *)
THEOREM EachAnsweredOnce == AggregatorSpec => []AnsweredOnce
<1>1. AggregatorInv => AnsweredOnce
  <2> SUFFICES ASSUME AggregatorInv, ~overlap PROVE AnsweredOnce BY DEF AnsweredOnce
  <2>0. AggregatorTypeOK /\ OneAtATime /\ Placed /\ AnswersTallied
    BY DEF AggregatorInv, Undisturbed
  <2>1. ASSUME NEW t \in added, t # adding.task
        PROVE  (IF t \in heap THEN 1 ELSE 0) + answered[t]
                 + Cardinality({q \in querying : q[2] = t}) = 1
    <3> DEFINE U == {q \in querying : q[2] = t}
    <3>1. t \in Tasks BY <2>0 DEF AggregatorTypeOK
    <3>2. CASE Waiting(t) \/ Over(t)
      <4>1. U = {} BY <3>2 DEF Waiting, Over
      <4>2. Cardinality(U) = 0 BY <4>1, FS_EmptySet
      <4> HIDE DEF U
      <4>3. CASE Waiting(t) BY <4>2, <4>3 DEF Waiting, U
      <4>4. CASE Over(t) BY <4>2, <4>4 DEF Over, U
      <4> QED BY <3>2, <4>3, <4>4
    <3>3. CASE UnderWay(t)
      <4>1. PICK q \in querying : q[2] = t BY <3>3 DEF UnderWay
      <4>2. U = {q} BY <3>3, <4>1 DEF UnderWay
      <4>3. Cardinality(U) = 1 BY <4>2, FS_Singleton
      <4> HIDE DEF U
      <4> QED BY <3>3, <4>3 DEF UnderWay, U
    <3> QED BY <2>0, <2>1, <3>1, <3>2, <3>3 DEF Placed
  <2>2. \A q \in querying : executor[q[1]].pc \notin {"away", "dead"}
    BY <2>0 DEF AggregatorTypeOK, AnswersTallied, OneAtATime
  <2>3. tally.ok + tally.failed = Cardinality({t \in Tasks : answered[t] > 0})
    BY <2>0 DEF AnswersTallied, AnsweredTasks
  <2> QED BY <2>1, <2>2, <2>3 DEF AnsweredOnce
<1> QED BY <1>1, AggregatorBegin, AggregatorKept, PTL DEF AggregatorSpec

------------------------------------------------------------------------------
(***************************************************************************)
(* The comparison, merge and quality of records.                           *)
(***************************************************************************)
(* The sections of a record, one by one.                                    *)
LEMMA SectionsOfRecord ==
  ASSUME NEW r \in WhoisInfo
  PROVE  /\ r["domain"] = r.domain /\ r.domain \in DomainInfo \cup {Nil}
         /\ r["registrar"] = r.registrar /\ r.registrar \in Registrar \cup {Nil}
         /\ r["registrant"] = r.registrant /\ r.registrant \in Registrant \cup {Nil}
         /\ r # Nil
BY NilAssumption DEF WhoisInfo

(* The views of a record are records.                                       *)
LEMMA Views ==
  ASSUME NEW r \in WhoisInfo, NEW v \in {WhoisView(r), SnapshotView(r)}
  PROVE  /\ v \in WhoisInfo /\ v.registrar = r.registrar /\ v.registrant = r.registrant
         /\ v.domain = Nil <=> r.domain = Nil
         /\ v.domain # Nil =>
              /\ v.domain.created = r.domain.created /\ v.domain.updated = r.domain.updated
              /\ v = WhoisView(r) => /\ v.domain.id = "" /\ v.domain.servers = Folded(r.domain.servers)
                                     /\ v.domain.status = r.domain.status
              /\ v = SnapshotView(r) => /\ v.domain.id = r.domain.id /\ v.domain.status = {}
                                        /\ v.domain.servers = r.domain.servers
<1>1. r # Nil /\ r.domain \in DomainInfo \cup {Nil} BY SectionsOfRecord
<1>2. CASE r.domain = Nil
  <2>1. v = r BY <1>1, <1>2 DEF WhoisView, SnapshotView, WithDomain
  <2> QED BY <1>2, <2>1
<1>3. CASE r.domain # Nil
  <2> DEFINE d == r.domain
             w == [d EXCEPT !.id = "", !.servers = Folded(@)]
             t == [d EXCEPT !.status = {}]
  <2>1. d \in DomainInfo BY <1>1, <1>3
  <2>2. /\ w \in DomainInfo /\ w.id = "" /\ w.created = d.created /\ w.updated = d.updated
        /\ w.status = d.status /\ w.servers = Folded(d.servers)
    <3>1. Folded(d.servers) \in SUBSET {"ns", "NS"} BY <2>1 DEF Folded, DomainInfo
    <3> HIDE DEF d
    <3> QED BY <2>1, <3>1 DEF DomainInfo, Shows
  <2>3. /\ t \in DomainInfo /\ t.id = d.id /\ t.created = d.created /\ t.updated = d.updated
        /\ t.status = {} /\ t.servers = d.servers
    <3> HIDE DEF d
    <3> QED BY <2>1 DEF DomainInfo
  <2>4. /\ WhoisView(r) = [r EXCEPT !.domain = w] /\ SnapshotView(r) = [r EXCEPT !.domain = t]
    BY <1>1, <1>3 DEF WhoisView, SnapshotView, WithDomain
  <2>5. \A x \in DomainInfo :
          LET n == [r EXCEPT !.domain = x]
          IN  n \in WhoisInfo /\ n.domain = x /\ n.registrar = r.registrar /\ n.registrant = r.registrant
    BY DEF WhoisInfo
  <2>6. w # Nil /\ t # Nil BY <2>2, <2>3, NilAssumption
  <2>7. /\ WhoisView(r) \in WhoisInfo /\ WhoisView(r).domain = w
        /\ WhoisView(r).registrar = r.registrar /\ WhoisView(r).registrant = r.registrant
    <3> HIDE DEF w, d, t
    <3> QED BY <2>2, <2>4, <2>5
  <2>8. /\ SnapshotView(r) \in WhoisInfo /\ SnapshotView(r).domain = t
        /\ SnapshotView(r).registrar = r.registrar /\ SnapshotView(r).registrant = r.registrant
    <3> HIDE DEF w, d, t
    <3> QED BY <2>3, <2>4, <2>5
  <2>9. CASE v = WhoisView(r) /\ v # SnapshotView(r)
    <3> HIDE DEF w, t
    <3> QED BY <1>3, <2>2, <2>6, <2>7, <2>9
  <2>10. CASE v = SnapshotView(r) /\ v # WhoisView(r)
    <3> HIDE DEF w, t
    <3> QED BY <1>3, <2>3, <2>6, <2>8, <2>10
  <2>11. CASE v = WhoisView(r) /\ v = SnapshotView(r)
    <3> HIDE DEF w, t
    <3> QED BY <1>3, <2>2, <2>3, <2>6, <2>7, <2>8, <2>11
  <2> QED BY <2>9, <2>10, <2>11
<1> QED BY <1>2, <1>3

(* The changes of one section: it came, it went, or a text of it changed.   *)
Came(old, new, s, c) == old[s] = Nil /\ new[s] # Nil /\ c = FieldChange("added", <<s>>)
TextChanged(old, new, omitted, s, c) ==
  /\ old[s] # Nil /\ new[s] # Nil
  /\ \E f \in Texts(s) \ omitted : old[s][f] # new[s][f] /\ c = FieldChange("modified", <<s, f>>)
Went(old, new, s, c) == old[s] # Nil /\ new[s] = Nil /\ c = FieldChange("removed", <<s>>)
Plainly(old, new, omitted, c) ==
  \E s \in RecordSections :
    Came(old, new, s, c) \/ Went(old, new, s, c) \/ TextChanged(old, new, omitted, s, c)

(* And of a list of the domain: something is there that was not.            *)
OnlyIn(old, new, list, type, c) ==
  /\ old.domain # Nil /\ new.domain # Nil
  /\ \E x \in new.domain[list] \ old.domain[list] : c = FieldChange(type, <<list, x>>)
ListDiffers(old, new, list, c) ==
  OnlyIn(old, new, list, "added", c) \/ OnlyIn(new, old, list, "removed", c)

LEMMA PlainChanges ==
  ASSUME NEW old, NEW new, NEW omitted, NEW c
  PROVE  c \in TextChanges(old, new, omitted) \cup UNION {SectionChange(old, new, s) : s \in RecordSections}
           <=> Plainly(old, new, omitted, c)
<1>1. c \in TextChanges(old, new, omitted) <=> \E s \in RecordSections : TextChanged(old, new, omitted, s, c)
  <2> DEFINE changes(s) == {FieldChange("modified", <<s, f>>) :
                              f \in {g \in Texts(s) \ omitted : old[s][g] # new[s][g]}}
  <2>1. \A s \in Both(old, new) : c \in changes(s) <=> TextChanged(old, new, omitted, s, c)
    BY DEF Both, TextChanged
  <2>2. \A s \in RecordSections : TextChanged(old, new, omitted, s, c) => s \in Both(old, new)
    BY DEF Both, TextChanged
  <2>3. Both(old, new) \subseteq RecordSections
    BY DEF Both
  <2>4. c \in TextChanges(old, new, omitted) <=> \E s \in Both(old, new) : c \in changes(s)
    BY DEF TextChanges
  <2> QED  BY <2>1, <2>2, <2>3, <2>4
<1>2. c \in UNION {SectionChange(old, new, s) : s \in RecordSections}
        <=> \E s \in RecordSections : Came(old, new, s, c) \/ Went(old, new, s, c)
  BY DEF SectionChange, Came, Went
<1> QED  BY <1>1, <1>2 DEF Plainly

(* What CompareSnapshots finds in two records, and CompareWhois in their     *)
(* views: as much, and the status.                                          *)
LEMMA SnapshotsFound ==
  ASSUME NEW old \in WhoisInfo, NEW new \in WhoisInfo, NEW c
  PROVE  c \in CompareSnapshots(old, new) <=> Plainly(old, new, {}, c) \/ ListDiffers(old, new, "servers", c)
<1> DEFINE plain == TextChanges(old, new, {}) \cup UNION {SectionChange(old, new, s) : s \in RecordSections}
           both == "domain" \in Both(old, new)
           servers == ListChanges("servers", old.domain.servers, new.domain.servers)
<1>1. old # Nil /\ new # Nil
  BY SectionsOfRecord
<1>2. both <=> old.domain # Nil /\ new.domain # Nil
  BY SectionsOfRecord DEF Both, RecordSections
<1>3. c \in CompareSnapshots(old, new) <=> c \in plain \/ (both /\ c \in servers)
  <2>1. CASE both
    <3>1. CompareSnapshots(old, new) = plain \cup servers
      BY <1>1, <2>1, Zenon DEF CompareSnapshots
    <3> HIDE DEF plain, both, servers
    <3> QED  BY <2>1, <3>1
  <2>2. CASE ~both
    <3>1. CompareSnapshots(old, new) = plain \cup {}
      BY <1>1, <2>2, Zenon DEF CompareSnapshots
    <3> HIDE DEF plain, both, servers
    <3> QED  BY <2>2, <3>1
  <2> QED  BY <2>1, <2>2
<1>4. both /\ c \in servers <=> ListDiffers(old, new, "servers", c)
  <2>1. \A r \in WhoisInfo : r.domain # Nil => r.domain["servers"] = r.domain.servers
    OBVIOUS
  <2> QED  BY <1>2, <2>1 DEF ListDiffers, OnlyIn, ListChanges
<1>5. c \in plain <=> Plainly(old, new, {}, c)
  BY PlainChanges
<1> QED  BY <1>3, <1>4, <1>5

LEMMA WhoisFound ==
  ASSUME NEW old \in WhoisInfo, NEW new \in WhoisInfo, NEW c
  PROVE  c \in CompareWhois(old, new) <=>
           \/ Plainly(WhoisView(old), WhoisView(new), {}, c)
           \/ ListDiffers(WhoisView(old), WhoisView(new), "servers", c)
           \/ ListDiffers(WhoisView(old), WhoisView(new), "status", c)
<1> DEFINE plain == TextChanges(old, new, {"id"}) \cup UNION {SectionChange(old, new, s) : s \in RecordSections}
           both == "domain" \in Both(old, new)
           states == ListChanges("status", Folded(old.domain.status), Folded(new.domain.status))
           servers == ListChanges("servers", Folded(old.domain.servers), Folded(new.domain.servers))
           o == WhoisView(old)
           n == WhoisView(new)
<1>1. old # Nil /\ new # Nil
  BY SectionsOfRecord
<1>2. both <=> old.domain # Nil /\ new.domain # Nil
  BY SectionsOfRecord DEF Both, RecordSections
<1>3. c \in CompareWhois(old, new) <=> c \in plain \/ (both /\ (c \in states \/ c \in servers))
  <2>1. CASE both
    <3>1. CompareWhois(old, new) = plain \cup (states \cup servers)
      BY <1>1, <2>1, Zenon DEF CompareWhois
    <3> HIDE DEF plain, both, states, servers
    <3> QED  BY <2>1, <3>1
  <2>2. CASE ~both
    <3>1. CompareWhois(old, new) = plain \cup {}
      BY <1>1, <2>2, Zenon DEF CompareWhois
    <3> HIDE DEF plain, both, states, servers
    <3> QED  BY <2>2, <3>1
  <2> QED  BY <2>1, <2>2
<1>4. ASSUME NEW r \in {old, new}
      PROVE  LET v == WhoisView(r) IN
             /\ v \in WhoisInfo /\ \A s \in RecordSections : v[s] = Nil <=> r[s] = Nil
             /\ v["registrar"] = r["registrar"] /\ v["registrant"] = r["registrant"]
             /\ r.domain # Nil =>
                  /\ v.domain # Nil /\ v["domain"]["id"] = ""
                  /\ v["domain"]["created"] = r["domain"]["created"]
                  /\ v["domain"]["updated"] = r["domain"]["updated"]
                  /\ v.domain["servers"] = Folded(r.domain.servers)
                  /\ v.domain["status"] = Folded(r.domain.status)
  <2> DEFINE v == WhoisView(r)
  <2>0. r \in WhoisInfo OBVIOUS
  <2>1. /\ v \in WhoisInfo /\ v.registrar = r.registrar /\ v.registrant = r.registrant
        /\ v.domain = Nil <=> r.domain = Nil
        /\ v.domain # Nil => /\ v.domain.created = r.domain.created /\ v.domain.updated = r.domain.updated
                             /\ v.domain.id = "" /\ v.domain.servers = Folded(r.domain.servers)
                             /\ v.domain.status = r.domain.status
    BY <2>0, Views
  <2>2. \A s \in RecordSections : v[s] = Nil <=> r[s] = Nil
    <3> HIDE DEF v
    <3> QED BY <2>0, <2>1, SectionsOfRecord DEF RecordSections
  <2>3. r.domain # Nil => Folded(r.domain.status) = r.domain.status
    <3>1. r.domain # Nil => r.domain.status \subseteq {"ok"}
      BY <2>0, SectionsOfRecord DEF DomainInfo
    <3> QED BY <3>1 DEF Folded
  <2>4. v["domain"] = v.domain /\ r["domain"] = r.domain
    <3> HIDE DEF v
    <3> QED BY <2>0, <2>1, SectionsOfRecord
  <2> HIDE DEF v
  <2>5. v["registrar"] = r["registrar"] /\ v["registrant"] = r["registrant"]
    BY <2>0, <2>1, SectionsOfRecord
  <2> QED BY <2>1, <2>2, <2>3, <2>4, <2>5 DEF v
<1>5. both /\ c \in servers <=> ListDiffers(o, n, "servers", c)
  BY <1>2, <1>4, SectionsOfRecord DEF ListDiffers, OnlyIn, ListChanges, RecordSections
<1>6. both /\ c \in states <=> ListDiffers(o, n, "status", c)
  BY <1>2, <1>4, SectionsOfRecord DEF ListDiffers, OnlyIn, ListChanges, RecordSections
<1>7. \A s \in RecordSections :
        /\ Came(old, new, s, c) <=> Came(o, n, s, c)
        /\ Went(old, new, s, c) <=> Went(o, n, s, c)
  BY <1>4 DEF Came, Went
<1>8. \A s \in RecordSections : TextChanged(old, new, {"id"}, s, c) <=> TextChanged(o, n, {}, s, c)
  <2> TAKE s \in RecordSections
  <2>1. CASE old[s] = Nil \/ new[s] = Nil
    BY <1>4, <2>1 DEF TextChanged
  <2>2. CASE old[s] # Nil /\ new[s] # Nil
    <3>1. o[s] # Nil /\ n[s] # Nil BY <1>4, <2>2
    <3>2. CASE s = "domain"
      <4>1. old.domain # Nil /\ new.domain # Nil BY <2>2, <3>2, SectionsOfRecord
      <4>2. /\ o["domain"]["id"] = n["domain"]["id"]
            /\ \A f \in {"created", "updated"} : /\ o["domain"][f] = old["domain"][f]
                                                 /\ n["domain"][f] = new["domain"][f]
        BY <1>4, <4>1
      <4>3. Texts(s) = {"id", "created", "updated"} BY <3>2 DEF Texts, DomainTexts
      <4> HIDE DEF o, n
      <4> QED BY <2>2, <3>1, <3>2, <4>2, <4>3 DEF TextChanged
    <3>3. CASE s # "domain"
      <4>1. Texts(s) = {"name"} BY <3>3 DEF Texts
      <4>2. o[s] = old[s] /\ n[s] = new[s] BY <1>4, <3>3 DEF RecordSections
      <4> HIDE DEF o, n
      <4> QED BY <4>1, <4>2 DEF TextChanged
    <3> QED BY <3>2, <3>3
  <2> QED BY <2>1, <2>2
<1>9. c \in plain <=> Plainly(o, n, {}, c)
  <2>1. c \in plain <=> Plainly(old, new, {"id"}, c) BY PlainChanges
  <2> HIDE DEF o, n, plain
  <2> QED BY <2>1, <1>7, <1>8 DEF Plainly
<1> QED  BY <1>3, <1>5, <1>6, <1>9

(* A change turned round is the change the other way.                       *)
LEMMA TurnedRound ==
  ASSUME NEW p
  PROVE  /\ Turned(FieldChange("added", p)) = FieldChange("removed", p)
         /\ Turned(FieldChange("removed", p)) = FieldChange("added", p)
         /\ Turned(FieldChange("modified", p)) = FieldChange("modified", p)
BY DEF Turned, FieldChange

LEMMA PlainTurns ==
  ASSUME NEW old, NEW new, NEW c, Plainly(old, new, {}, c)
  PROVE  Plainly(new, old, {}, Turned(c)) /\ Turned(Turned(c)) = c
<1>1. PICK s \in RecordSections :
        Came(old, new, s, c) \/ Went(old, new, s, c) \/ TextChanged(old, new, {}, s, c)
  BY DEF Plainly
<1>2. CASE Came(old, new, s, c)
  <2>1. Went(new, old, s, Turned(c)) /\ Turned(Turned(c)) = c
    BY <1>2, TurnedRound DEF Came, Went
  <2> QED  BY <2>1 DEF Plainly
<1>3. CASE Went(old, new, s, c)
  <2>1. Came(new, old, s, Turned(c)) /\ Turned(Turned(c)) = c
    BY <1>3, TurnedRound DEF Came, Went
  <2> QED  BY <2>1 DEF Plainly
<1>4. CASE TextChanged(old, new, {}, s, c)
  <2>1. PICK f \in Texts(s) \ {} : old[s][f] # new[s][f] /\ c = FieldChange("modified", <<s, f>>)
    BY <1>4 DEF TextChanged
  <2>2. Turned(c) = c
    BY <2>1, TurnedRound
  <2>3. TextChanged(new, old, {}, s, c)
    BY <1>4, <2>1 DEF TextChanged
  <2> QED  BY <2>2, <2>3 DEF Plainly
<1> QED BY <1>1, <1>2, <1>3, <1>4

LEMMA ListTurns ==
  ASSUME NEW old, NEW new, NEW list, NEW c, ListDiffers(old, new, list, c)
  PROVE  ListDiffers(new, old, list, Turned(c)) /\ Turned(Turned(c)) = c
BY TurnedRound DEF ListDiffers, OnlyIn

LEMMA ChangesTurn ==
  ASSUME NEW old \in WhoisInfo, NEW new \in WhoisInfo
  PROVE  /\ CompareWhois(new, old) = {Turned(c) : c \in CompareWhois(old, new)}
         /\ CompareSnapshots(new, old) = {Turned(c) : c \in CompareSnapshots(old, new)}
<1>1. ASSUME NEW x \in WhoisInfo, NEW y \in WhoisInfo, NEW c \in CompareWhois(x, y)
      PROVE  Turned(c) \in CompareWhois(y, x) /\ Turned(Turned(c)) = c
  <2>1. \/ Plainly(WhoisView(x), WhoisView(y), {}, c)
        \/ \E list \in {"servers", "status"} : ListDiffers(WhoisView(x), WhoisView(y), list, c)
    BY WhoisFound
  <2>2. /\ \/ Plainly(WhoisView(y), WhoisView(x), {}, Turned(c))
           \/ \E list \in {"servers", "status"} : ListDiffers(WhoisView(y), WhoisView(x), list, Turned(c))
        /\ Turned(Turned(c)) = c
    BY <2>1, PlainTurns, ListTurns
  <2> QED BY <2>2, WhoisFound
<1>2. ASSUME NEW x \in WhoisInfo, NEW y \in WhoisInfo, NEW c \in CompareSnapshots(x, y)
      PROVE  Turned(c) \in CompareSnapshots(y, x) /\ Turned(Turned(c)) = c
  <2>1. Plainly(x, y, {}, c) \/ ListDiffers(x, y, "servers", c)
    BY SnapshotsFound
  <2>2. /\ Plainly(y, x, {}, Turned(c)) \/ ListDiffers(y, x, "servers", Turned(c))
        /\ Turned(Turned(c)) = c
    BY <2>1, PlainTurns, ListTurns
  <2> QED BY <2>2, SnapshotsFound
<1>3. ASSUME NEW d PROVE d \in CompareWhois(new, old) <=> d \in {Turned(c) : c \in CompareWhois(old, new)}
  BY <1>1
<1>4. ASSUME NEW d PROVE d \in CompareSnapshots(new, old) <=> d \in {Turned(c) : c \in CompareSnapshots(old, new)}
  BY <1>2
<1> QED BY <1>3, <1>4

(* Nothing is found, of the status neither, just in records that are equal. *)
LEMMA NothingFound ==
  ASSUME NEW old \in WhoisInfo, NEW new \in WhoisInfo
  PROVE  (\A c : ~Plainly(old, new, {}, c) /\ ~ListDiffers(old, new, "servers", c) /\ ~ListDiffers(old, new, "status", c))
           <=> old = new
<1>1. ASSUME old = new, NEW c
      PROVE  ~Plainly(old, new, {}, c) /\ ~ListDiffers(old, new, "servers", c) /\ ~ListDiffers(old, new, "status", c)
  BY <1>1 DEF Plainly, Came, Went, TextChanged, ListDiffers, OnlyIn
<1>2. ASSUME \A c : ~Plainly(old, new, {}, c) /\ ~ListDiffers(old, new, "servers", c) /\ ~ListDiffers(old, new, "status", c)
      PROVE  old = new
  <2>1. ASSUME NEW s \in RecordSections
        PROVE  /\ old[s] = Nil <=> new[s] = Nil
               /\ old[s] # Nil => \A f \in Texts(s) : old[s][f] = new[s][f]
    BY <1>2 DEF Plainly, Came, Went, TextChanged
  <2>2. ASSUME NEW list \in {"status", "servers"}, old.domain # Nil, new.domain # Nil
        PROVE  old.domain[list] \subseteq new.domain[list] /\ new.domain[list] \subseteq old.domain[list]
    <3>1. ASSUME NEW x \in old.domain[list] \ new.domain[list]
          PROVE  FALSE
      <4>1. ListDiffers(old, new, list, FieldChange("removed", <<list, x>>))
        BY <2>2, <3>1 DEF ListDiffers, OnlyIn
      <4> QED  BY <1>2, <4>1
    <3>2. ASSUME NEW x \in new.domain[list] \ old.domain[list]
          PROVE  FALSE
      <4>1. ListDiffers(old, new, list, FieldChange("added", <<list, x>>))
        BY <2>2, <3>2 DEF ListDiffers, OnlyIn
      <4> QED  BY <1>2, <4>1
    <3> QED  BY <3>1, <3>2
  <2>3. old.domain = new.domain
    <3>1. CASE old.domain = Nil
      BY <2>1, <3>1, SectionsOfRecord DEF RecordSections
    <3>2. CASE old.domain # Nil
      <4>1. /\ new.domain # Nil /\ old.domain["created"] = new.domain["created"]
            /\ old.domain["updated"] = new.domain["updated"] /\ old.domain["id"] = new.domain["id"]
        BY <2>1, <3>2, SectionsOfRecord DEF RecordSections, Texts, DomainTexts
      <4>2. old.domain \in DomainInfo /\ new.domain \in DomainInfo
        BY <3>2, <4>1, SectionsOfRecord
      <4>3. old.domain["status"] = new.domain["status"] /\ old.domain["servers"] = new.domain["servers"]
        BY <2>2, <3>2, <4>1, <4>2
      <4> QED  BY <4>1, <4>2, <4>3 DEF DomainInfo
    <3> QED  BY <3>1, <3>2
  <2>4. old.registrar = new.registrar
    <3>1. CASE old.registrar = Nil
      BY <2>1, <3>1, SectionsOfRecord DEF RecordSections
    <3>2. CASE old.registrar # Nil
      <4>1. new.registrar # Nil /\ old.registrar["name"] = new.registrar["name"]
        BY <2>1, <3>2, SectionsOfRecord DEF RecordSections, Texts
      <4> QED  BY <3>2, <4>1, SectionsOfRecord DEF Registrar
    <3> QED  BY <3>1, <3>2
  <2>5. old.registrant = new.registrant
    <3>1. CASE old.registrant = Nil
      BY <2>1, <3>1, SectionsOfRecord DEF RecordSections
    <3>2. CASE old.registrant # Nil
      <4>1. new.registrant # Nil /\ old.registrant["name"] = new.registrant["name"]
        BY <2>1, <3>2, SectionsOfRecord DEF RecordSections, Texts
      <4> QED  BY <3>2, <4>1, SectionsOfRecord DEF Registrant
    <3> QED  BY <3>1, <3>2
  <2> QED  BY <2>3, <2>4, <2>5 DEF WhoisInfo
<1> QED  BY <1>1, <1>2

(* So CompareWhois finds nothing just when the views are equal that it has,  *)
(* and CompareSnapshots when its own are.                                   *)
LEMMA BlindSpots ==
  ASSUME NEW old \in WhoisInfo, NEW new \in WhoisInfo
  PROVE  /\ CompareWhois(old, new) = {} <=> WhoisView(old) = WhoisView(new)
         /\ CompareSnapshots(old, new) = {} <=> SnapshotView(old) = SnapshotView(new)
<1>1. CompareWhois(old, new) = {} <=> WhoisView(old) = WhoisView(new)
  <2>1. WhoisView(old) \in WhoisInfo /\ WhoisView(new) \in WhoisInfo BY Views
  <2> QED BY <2>1, WhoisFound, NothingFound
<1>2. CompareSnapshots(old, new) = {} <=> SnapshotView(old) = SnapshotView(new)
  <2> DEFINE o == SnapshotView(old)
             n == SnapshotView(new)
  <2>1. ASSUME NEW r \in {old, new}
        PROVE  LET v == SnapshotView(r) IN
               /\ v \in WhoisInfo /\ v["registrar"] = r["registrar"] /\ v["registrant"] = r["registrant"]
               /\ v["domain"] = Nil <=> r["domain"] = Nil
               /\ v.domain = Nil <=> r.domain = Nil
               /\ r.domain # Nil =>
                    /\ \A f \in DomainTexts : v["domain"][f] = r["domain"][f]
                    /\ v.domain["servers"] = r.domain["servers"] /\ v.domain["status"] = {}
    <3> DEFINE v == SnapshotView(r)
    <3>0. r \in WhoisInfo OBVIOUS
    <3>1. /\ v \in WhoisInfo /\ v.registrar = r.registrar /\ v.registrant = r.registrant
          /\ v.domain = Nil <=> r.domain = Nil
          /\ v.domain # Nil =>
               /\ v.domain.created = r.domain.created /\ v.domain.updated = r.domain.updated
               /\ v.domain.id = r.domain.id /\ v.domain.status = {} /\ v.domain.servers = r.domain.servers
      BY <3>0, Views
    <3> HIDE DEF v
    <3>2. v["domain"] = v.domain /\ r["domain"] = r.domain
          /\ v["registrar"] = r["registrar"] /\ v["registrant"] = r["registrant"]
      BY <3>0, <3>1, SectionsOfRecord
    <3>3. r.domain # Nil =>
            /\ \A f \in DomainTexts : v.domain[f] = r.domain[f]
            /\ v.domain["servers"] = r.domain["servers"] /\ v.domain["status"] = {}
      BY <3>1 DEF DomainTexts
    <3> QED BY <3>1, <3>2, <3>3 DEF v
  <2>2. ASSUME NEW c
        PROVE  /\ Plainly(old, new, {}, c) <=> Plainly(o, n, {}, c)
               /\ ListDiffers(old, new, "servers", c) <=> ListDiffers(o, n, "servers", c)
               /\ ~ListDiffers(o, n, "status", c)
    <3>1. ListDiffers(old, new, "servers", c) <=> ListDiffers(o, n, "servers", c)
      BY <2>1 DEF ListDiffers, OnlyIn
    <3>2. ~ListDiffers(o, n, "status", c)
      BY <2>1 DEF ListDiffers, OnlyIn
    <3>3. \A s \in RecordSections : Came(old, new, s, c) <=> Came(o, n, s, c)
      BY <2>1 DEF Came, RecordSections
    <3>4. \A s \in RecordSections : Went(old, new, s, c) <=> Went(o, n, s, c)
      BY <2>1 DEF Went, RecordSections
    <3>5. \A s \in RecordSections : TextChanged(old, new, {}, s, c) <=> TextChanged(o, n, {}, s, c)
      <4>1. TextChanged(old, new, {}, "domain", c) <=> TextChanged(o, n, {}, "domain", c)
        <5>1. Texts("domain") = DomainTexts BY DEF Texts
        <5>2. CASE old.domain = Nil \/ new.domain = Nil
          BY <2>1, <5>2, SectionsOfRecord DEF TextChanged
        <5>3. CASE old.domain # Nil /\ new.domain # Nil
          <6>1. \A f \in DomainTexts : o["domain"][f] = old["domain"][f] /\ n["domain"][f] = new["domain"][f]
            BY <2>1, <5>3
          <6>2. /\ o["domain"] = Nil <=> old["domain"] = Nil
                /\ n["domain"] = Nil <=> new["domain"] = Nil
            BY <2>1
          <6> HIDE DEF o, n
          <6> QED BY <5>1, <6>1, <6>2 DEF TextChanged
        <5> QED BY <5>2, <5>3
      <4>2. \A s \in {"registrar", "registrant"} :
              TextChanged(old, new, {}, s, c) <=> TextChanged(o, n, {}, s, c)
        BY <2>1 DEF TextChanged
      <4> QED BY <4>1, <4>2 DEF RecordSections
    <3> HIDE DEF o, n
    <3> QED BY <3>1, <3>2, <3>3, <3>4, <3>5 DEF Plainly
  <2>3. o \in WhoisInfo /\ n \in WhoisInfo BY <2>1
  <2> HIDE DEF o, n
  <2>4. CompareSnapshots(old, new) = {} <=> o = n
    BY <2>2, <2>3, SnapshotsFound, NothingFound
  <2> QED BY <2>4 DEF o, n
<1> QED BY <1>1, <1>2

(* On the views of CompareWhois that of the snapshots misses the status, and *)
(* nothing else.                                                            *)
LEMMA StatusMissed ==
  ASSUME NEW old \in WhoisInfo, NEW new \in WhoisInfo
  PROVE  CompareSnapshots(WhoisView(old), WhoisView(new)) = {c \in CompareWhois(old, new) : ~IsStatus(c)}
<1> DEFINE o == WhoisView(old)
           n == WhoisView(new)
<1>0. o \in WhoisInfo /\ n \in WhoisInfo BY Views
<1>1. ASSUME NEW c, Plainly(o, n, {}, c)
      PROVE  ~IsStatus(c)
  BY <1>1 DEF Plainly, Came, Went, TextChanged, IsStatus, FieldChange, RecordSections
<1>2. ASSUME NEW c, ListDiffers(o, n, "servers", c)
      PROVE  ~IsStatus(c)
  BY <1>2 DEF ListDiffers, OnlyIn, IsStatus, FieldChange
<1>3. ASSUME NEW c, ListDiffers(o, n, "status", c)
      PROVE  IsStatus(c)
  <2>1. ASSUME NEW r \in WhoisInfo, r.domain # Nil
        PROVE  r.domain["status"] \subseteq {"ok"}
    BY <2>1, SectionsOfRecord DEF DomainInfo
  <2> HIDE DEF o, n
  <2> QED  BY <1>0, <1>3, <2>1 DEF ListDiffers, OnlyIn, IsStatus, FieldChange
<1>4. ASSUME NEW c
      PROVE  c \in CompareSnapshots(o, n) <=> c \in CompareWhois(old, new) /\ ~IsStatus(c)
  BY <1>0, <1>1, <1>2, <1>3, WhoisFound, SnapshotsFound
<1> QED  BY <1>4

(* A referral merged again changes nothing more, and no section is lost.    *)
LEMMA MergedOnce ==
  ASSUME NEW base \in WhoisInfo, NEW override \in WhoisInfo
  PROVE  LET m == MergeWhoisInfo(base, override)
         IN  /\ MergeWhoisInfo(m, override) = m
             /\ \A s \in RecordSections : m[s] = Nil <=> base[s] = Nil /\ override[s] = Nil
<1> DEFINE m == MergeWhoisInfo(base, override)
<1>1. /\ m.domain = MergedDomain(base.domain, override.domain)
      /\ m.registrar = Or(override.registrar, Nil, base.registrar)
      /\ m.registrant = Or(override.registrant, Nil, base.registrant)
      /\ m["domain"] = m.domain /\ m["registrar"] = m.registrar /\ m["registrant"] = m.registrant
  BY DEF MergeWhoisInfo
<1>2. /\ MergedDomain(m.domain, override.domain) = m.domain
      /\ m.domain = Nil <=> base.domain = Nil /\ override.domain = Nil
  <2>1. CASE override.domain = Nil \/ base.domain = Nil
    <3>1. m.domain = override.domain \/ override.domain = Nil
      BY <1>1, <2>1 DEF MergedDomain
    <3>2. CASE override.domain = Nil
      BY <1>1, <3>2 DEF MergedDomain
    <3>3. CASE override.domain # Nil
      <4>1. m.domain = override.domain /\ override.domain \in DomainInfo
        BY <3>1, <3>3, SectionsOfRecord
      <4>2. MergedDomain(override.domain, override.domain) = override.domain
        BY <3>3, <4>1 DEF MergedDomain, Or, DomainInfo
      <4> QED  BY <3>3, <4>1, <4>2
    <3> QED  BY <3>2, <3>3
  <2>2. CASE override.domain # Nil /\ base.domain # Nil
    <3> DEFINE b == base.domain
               o == override.domain
    <3>1. b \in DomainInfo /\ o \in DomainInfo
      BY <2>2, SectionsOfRecord
    <3>2. m.domain = [id |-> b.id, created |-> b.created, updated |-> Or(o.updated, "", b.updated),
                      status |-> Or(o.status, {}, b.status), servers |-> Or(o.servers, {}, b.servers)]
      BY <1>1, <2>2, <3>1 DEF MergedDomain, DomainInfo
    <3>3. m.domain \in DomainInfo
      <4>1. /\ b.id \in Shows /\ b.created \in Shows /\ Or(o.updated, "", b.updated) \in Shows
            /\ Or(o.status, {}, b.status) \in SUBSET {"ok"}
            /\ Or(o.servers, {}, b.servers) \in SUBSET {"ns", "NS"}
        BY <3>1 DEF DomainInfo, Or
      <4>2. [id |-> b.id, created |-> b.created, updated |-> Or(o.updated, "", b.updated),
             status |-> Or(o.status, {}, b.status), servers |-> Or(o.servers, {}, b.servers)] \in DomainInfo
        BY <4>1 DEF DomainInfo
      <4> QED  BY <3>2, <4>2
    <3>4. m.domain # Nil
      BY <3>3, NilAssumption
    <3>5. MergedDomain(m.domain, o) = m.domain
      <4> DEFINE d == [id |-> b.id, created |-> b.created, updated |-> Or(o.updated, "", b.updated),
                       status |-> Or(o.status, {}, b.status), servers |-> Or(o.servers, {}, b.servers)]
      <4>1. MergedDomain(d, o) = [d EXCEPT !.status = Or(o.status, {}, @), !.servers = Or(o.servers, {}, @),
                                           !.updated = Or(o.updated, "", @)]
        BY <2>2, <3>2, <3>4 DEF MergedDomain
      <4>2. /\ Or(o.status, {}, Or(o.status, {}, b.status)) = Or(o.status, {}, b.status)
            /\ Or(o.servers, {}, Or(o.servers, {}, b.servers)) = Or(o.servers, {}, b.servers)
            /\ Or(o.updated, "", Or(o.updated, "", b.updated)) = Or(o.updated, "", b.updated)
        BY DEF Or
      <4>3. MergedDomain(d, o) = d
        BY <4>1, <4>2
      <4> QED  BY <3>2, <4>3
    <3> QED  BY <2>2, <3>4, <3>5
  <2> QED  BY <2>1, <2>2
<1>3. /\ Or(override.registrar, Nil, m.registrar) = m.registrar
      /\ m.registrar = Nil <=> base.registrar = Nil /\ override.registrar = Nil
      /\ Or(override.registrant, Nil, m.registrant) = m.registrant
      /\ m.registrant = Nil <=> base.registrant = Nil /\ override.registrant = Nil
  BY <1>1 DEF Or
<1>4. MergeWhoisInfo(m, override) = m
  <2>1. m = [domain |-> m.domain, registrar |-> m.registrar, registrant |-> m.registrant]
    BY DEF MergeWhoisInfo
  <2> QED  BY <1>2, <1>3, <2>1 DEF MergeWhoisInfo
<1>5. \A s \in RecordSections : m[s] = Nil <=> base[s] = Nil /\ override[s] = Nil
  BY <1>1, <1>2, <1>3, SectionsOfRecord DEF RecordSections
<1> QED  BY <1>4, <1>5

(* Division by a positive number keeps the order.                           *)
LEMMA DivisionKeepsOrder ==
  ASSUME NEW a \in Nat, NEW b \in Nat, NEW n \in Nat, n # 0, a <= b
  PROVE  a \div n \in Nat /\ b \div n \in Nat /\ a \div n <= b \div n
OBVIOUS

(* More fields make a record no less complete.                              *)
LEMMA MoreIsComplete ==
  ASSUME NEW p, NEW q, p \subseteq q
  PROVE  Achieved(p) \in Nat /\ Achieved(q) \in Nat /\ Achieved(p) <= Achieved(q)
<1>1. ASSUME NEW f \in {"domain", "created", "updated", "status", "servers", "registrar", "registrant"}
      PROVE  /\ WeightOf(f, p) \in Nat /\ WeightOf(f, q) \in Nat
             /\ WeightOf(f, p) <= WeightOf(f, q)
  BY DEF WeightOf, Weight
<1> QED  BY <1>1 DEF Achieved

(* A record that shows more, with nothing hidden or made up, scores no less. *)
LEMMA MoreScoresMore ==
  ASSUME NEW old \in WhoisInfo, NEW new \in WhoisInfo, Present(old) \subseteq Present(new),
         ~Named(new, "private"), ~Named(new, "n/a")
  PROVE  AssessQuality(old) <= AssessQuality(new)
<1>1. /\ Completeness(old) \in Nat /\ Completeness(new) \in Nat
      /\ Completeness(old) <= Completeness(new)
  <2>1. /\ Achieved(Present(old)) \in Nat /\ Achieved(Present(new)) \in Nat
        /\ Achieved(Present(old)) <= Achieved(Present(new))
    BY MoreIsComplete
  <2> DEFINE a == Achieved(Present(old)) * 100
             b == Achieved(Present(new)) * 100
  <2>2. a \in Nat /\ b \in Nat /\ a <= b
    BY <2>1
  <2> HIDE DEF a, b
  <2>3. a \div 99 \in Nat /\ b \div 99 \in Nat /\ a \div 99 <= b \div 99
    BY <2>2, DivisionKeepsOrder
  <2> QED  BY <2>3 DEF Completeness, a, b
<1>2. /\ Timeliness(old) \in Nat /\ Timeliness(new) \in Nat
      /\ Timeliness(old) <= Timeliness(new)
  <2>1. Timeliness(old) \in Nat /\ Timeliness(new) \in Nat
    BY DEF Timeliness
  <2>2. CASE old.domain = Nil
    BY <2>1, <2>2 DEF Timeliness
  <2>3. CASE old.domain # Nil
    <3>1. ASSUME NEW r \in WhoisInfo
          PROVE  /\ "domain" \in Present(r) <=> r.domain # Nil
                 /\ "created" \in Present(r) <=> r.domain # Nil /\ r.domain.created # ""
                 /\ "updated" \in Present(r) <=> r.domain # Nil /\ r.domain.updated # ""
      BY SectionsOfRecord DEF Present, DomainInfo
    <3>2. /\ new.domain # Nil
          /\ old.domain.created # "" => new.domain.created # ""
          /\ old.domain.updated # "" => new.domain.updated # ""
      BY <2>3, <3>1
    <3>3. CASE old.domain.created = ""
      <4>1. Timeliness(old) = 50 /\ (Timeliness(new) = 50 \/ Timeliness(new) = 70 \/ Timeliness(new) = 90)
        BY <2>3, <3>2, <3>3 DEF Timeliness
      <4> QED  BY <2>1, <4>1
    <3>4. CASE old.domain.created # "" /\ old.domain.updated = ""
      <4>1. Timeliness(old) = 70 /\ (Timeliness(new) = 70 \/ Timeliness(new) = 90)
        BY <2>3, <3>2, <3>4 DEF Timeliness
      <4> QED  BY <2>1, <4>1
    <3>5. CASE old.domain.created # "" /\ old.domain.updated # ""
      <4>1. Timeliness(old) = 90 /\ Timeliness(new) = 90
        BY <2>3, <3>2, <3>5 DEF Timeliness
      <4> QED  BY <2>1, <4>1
    <3> QED  BY <3>3, <3>4, <3>5
  <2> QED  BY <2>2, <2>3
<1>3. /\ Reliability(old) \in Nat /\ Reliability(new) \in Nat
      /\ Reliability(old) <= Reliability(new)
  BY DEF Reliability
<1> DEFINE a == Completeness(old) + Timeliness(old) + Reliability(old)
           b == Completeness(new) + Timeliness(new) + Reliability(new)
<1>4. a \in Nat /\ b \in Nat /\ a <= b
  BY <1>1, <1>2, <1>3
<1> HIDE DEF a, b
<1>5. a \div 3 <= b \div 3
  BY <1>4, DivisionKeepsOrder
<1> QED  BY <1>5 DEF AssessQuality, a, b

LEMMA RecordsTyped == RecordsSpec => []RecordsTypeOK
<1>1. RecordsInit => RecordsTypeOK
  BY DEF RecordsInit, RecordsTypeOK, Empty, WhoisInfo
<1>2. RecordsTypeOK /\ [RecordsNext]_compared => RecordsTypeOK'
  <2> SUFFICES ASSUME RecordsTypeOK, [RecordsNext]_compared
               PROVE  RecordsTypeOK'
    OBVIOUS
  <2>1. CASE Evolve
    <3>1. CASE EvolveDomain
      <4>1. ASSUME NEW d \in DomainInfo \cup {Nil}, live' = [live EXCEPT !.domain = d]
            PROVE  live' \in WhoisInfo
        BY <4>1 DEF RecordsTypeOK, WhoisInfo
      <4>2. live.domain # Nil => live.domain \in DomainInfo
        BY SectionsOfRecord DEF RecordsTypeOK
      <4>3. ASSUME live' = [live EXCEPT !.domain = IF @ = Nil THEN Blank ELSE Nil]
            PROVE  live' \in WhoisInfo
        <5> DEFINE d == IF live.domain = Nil THEN Blank ELSE Nil
        <5>1. Blank \in DomainInfo BY DEF Blank, DomainInfo, Shows
        <5>2. d \in DomainInfo \cup {Nil} BY <5>1
        <5>3. live' = [live EXCEPT !.domain = d] BY <4>3
        <5> HIDE DEF d
        <5> QED BY <4>1, <5>2, <5>3
      <4>4. ASSUME live.domain # Nil, NEW f \in DomainTexts, NEW v \in Shows,
                   live' = [live EXCEPT !.domain[f] = v]
            PROVE  live' \in WhoisInfo
        <5>1. [live.domain EXCEPT ![f] = v] \in DomainInfo
          BY <4>2, <4>4 DEF DomainInfo, DomainTexts
        <5>2. live' = [live EXCEPT !.domain = [live.domain EXCEPT ![f] = v]]
          BY <4>4
        <5> QED BY <4>1, <5>1, <5>2
      <4>5. ASSUME live.domain # Nil, NEW list \in SUBSET {"ok"},
                   live' = [live EXCEPT !.domain.status = list]
            PROVE  live' \in WhoisInfo
        <5>1. [live.domain EXCEPT !.status = list] \in DomainInfo BY <4>2, <4>5 DEF DomainInfo
        <5> QED BY <4>1, <4>5, <5>1
      <4>6. ASSUME live.domain # Nil, NEW list \in {{}, {"ns"}, {"NS"}},
                   live' = [live EXCEPT !.domain.servers = list]
            PROVE  live' \in WhoisInfo
        <5>1. [live.domain EXCEPT !.servers = list] \in DomainInfo BY <4>2, <4>6 DEF DomainInfo
        <5> QED BY <4>1, <4>6, <5>1
      <4> QED BY <2>1, <3>1, <4>3, <4>4, <4>5, <4>6 DEF EvolveDomain, Evolve, RecordsTypeOK
    <3>2. CASE ~EvolveDomain BY <2>1, <3>2 DEF RecordsTypeOK, Evolve, WhoisInfo
    <3> QED BY <3>1, <3>2
  <2>2. CASE Save
    BY <2>2 DEF RecordsTypeOK, Save
  <2>3. CASE UNCHANGED compared
    BY <2>3 DEF RecordsTypeOK, compared
  <2> QED  BY <2>1, <2>2, <2>3 DEF RecordsNext
<1> QED  BY <1>1, <1>2, PTL DEF RecordsSpec

LEMMA TypedCompared == RecordsTypeOK => RecordsCompared
<1> SUFFICES ASSUME RecordsTypeOK
             PROVE  RecordsCompared
  OBVIOUS
<1>1. live \in WhoisInfo /\ (saved = Nil \/ saved \in WhoisInfo)
  BY DEF RecordsTypeOK
<1>2. CASE saved = Nil
  <2>1. live # Nil
    BY <1>1, SectionsOfRecord
  <2>2. /\ CompareWhois(saved, live) = {FieldChange("added", <<".">>)}
        /\ CompareWhois(live, saved) = {FieldChange("removed", <<".">>)}
    BY <1>2, <2>1 DEF CompareWhois
  <2>3. WhoisView(saved) # WhoisView(live)
    <3>1. WhoisView(saved) = Nil BY <1>2 DEF WhoisView, WithDomain
    <3>2. WhoisView(live) \in WhoisInfo BY <1>1, Views
    <3> QED BY <3>1, <3>2, SectionsOfRecord
  <2>4. DiffsAgree
    BY <1>2, <2>1, <2>2, <2>3, TurnedRound DEF DiffsAgree
  <2> QED  BY <1>2, <2>4 DEF RecordsCompared, MergeSettles, ScoreGrows
<1>3. CASE saved \in WhoisInfo
  <2>2. DiffsAgree
    BY <1>1, <1>3, BlindSpots, StatusMissed, ChangesTurn DEF DiffsAgree
  <2>3. MergeSettles
    BY <1>1, <1>3, MergedOnce DEF MergeSettles
  <2>4. ScoreGrows
    BY <1>1, <1>3, MoreScoresMore DEF ScoreGrows
  <2> QED  BY <2>2, <2>3, <2>4 DEF RecordsCompared
<1> QED  BY <1>1, <1>2, <1>3

(* diff.go, history.go, query.go and quality.go: of any two records.        *)
THEOREM RecordsCompare == RecordsSpec => []RecordsCompared
<1>1. RecordsTypeOK => RecordsCompared
  BY TypedCompared
<1> QED  BY <1>1, RecordsTyped, PTL

------------------------------------------------------------------------------
(***************************************************************************)
(* The collector and the performance monitor.                              *)
(***************************************************************************)
(* What holds between the steps of the collector and the monitor.  The      *)
(* averages need that the shortest duration is no more than the mean, the   *)
(* window that it is the end of all durations, place by place, and the      *)
(* exported document that its total was, and so still is, no more than what *)
(* is counted.                                                              *)
LeastBelowMean == \A a \in Accounts : truth[a].least * counts[a].n <= truth[a].sum

AveragesHeld ==
  \A a \in Accounts :
    /\ counts[a].avg * counts[a].n <= truth[a].sum
    /\ counts[a].n > 0 => truth[a].least <= counts[a].avg

WindowKept ==
  LET n == Len(durations)  k == Len(recent) IN
  /\ k = IF n < WindowSize THEN n ELSE WindowSize
  /\ \A i \in 1 .. k : recent[i] = durations[n - k + i]

AddUp == \A b \in Books : outcomes[b][TRUE] + outcomes[b][FALSE] = counts[<<b, "all">>].n

TotalBehind ==
  /\ export.pc \in {"gathered", "marshalling"} => export.total <= counts[<<"api", "all">>].n
  /\ export.pc = "written" => export.total <= export.codes

MetricsInv ==
  MetricsTypeOK /\ LeastBelowMean /\ AveragesHeld /\ WindowKept /\ AddUp /\ TotalBehind

(* Of an average, and of products: the facts about numbers.                 *)
LEMMA Quotient ==
  ASSUME NEW a \in Nat, NEW n \in Nat, n # 0
  PROVE  /\ a \div n \in Nat /\ (a \div n) * n <= a
         /\ \A l \in Nat : l * n <= a => l <= a \div n
OBVIOUS

LEMMA Products ==
  ASSUME NEW a \in Nat, NEW b \in Nat, NEW n \in Nat
  PROVE  a * n \in Nat /\ a * (n + 1) = a * n + a /\ (a <= b => a * n <= b * n)
OBVIOUS

LEMMA AveragedFrom ==
  ASSUME NEW mean \in Nat, NEW m \in Nat, NEW ms
  PROVE  Averaged(mean, m + 1, ms) = (mean * m + ms) \div (m + 1)
<1> DEFINE k == m + 1
<1>1. k - 1 = m
  OBVIOUS
<1> HIDE DEF k
<1>2. Averaged(mean, k, ms) = (mean * (k - 1) + ms) \div k
  BY DEF Averaged
<1>3. Averaged(mean, k, ms) = (mean * m + ms) \div k
  BY <1>1, <1>2
<1> QED  BY <1>3 DEF k

(* One more duration keeps an average between the shortest and the mean,    *)
(* whether it is divided from the sum or averaged from the average.         *)
LEMMA AverageKeeps ==
  ASSUME NEW n \in Nat, NEW avg \in Nat, NEW least \in Nat, NEW sum \in Nat, NEW ms \in Nat,
         NEW low \in Nat, low = IF n = 0 \/ ms < least THEN ms ELSE least,
         avg * n <= sum, least * n <= sum, n > 0 => least <= avg,
         NEW of \in Nat, of = sum + ms \/ of = avg * n + ms
  PROVE  /\ of \div (n + 1) \in Nat
         /\ (of \div (n + 1)) * (n + 1) <= sum + ms
         /\ low <= of \div (n + 1)
         /\ low * (n + 1) <= sum + ms
<1>1. low * n <= avg * n /\ low * n <= sum
  <2>1. CASE n = 0
    BY <2>1
  <2>2. CASE n # 0
    <3>1. low <= least /\ low <= avg
      BY <2>2
    <3>2. low * n <= least * n /\ low * n <= avg * n
      BY <3>1, Products
    <3>3. low * n \in Nat /\ least * n \in Nat
      BY Products
    <3> QED  BY <3>2, <3>3
  <2> QED  BY <2>1, <2>2
<1>2. low <= ms /\ low * (n + 1) = low * n + low
  BY Products
<1>3. low * n \in Nat /\ avg * n \in Nat
  BY Products
<1>4. low * (n + 1) <= of /\ low * (n + 1) <= sum + ms /\ of <= sum + ms
  BY <1>1, <1>2, <1>3
<1>5. /\ of \div (n + 1) \in Nat /\ (of \div (n + 1)) * (n + 1) <= of
      /\ low <= of \div (n + 1)
  <2>1. n + 1 \in Nat /\ n + 1 # 0
    OBVIOUS
  <2> DEFINE m == n + 1
  <2>2. m \in Nat /\ m # 0 /\ low * m <= of
    BY <1>4, <2>1
  <2> HIDE DEF m
  <2>3. of \div m \in Nat /\ (of \div m) * m <= of /\ low <= of \div m
    BY <2>2, Quotient
  <2> QED  BY <2>3 DEF m
<1>6. (of \div (n + 1)) * (n + 1) \in Nat
  BY <1>5, Products
<1> QED  BY <1>4, <1>5, <1>6
-----------------------------------------------------------------------------
(* The least of a set of numbers.                                           *)
LEMMA LeastNumber ==
  ASSUME NEW S \in SUBSET Nat, S # {}
  PROVE  \E m \in S : \A x \in S : m <= x
<1>1. \E m \in S : \A x \in S : <<x, m>> \notin OpToRel(<, Nat)
  BY WFMin, NatLessThanWellFounded
<1>2. \A x, m \in Nat : <<x, m>> \notin OpToRel(<, Nat) => m <= x
  BY DEF OpToRel
<1> QED  BY <1>1, <1>2

(* The highest of some numbers of a sequence: the one that the fewest are   *)
(* above.                                                                   *)
LEMMA HighestOfSome ==
  ASSUME NEW s \in Seq(Nat), NEW I \in SUBSET (1 .. Len(s)), I # {}
  PROVE  \E i \in I : \A j \in I : s[j] <= s[i]
<1> DEFINE above(i) == {j \in I : s[j] > s[i]}
           M == {Cardinality(above(i)) : i \in I}
<1>1. \A j \in I : s[j] \in Nat
  BY ElementOfSeq
<1>2. IsFiniteSet(I)
  <2>1. Len(s) \in Int
    OBVIOUS
  <2>2. IsFiniteSet(1 .. Len(s))
    BY <2>1, FS_Interval
  <2> QED  BY <2>2, FS_Subset
<1>3. \A i \in I : IsFiniteSet(above(i)) /\ Cardinality(above(i)) \in Nat
  <2> TAKE i \in I
  <2>1. above(i) \in SUBSET I
    OBVIOUS
  <2> HIDE DEF above
  <2> QED  BY <1>2, <2>1, FS_Subset, FS_CardinalityType
<1>4. PICK i \in I : \A x \in I : Cardinality(above(i)) <= Cardinality(above(x))
  <2>1. M \in SUBSET Nat /\ M # {}
    BY <1>3
  <2>2. PICK m \in M : \A x \in M : m <= x
    <3> HIDE DEF M
    <3> QED  BY <2>1, LeastNumber
  <2>3. PICK i \in I : m = Cardinality(above(i))
    OBVIOUS
  <2>4. \A x \in I : Cardinality(above(x)) \in M
    OBVIOUS
  <2> HIDE DEF M, above
  <2> QED  BY <2>2, <2>3, <2>4
<1>5. ASSUME NEW j \in I, ~(s[j] <= s[i])
      PROVE  FALSE
  <2>1. s[i] < s[j]
    BY <1>1, <1>5
  <2>2. above(j) \in SUBSET above(i) /\ j \in above(i) /\ j \notin above(j)
    <3>1. s[i] \in Nat /\ s[j] \in Nat
      BY <1>1
    <3>2. j \in above(i) /\ j \notin above(j)
      BY <2>1, <3>1
    <3>3. ASSUME NEW x \in above(j)
          PROVE  x \in above(i)
      <4>1. x \in I /\ s[x] > s[j] /\ s[x] \in Nat
        BY <1>1
      <4> QED  BY <2>1, <3>1, <4>1
    <3> QED  BY <3>2, <3>3
  <2>3. Cardinality(above(i)) <= Cardinality(above(j))
    BY <1>4
  <2> HIDE DEF above
  <2>4. Cardinality(above(j)) <= Cardinality(above(i)) /\ (Cardinality(above(i)) = Cardinality(above(j)) => above(i) = above(j))
    BY <1>3, <2>2, FS_Subset
  <2>5. Cardinality(above(i)) = Cardinality(above(j))
    BY <1>3, <2>3, <2>4
  <2> QED  BY <2>2, <2>4, <2>5
<1> QED  BY <1>5

(* How many of the window are below a duration, or no higher.               *)
LEMMA Ranks ==
  ASSUME recent \in Seq(Durations)
  PROVE  /\ \A i \in 1 .. Len(recent) : recent[i] \in Durations /\ recent[i] \in Nat
         /\ recent \in Seq(Nat) /\ Len(recent) \in Nat
         /\ \A d : Below(d) \in Nat /\ NotAbove(d) \in Nat
         /\ \A d : (\A i \in 1 .. Len(recent) : recent[i] <= d) => NotAbove(d) = Len(recent)
         /\ \A d : (\A i \in 1 .. Len(recent) : recent[i] < d) => Below(d) = Len(recent)
         /\ \A d, e : (\A i \in 1 .. Len(recent) : recent[i] < d => recent[i] <= e) => Below(d) <= NotAbove(e)
         /\ \A d : Below(d) # 0 => \E i \in 1 .. Len(recent) : recent[i] < d
<1>0. Durations \subseteq Nat
  BY MetricsAssumption
<1>1. DOMAIN recent = 1 .. Len(recent) /\ Len(recent) \in Nat /\ recent \in Seq(Nat)
      /\ \A i \in 1 .. Len(recent) : recent[i] \in Durations /\ recent[i] \in Nat
  <2>1. \A i \in 1 .. Len(recent) : recent[i] \in Durations /\ recent[i] \in Nat
    BY <1>0, ElementOfSeq
  <2> QED  BY <1>0, <2>1
<1>2. /\ IsFiniteSet(DOMAIN recent) /\ Cardinality(DOMAIN recent) = Len(recent)
  <2>1. IsFiniteSet(1 .. Len(recent)) /\ Cardinality(1 .. Len(recent)) = Len(recent)
    <3> DEFINE n == Len(recent)
    <3>1. n \in Nat
      BY <1>1
    <3> HIDE DEF n
    <3>2. IsFiniteSet(1 .. n) /\ Cardinality(1 .. n) = IF 1 > n THEN 0 ELSE n - 1 + 1
      BY <3>1, FS_Interval
    <3>3. Cardinality(1 .. n) = n
      BY <3>1, <3>2
    <3> QED  BY <3>2, <3>3 DEF n
  <2> QED  BY <1>1, <2>1
<1> DEFINE low(d) == {i \in DOMAIN recent : recent[i] < d}
           upto(d) == {i \in DOMAIN recent : recent[i] <= d}
<1>3. ASSUME NEW d
      PROVE  /\ IsFiniteSet(low(d)) /\ IsFiniteSet(upto(d))
             /\ Below(d) = Cardinality(low(d)) /\ NotAbove(d) = Cardinality(upto(d))
             /\ Below(d) \in Nat /\ NotAbove(d) \in Nat
  <2>1. low(d) \in SUBSET DOMAIN recent /\ upto(d) \in SUBSET DOMAIN recent
    OBVIOUS
  <2>2. Below(d) = Cardinality(low(d)) /\ NotAbove(d) = Cardinality(upto(d))
    BY DEF Below, NotAbove
  <2> HIDE DEF low, upto
  <2> QED  BY <1>2, <2>1, <2>2, FS_Subset, FS_CardinalityType
<1>4. ASSUME NEW d, \A i \in 1 .. Len(recent) : recent[i] <= d
      PROVE  NotAbove(d) = Len(recent)
  <2>1. upto(d) = DOMAIN recent
    BY <1>1, <1>4
  <2> QED  BY <1>2, <1>3, <2>1
<1>5. ASSUME NEW d, \A i \in 1 .. Len(recent) : recent[i] < d
      PROVE  Below(d) = Len(recent)
  <2>1. low(d) = DOMAIN recent
    BY <1>1, <1>5
  <2> QED  BY <1>2, <1>3, <2>1
<1>6. ASSUME NEW d, NEW e, \A i \in 1 .. Len(recent) : recent[i] < d => recent[i] <= e
      PROVE  Below(d) <= NotAbove(e)
  <2>1. low(d) \in SUBSET upto(e)
    BY <1>1, <1>6
  <2> HIDE DEF low, upto
  <2> QED  BY <1>3, <2>1, FS_Subset
<1>7. ASSUME NEW d, Below(d) # 0
      PROVE  \E i \in 1 .. Len(recent) : recent[i] < d
  <2>1. low(d) # {}
    <3> HIDE DEF low
    <3> QED  BY <1>3, <1>7, FS_EmptySet
  <2> QED  BY <1>1, <2>1
<1> QED  BY <1>1, <1>3, <1>4, <1>5, <1>6, <1>7

(* percentile: whatever its place, there is a duration that stands there.   *)
LEMMA PercentileExists ==
  ASSUME recent \in Seq(Durations), NEW index \in 0 .. Len(recent) - 1
  PROVE  \E d \in Durations : Below(d) <= index /\ index < NotAbove(d)
<1> DEFINE places == {i \in 1 .. Len(recent) : index < NotAbove(recent[i])}
           good == {recent[i] : i \in places}
<1>1. Len(recent) \in Nat /\ index \in Nat /\ index < Len(recent)
  BY Ranks
<1>2. good \in SUBSET Nat /\ good # {}
  <2>1. PICK i \in 1 .. Len(recent) : \A j \in 1 .. Len(recent) : recent[j] <= recent[i]
    <3>1. 1 .. Len(recent) # {}
      BY <1>1
    <3> QED  BY <3>1, Ranks, HighestOfSome
  <2>2. NotAbove(recent[i]) = Len(recent)
    BY <2>1, Ranks
  <2>3. i \in places
    BY <1>1, <2>2
  <2> QED  BY <2>3, Ranks
<1>3. PICK m \in good : \A x \in good : m <= x
  <2> HIDE DEF good
  <2> QED  BY <1>2, LeastNumber
<1>4. m \in Durations /\ m \in Nat /\ index < NotAbove(m)
  BY Ranks
<1>5. ASSUME ~(Below(m) <= index)
      PROVE  FALSE
  <2> DEFINE I == {i \in 1 .. Len(recent) : recent[i] < m}
  <2>1. Below(m) # 0 /\ Below(m) \in Nat /\ index < Below(m)
    BY <1>1, <1>5, Ranks
  <2>2. I # {}
    BY <2>1, Ranks
  <2>3. PICK e \in I : \A j \in I : recent[j] <= recent[e]
    BY <2>2, Ranks, HighestOfSome
  <2>4. Below(m) <= NotAbove(recent[e])
    BY <2>3, Ranks
  <2>5. NotAbove(recent[e]) \in Nat
    BY Ranks
  <2>6. recent[e] \in good
    BY <1>1, <2>1, <2>4, <2>5
  <2>7. m <= recent[e] /\ recent[e] < m /\ recent[e] \in Nat
    BY <1>3, <2>6, Ranks
  <2> QED  BY <1>4, <2>7
<1> QED  BY <1>4, <1>5

(* The places of the percentiles that GetStats asks for are in order.       *)
LEMMA PlacesInOrder ==
  ASSUME NEW k \in Nat \ {0}
  PROVE  /\ ((k - 1) * 90) \div 100 \in 0 .. k - 1
         /\ ((k - 1) * 95) \div 100 \in 0 .. k - 1
         /\ ((k - 1) * 99) \div 100 \in 0 .. k - 1
         /\ ((k - 1) * 90) \div 100 <= ((k - 1) * 95) \div 100
         /\ ((k - 1) * 95) \div 100 <= ((k - 1) * 99) \div 100
OBVIOUS

LEMMA PercentilesInOrder ==
  ASSUME recent \in Seq(Durations), recent # <<>>
  PROVE  /\ Percentile(90) <= Percentile(95) /\ Percentile(95) <= Percentile(99)
         /\ \E i \in 1 .. Len(recent) : Percentile(99) <= recent[i]
<1> DEFINE k == Len(recent)
           index(p) == ((k - 1) * p) \div 100
           Stands(d, x) == d \in Durations /\ Below(d) <= x /\ x < NotAbove(d)
<1>0. Durations \subseteq Nat
  BY MetricsAssumption
<1>1. k \in Nat \ {0}
  BY Ranks
<1>2. /\ index(90) \in 0 .. k - 1 /\ index(95) \in 0 .. k - 1 /\ index(99) \in 0 .. k - 1
      /\ index(90) <= index(95) /\ index(95) <= index(99)
  <2> HIDE DEF k
  <2> QED  BY <1>1, PlacesInOrder
<1>3. ASSUME NEW p, index(p) \in 0 .. k - 1
      PROVE  Stands(Percentile(p), index(p))
  <2>1. \E d \in Durations : Below(d) <= index(p) /\ index(p) < NotAbove(d)
    <3> HIDE DEF index
    <3> QED  BY <1>3, PercentileExists
  <2>2. Percentile(p) = CHOOSE d \in Durations : Below(d) <= index(p) /\ index(p) < NotAbove(d)
    BY DEF Percentile
  <2> HIDE DEF index
  <2> QED  BY <2>1, <2>2
<1>4. ASSUME NEW d, NEW e, NEW x \in Nat, NEW y \in Nat, x <= y, Stands(d, x), Stands(e, y)
      PROVE  d <= e
  <2>1. d \in Nat /\ e \in Nat
    BY <1>0, <1>4
  <2>2. CASE e < d
    <3>1. NotAbove(e) <= Below(d)
      <4> DEFINE upto == {i \in DOMAIN recent : recent[i] <= e}
                 low == {i \in DOMAIN recent : recent[i] < d}
      <4>1. DOMAIN recent = 1 .. k /\ IsFiniteSet(DOMAIN recent)
        BY <1>1, FS_Interval
      <4>2. upto \in SUBSET low /\ low \in SUBSET DOMAIN recent
        BY <2>1, <2>2, <4>1, Ranks
      <4>3. NotAbove(e) = Cardinality(upto) /\ Below(d) = Cardinality(low)
        BY DEF NotAbove, Below
      <4> HIDE DEF upto, low
      <4> QED  BY <4>1, <4>2, <4>3, FS_Subset
    <3>2. NotAbove(e) \in Nat /\ Below(d) \in Nat
      BY Ranks
    <3> QED  BY <1>4, <3>1, <3>2
  <2> QED  BY <2>1, <2>2
<1>5. \A p : index(p) \in 0 .. k - 1 => index(p) \in Nat
  BY <1>1
<1>6. Percentile(90) <= Percentile(95) /\ Percentile(95) <= Percentile(99)
  <2> HIDE DEF Stands, index
  <2> QED  BY <1>2, <1>3, <1>4, <1>5
<1>7. ASSUME \A i \in 1 .. k : ~(Percentile(99) <= recent[i])
      PROVE  FALSE
  <2>1. Stands(Percentile(99), index(99))
    <3> HIDE DEF Stands, index
    <3> QED  BY <1>2, <1>3
  <2>2. Percentile(99) \in Nat
    BY <1>0, <2>1
  <2>3. \A i \in 1 .. k : recent[i] < Percentile(99)
    BY <1>7, <2>2, Ranks
  <2>4. Below(Percentile(99)) = k
    BY <2>3, Ranks
  <2> HIDE DEF index
  <2> QED  BY <1>1, <1>2, <2>1, <2>4
<1> QED  BY <1>6, <1>7
-----------------------------------------------------------------------------
(* The counts of every account, and of the durations, have their types.     *)
LEMMA MetricsTypes ==
  ASSUME MetricsTypeOK
  PROVE  /\ \A a \in Accounts : /\ counts[a].n \in Nat /\ counts[a].avg \in Nat
                              /\ truth[a].least \in Nat /\ truth[a].sum \in Nat
         /\ \A b \in Books : /\ outcomes[b] \in [BOOLEAN -> Nat]
                           /\ outcomes[b][TRUE] \in Nat /\ outcomes[b][FALSE] \in Nat
                           /\ <<b, "all">> \in Accounts
         /\ \A b \in {"api", "whois"} : extremes[b].least \in Nat /\ extremes[b].most \in Nat
         /\ export.total \in Nat /\ export.codes \in Nat /\ Len(durations) \in Nat /\ Len(recent) \in Nat
<1>1. \A a \in Accounts : /\ counts[a].n \in Nat /\ counts[a].avg \in Nat
                         /\ truth[a].least \in Nat /\ truth[a].sum \in Nat
  BY DEF MetricsTypeOK
<1>2. \A b \in Books : /\ outcomes[b] \in [BOOLEAN -> Nat] /\ <<b, "all">> \in Accounts
  BY DEF MetricsTypeOK, Accounts
<1>3. \A f \in [BOOLEAN -> Nat] : f[TRUE] \in Nat /\ f[FALSE] \in Nat
  OBVIOUS
<1>4. \A b \in {"api", "whois"} : extremes[b].least \in Nat /\ extremes[b].most \in Nat
  BY DEF MetricsTypeOK
<1>5. export.total \in Nat /\ export.codes \in Nat /\ Len(durations) \in Nat /\ Len(recent) \in Nat
  BY DEF MetricsTypeOK
<1> QED  BY <1>1, <1>2, <1>3, <1>4, <1>5

LEMMA MetricsBegin == MetricsInit => MetricsInv
<1> SUFFICES ASSUME MetricsInit
             PROVE  MetricsInv
  OBVIOUS
<1>1. WindowSize \in Nat \ {0}
  BY MetricsAssumption
<1>2. MetricsTypeOK
  BY DEF MetricsInit, MetricsTypeOK, NoExport
<1>3. /\ LeastBelowMean /\ AveragesHeld
  BY DEF MetricsInit, LeastBelowMean, AveragesHeld
<1>4. WindowKept
  BY <1>1 DEF MetricsInit, WindowKept
<1>5. AddUp
  BY DEF MetricsInit, AddUp, Accounts
<1>6. TotalBehind
  BY DEF MetricsInit, TotalBehind, NoExport
<1> QED  BY <1>2, <1>3, <1>4, <1>5, <1>6 DEF MetricsInv

LEMMA OneMoreOf ==
  ASSUME NEW x \in Nat, NEW y \in Nat
  PROVE  (x + 1) + y = x + y + 1 /\ x + (y + 1) = x + y + 1 /\ x + y = x + y + 0
OBVIOUS

(* What the three ways to record share: the counts and their averages.      *)
LEMMA EnterKeeps ==
  ASSUME MetricsInv, NEW b \in Books, NEW g \in Groups, NEW ok \in BOOLEAN, NEW ms \in Durations,
         Enter(b, g, ok, ms)
  PROVE  /\ counts' \in [Accounts -> [n : Nat, avg : Nat]]
         /\ truth' \in [Accounts -> [least : Nat, sum : Nat]]
         /\ outcomes' \in [Books -> [BOOLEAN -> Nat]]
         /\ LeastBelowMean' /\ AveragesHeld' /\ AddUp'
         /\ counts'[<<"api", "all">>].n =
              counts[<<"api", "all">>].n + (IF b = "api" THEN 1 ELSE 0)
<1> DEFINE of == {<<b, g>>, <<b, "all">>}
<1>0. MetricsTypeOK /\ LeastBelowMean /\ AveragesHeld /\ AddUp
  BY DEF MetricsInv
<1>1. of \subseteq Accounts /\ ms \in Nat
  BY MetricsAssumption DEF Accounts
<1>2. /\ counts' = [a \in Accounts |->
           IF a \in of THEN [n |-> counts[a].n + 1, avg |-> NewAverage(a, ms)] ELSE counts[a]]
      /\ truth' = [a \in Accounts |->
           IF a \in of THEN TruthWith(truth[a], counts[a].n, ms) ELSE truth[a]]
      /\ outcomes' = [outcomes EXCEPT ![b][ok] = @ + 1]
  BY DEF Enter
<1>3. ASSUME NEW a \in of
      PROVE  /\ counts'[a] = [n |-> counts[a].n + 1, avg |-> NewAverage(a, ms)]
             /\ truth'[a] = [least |-> IF counts[a].n = 0 \/ ms < truth[a].least THEN ms ELSE truth[a].least,
                            sum |-> truth[a].sum + ms]
             /\ NewAverage(a, ms) \in Nat
             /\ NewAverage(a, ms) * (counts[a].n + 1) <= truth[a].sum + ms
             /\ truth'[a].least <= NewAverage(a, ms) /\ truth'[a].least \in Nat
             /\ truth'[a].least * (counts[a].n + 1) <= truth[a].sum + ms
  <2> DEFINE m == counts[a].n
             mean == counts[a].avg
             least == truth[a].least
             sum == truth[a].sum
             low == IF m = 0 \/ ms < least THEN ms ELSE least
             share == IF a = <<"monitor", "all">> THEN sum + ms ELSE mean * m + ms
  <2>1. m \in Nat /\ mean \in Nat /\ least \in Nat /\ sum \in Nat
    BY <1>0, <1>1, MetricsTypes
  <2>2. mean * m <= sum /\ least * m <= sum /\ (m > 0 => least <= mean)
    BY <1>0, <1>1 DEF LeastBelowMean, AveragesHeld
  <2>3. NewAverage(a, ms) = share \div (m + 1)
    <3>3. CASE a = <<"monitor", "all">>
      <4>1. NewAverage(a, ms) = (sum + ms) \div (m + 1)
        BY <3>3 DEF NewAverage
      <4>2. share = sum + ms
        BY <3>3
      <4> QED  BY <4>1, <4>2, Zenon
    <3>4. CASE a # <<"monitor", "all">>
      <4>1. NewAverage(a, ms) = Averaged(mean, m + 1, ms)
        BY <3>4 DEF NewAverage
      <4>2. share = mean * m + ms
        BY <3>4
      <4> HIDE DEF share, m, mean
      <4>3. Averaged(mean, m + 1, ms) = (mean * m + ms) \div (m + 1)
        BY <2>1, AveragedFrom
      <4> QED  BY <4>1, <4>2, <4>3, Zenon
    <3> QED  BY <3>3, <3>4
  <2>4. /\ counts'[a] = [n |-> m + 1, avg |-> NewAverage(a, ms)]
        /\ truth'[a] = [least |-> low, sum |-> sum + ms]
    BY <1>1, <1>2 DEF TruthWith
  <2>5. truth'[a].least = low
    BY <2>4
  <2> HIDE DEF m, mean, least, sum
  <2>6. share \in Nat /\ (share = sum + ms \/ share = mean * m + ms) /\ low \in Nat
    <3>1. mean * m \in Nat
      BY <2>1, Products
    <3> QED  BY <1>1, <2>1, <3>1
  <2> DEFINE l == low
             o == share
  <2>7. l = (IF m = 0 \/ ms < least THEN ms ELSE least) /\ l \in Nat /\ o \in Nat
        /\ (o = sum + ms \/ o = mean * m + ms)
    BY <2>6
  <2> HIDE DEF low, share, l, o
  <2>8. /\ o \div (m + 1) \in Nat /\ (o \div (m + 1)) * (m + 1) <= sum + ms
        /\ l <= o \div (m + 1) /\ l * (m + 1) <= sum + ms
    BY <1>1, <2>1, <2>2, <2>7, AverageKeeps
  <2>9. l = low /\ o = share
    BY DEF l, o
  <2>10. /\ NewAverage(a, ms) \in Nat /\ NewAverage(a, ms) * (m + 1) <= sum + ms
         /\ truth'[a].least <= NewAverage(a, ms) /\ truth'[a].least \in Nat
         /\ truth'[a].least * (m + 1) <= sum + ms
    BY <2>3, <2>5, <2>7, <2>8, <2>9
  <2> QED  BY <2>4, <2>10 DEF m, mean, least, sum, low
<1>4. ASSUME NEW a \in Accounts, a \notin of
      PROVE  counts'[a] = counts[a] /\ truth'[a] = truth[a]
  BY <1>2, <1>4
<1> HIDE DEF of
<1>5. \A a \in Accounts : counts'[a] \in [n : Nat, avg : Nat] /\ truth'[a] \in [least : Nat, sum : Nat]
  <2> TAKE a \in Accounts
  <2>1. CASE a \in of
    <3>1. counts[a].n + 1 \in Nat /\ truth[a].sum + ms \in Nat /\ truth[a].least \in Nat
      <4>1. counts[a].n \in Nat /\ truth[a].sum \in Nat /\ truth[a].least \in Nat
        BY <1>0, MetricsTypes
      <4>2. \A x, y \in Nat : x + 1 \in Nat /\ x + y \in Nat
        OBVIOUS
      <4> QED  BY <1>1, <4>1, <4>2
    <3>2. (IF counts[a].n = 0 \/ ms < truth[a].least THEN ms ELSE truth[a].least) \in Nat
      BY <1>1, <3>1
    <3>3. \A x, y \in Nat : [n |-> x, avg |-> y] \in [n : Nat, avg : Nat]
                            /\ [least |-> x, sum |-> y] \in [least : Nat, sum : Nat]
      OBVIOUS
    <3>4. /\ counts'[a] = [n |-> counts[a].n + 1, avg |-> NewAverage(a, ms)]
          /\ truth'[a] = [least |-> IF counts[a].n = 0 \/ ms < truth[a].least THEN ms ELSE truth[a].least,
                         sum |-> truth[a].sum + ms]
          /\ NewAverage(a, ms) \in Nat
      BY <1>3, <2>1, Zenon
    <3> QED  BY <3>1, <3>2, <3>3, <3>4, Zenon
  <2>2. CASE a \notin of
    BY <1>0, <1>4, <2>2 DEF MetricsTypeOK
  <2> QED  BY <2>1, <2>2
<1>6. /\ counts' \in [Accounts -> [n : Nat, avg : Nat]]
      /\ truth' \in [Accounts -> [least : Nat, sum : Nat]]
  <2>1. DOMAIN counts' = Accounts /\ DOMAIN truth' = Accounts
        /\ counts' = [a \in Accounts |-> counts'[a]] /\ truth' = [a \in Accounts |-> truth'[a]]
    BY <1>2
  <2> QED  BY <1>5, <2>1
<1>7. outcomes' \in [Books -> [BOOLEAN -> Nat]]
      /\ \A c \in Books : outcomes'[c][TRUE] + outcomes'[c][FALSE] =
            outcomes[c][TRUE] + outcomes[c][FALSE] + (IF c = b THEN 1 ELSE 0)
  <2>0. outcomes \in [Books -> [BOOLEAN -> Nat]]
    BY <1>0 DEF MetricsTypeOK
  <2>1. outcomes[b] \in [BOOLEAN -> Nat]
    BY <2>0
  <2>2. outcomes' = [outcomes EXCEPT ![b] = [outcomes[b] EXCEPT ![ok] = outcomes[b][ok] + 1]]
    BY <1>2
  <2>3. [outcomes[b] EXCEPT ![ok] = outcomes[b][ok] + 1] \in [BOOLEAN -> Nat]
    BY <2>1
  <2>4. outcomes' \in [Books -> [BOOLEAN -> Nat]]
    BY <2>0, <2>2, <2>3
  <2>5. outcomes'[b] = [outcomes[b] EXCEPT ![ok] = outcomes[b][ok] + 1]
        /\ \A c \in Books : c # b => outcomes'[c] = outcomes[c]
    BY <2>0, <2>2
  <2>6. outcomes[b][TRUE] \in Nat /\ outcomes[b][FALSE] \in Nat
    BY <2>1
  <2>7. outcomes'[b][TRUE] + outcomes'[b][FALSE] = outcomes[b][TRUE] + outcomes[b][FALSE] + 1
    <3>1. CASE ok = TRUE
      <4>1. outcomes'[b][TRUE] = outcomes[b][TRUE] + 1 /\ outcomes'[b][FALSE] = outcomes[b][FALSE]
        BY <2>1, <2>5, <3>1
      <4> QED  BY <2>6, <4>1, OneMoreOf
    <3>2. CASE ok = FALSE
      <4>1. outcomes'[b][TRUE] = outcomes[b][TRUE] /\ outcomes'[b][FALSE] = outcomes[b][FALSE] + 1
        BY <2>1, <2>5, <3>2
      <4> QED  BY <2>6, <4>1, OneMoreOf
    <3> QED  BY <3>1, <3>2
  <2>8. ASSUME NEW c \in Books, c # b
        PROVE  outcomes'[c][TRUE] + outcomes'[c][FALSE] = outcomes[c][TRUE] + outcomes[c][FALSE] + 0
    <3>1. outcomes[c][TRUE] \in Nat /\ outcomes[c][FALSE] \in Nat
      BY <1>0, MetricsTypes
    <3>2. outcomes'[c] = outcomes[c]
      BY <2>5, <2>8
    <3> QED  BY <3>1, <3>2, OneMoreOf
  <2> QED  BY <2>4, <2>7, <2>8
<1>8. \A c \in Books : counts'[<<c, "all">>].n = counts[<<c, "all">>].n + (IF c = b THEN 1 ELSE 0)
  <2> TAKE c \in Books
  <2>0. <<c, "all">> \in Accounts /\ counts[<<c, "all">>].n \in Nat
    BY <1>0, MetricsTypes DEF Accounts
  <2>1. CASE c = b
    <3>1. <<c, "all">> \in of
      BY <2>1 DEF of
    <3>2. counts'[<<c, "all">>] = [n |-> counts[<<c, "all">>].n + 1, avg |-> NewAverage(<<c, "all">>, ms)]
      BY <1>3, <3>1
    <3> QED  BY <2>1, <3>2
  <2>2. CASE c # b
    <3>1. <<c, "all">> \notin of
      BY <2>2 DEF of
    <3> QED  BY <1>4, <2>0, <2>2, <3>1
  <2> QED  BY <2>1, <2>2
<1>9. AddUp'
  <2> SUFFICES ASSUME NEW c \in Books
               PROVE  outcomes'[c][TRUE] + outcomes'[c][FALSE] = counts'[<<c, "all">>].n
    BY DEF AddUp
  <2>1. outcomes[c][TRUE] + outcomes[c][FALSE] = counts[<<c, "all">>].n
    BY <1>0 DEF AddUp
  <2> QED  BY <1>7, <1>8, <2>1
<1>10. LeastBelowMean' /\ AveragesHeld'
  <2> SUFFICES ASSUME NEW a \in Accounts
               PROVE  /\ truth'[a].least * counts'[a].n <= truth'[a].sum
                      /\ counts'[a].avg * counts'[a].n <= truth'[a].sum
                      /\ counts'[a].n > 0 => truth'[a].least <= counts'[a].avg
    BY DEF LeastBelowMean, AveragesHeld
  <2>1. CASE a \in of
    <3>1. /\ counts'[a].n = counts[a].n + 1 /\ counts'[a].avg = NewAverage(a, ms)
          /\ truth'[a].sum = truth[a].sum + ms
      <4>1. /\ counts'[a] = [n |-> counts[a].n + 1, avg |-> NewAverage(a, ms)]
            /\ truth'[a] = [least |-> IF counts[a].n = 0 \/ ms < truth[a].least THEN ms ELSE truth[a].least,
                           sum |-> truth[a].sum + ms]
        BY <1>3, <2>1, Zenon
      <4> QED  BY <4>1
    <3> QED  BY <1>3, <2>1, <3>1
  <2>2. CASE a \notin of
    BY <1>0, <1>4, <2>2 DEF LeastBelowMean, AveragesHeld
  <2> QED  BY <2>1, <2>2
<1>11. "api" \in Books
  BY DEF Books
<1> QED  BY <1>6, <1>7, <1>8, <1>9, <1>10, <1>11

(* Slid keeps the end of the durations, and no more than the window.        *)
LEMMA WindowSlides ==
  ASSUME MetricsTypeOK, WindowKept, NEW ms \in Durations,
         recent' = Slid(recent, ms), durations' = Append(durations, ms)
  PROVE  recent' \in Seq(Durations) /\ durations' \in Seq(Durations) /\ WindowKept'
<1> DEFINE n == Len(durations)
           k == Len(recent)
<1>1. recent \in Seq(Durations) /\ durations \in Seq(Durations) /\ WindowSize \in Nat \ {0}
  BY MetricsAssumption DEF MetricsTypeOK
<1>2. /\ n \in Nat /\ k \in Nat /\ k = (IF n < WindowSize THEN n ELSE WindowSize)
      /\ \A i \in 1 .. k : recent[i] = durations[n - k + i]
  <2>1. n \in Nat /\ k \in Nat
    BY <1>1
  <2> QED  BY <2>1, Zenon DEF WindowKept
<1>3. /\ durations' \in Seq(Durations) /\ Len(durations') = n + 1
      /\ \A i \in 1 .. n : durations'[i] = durations[i]
      /\ durations'[n + 1] = ms
  BY <1>1, AppendProperties
<1>4. CASE n < WindowSize
  <2>1. k = n /\ recent' = Append(recent, ms)
    BY <1>1, <1>2, <1>4 DEF Slid
  <2>2. /\ recent' \in Seq(Durations) /\ Len(recent') = k + 1
        /\ \A i \in 1 .. k : recent'[i] = recent[i]
        /\ recent'[k + 1] = ms
    BY <1>1, <2>1, AppendProperties
  <2>3. Len(recent') = IF n + 1 < WindowSize THEN n + 1 ELSE WindowSize
    BY <1>1, <1>2, <1>4, <2>1, <2>2
  <2>4. ASSUME NEW i \in 1 .. k + 1
        PROVE  recent'[i] = durations'[n + 1 - (k + 1) + i]
    <3>1. n + 1 - (k + 1) + i = i /\ (i = n + 1 \/ i \in 1 .. n)
      BY <1>2, <2>1
    <3>2. CASE i \in 1 .. n
      <4>1. recent[i] = durations[n - k + i] /\ n - k + i = i
        BY <1>2, <2>1, <3>2
      <4> QED  BY <1>3, <2>1, <2>2, <3>1, <3>2, <4>1
    <3>3. CASE i = n + 1
      BY <1>3, <2>1, <2>2, <3>1, <3>3
    <3> QED  BY <3>1, <3>2, <3>3
  <2> QED  BY <1>3, <2>2, <2>3, <2>4 DEF WindowKept
<1>5. CASE ~(n < WindowSize)
  <2>1. k = WindowSize /\ recent' = Append(Tail(recent), ms) /\ recent # <<>>
    BY <1>1, <1>2, <1>5 DEF Slid
  <2>2. /\ Tail(recent) \in Seq(Durations) /\ Len(Tail(recent)) = k - 1
        /\ \A i \in 1 .. k - 1 : Tail(recent)[i] = recent[i + 1]
    BY <1>1, <2>1, HeadTailProperties
  <2>3. /\ recent' \in Seq(Durations) /\ Len(recent') = k - 1 + 1
        /\ \A i \in 1 .. k - 1 : recent'[i] = Tail(recent)[i]
        /\ recent'[k - 1 + 1] = ms
    BY <2>1, <2>2, AppendProperties
  <2>4. recent' \in Seq(Durations) /\ Len(recent') = k /\ recent'[k] = ms /\ k \in Nat \ {0} /\ k <= n
    BY <1>1, <1>2, <1>5, <2>1, <2>3
  <2>5. Len(recent') = IF n + 1 < WindowSize THEN n + 1 ELSE WindowSize
    BY <1>1, <1>2, <1>5, <2>1, <2>4
  <2>6. ASSUME NEW i \in 1 .. k
        PROVE  recent'[i] = durations'[n + 1 - k + i]
    <3>1. CASE i = k
      <4>1. n + 1 - k + i = n + 1
        BY <1>2, <3>1
      <4> QED  BY <1>3, <2>4, <3>1, <4>1
    <3>2. CASE i # k
      <4>1. i \in 1 .. k - 1 /\ i + 1 \in 1 .. k /\ n - k + (i + 1) = n + 1 - k + i
            /\ n + 1 - k + i \in 1 .. n
        <5>1. k \in Nat /\ n \in Nat /\ i \in Nat /\ 1 <= i /\ i < k /\ k <= n
          BY <1>2, <2>4, <3>2
        <5> QED BY <5>1
      <4>2. recent'[i] = recent[i + 1] /\ recent[i + 1] = durations[n - k + (i + 1)]
        BY <1>2, <2>2, <2>3, <4>1
      <4> QED  BY <1>3, <4>1, <4>2
    <3> QED  BY <3>1, <3>2
  <2>7. WindowKept'
    <3>1. Len(recent') = IF Len(durations') < WindowSize THEN Len(durations') ELSE WindowSize
      BY <1>3, <2>5
    <3>2. ASSUME NEW i \in 1 .. Len(recent')
          PROVE  recent'[i] = durations'[Len(durations') - Len(recent') + i]
      <4>1. i \in 1 .. k /\ Len(durations') - Len(recent') + i = n + 1 - k + i
        BY <1>3, <2>4
      <4>2. recent'[i] = durations'[n + 1 - k + i]
        BY <2>6, <4>1
      <4> QED  BY <4>1, <4>2, Zenon
    <3> QED  BY <3>1, <3>2, Zenon DEF WindowKept
  <2> QED  BY <1>3, <2>4, <2>7
<1> QED  BY <1>4, <1>5

(* Nothing but the monitor touches the window.                              *)
LEMMA WindowStays ==
  ASSUME WindowKept, UNCHANGED <<recent, durations>>
  PROVE  WindowKept'
BY DEF WindowKept

LEMMA MetricsStep == MetricsInv /\ [MetricsNext]_metrics => MetricsInv'
<1> SUFFICES ASSUME MetricsInv, [MetricsNext]_metrics
             PROVE  MetricsInv'
  OBVIOUS
<1>0. /\ MetricsTypeOK /\ LeastBelowMean /\ AveragesHeld /\ WindowKept /\ AddUp /\ TotalBehind
  BY DEF MetricsInv
<1>1. "api" \in Books /\ "whois" \in Books /\ "monitor" \in Books
  BY DEF Books
<1>2. /\ <<"api", "all">> \in Accounts /\ counts[<<"api", "all">>].n \in Nat /\ export.total \in Nat
      /\ outcomes["api"][TRUE] \in Nat /\ outcomes["api"][FALSE] \in Nat
  BY <1>0, <1>1, MetricsTypes
<1> DEFINE Pcs == {"none", "gathered", "marshalling", "written", "dead"}
<1>3. ASSUME NEW b \in {"api", "whois"}, NEW ms \in Durations, Extend(b, ms)
      PROVE  extremes' \in [{"api", "whois"} -> [least : Nat, most : Nat]]
  <2>1. /\ extremes \in [{"api", "whois"} -> [least : Nat, most : Nat]] /\ ms \in Nat
    BY <1>0, MetricsAssumption DEF MetricsTypeOK
  <2>2. Shortest(extremes[b].least, ms) \in Nat /\ Longest(extremes[b].most, ms) \in Nat
    BY <1>0, <2>1, MetricsTypes DEF Shortest, Longest
  <2> QED  BY <1>3, <2>1, <2>2 DEF Extend
<1>4. ASSUME NEW g \in Groups, NEW ok \in BOOLEAN, NEW ms \in Durations, CollectRequest(g, ok, ms)
      PROVE  MetricsInv'
  <2>1. Enter("api", g, ok, ms) /\ Extend("api", ms) /\ UNCHANGED <<recent, durations>>
    BY <1>4 DEF CollectRequest
  <2>2. export' = export \/ export' = [export EXCEPT !.pc = "dead"]
    BY <1>4 DEF CollectRequest
  <2>3. /\ counts' \in [Accounts -> [n : Nat, avg : Nat]]
        /\ truth' \in [Accounts -> [least : Nat, sum : Nat]]
        /\ outcomes' \in [Books -> [BOOLEAN -> Nat]]
        /\ LeastBelowMean' /\ AveragesHeld' /\ AddUp'
        /\ counts'[<<"api", "all">>].n = counts[<<"api", "all">>].n + 1
    BY <1>1, <2>1, EnterKeeps
  <2>4. MetricsTypeOK'
    <3>1. export' \in [pc : Pcs, total : Nat, codes : Nat]
      BY <1>0, <2>2 DEF MetricsTypeOK
    <3> QED  BY <1>0, <1>3, <2>1, <2>3, <3>1 DEF MetricsTypeOK
  <2>5. TotalBehind'
    <3>1. counts[<<"api", "all">>].n <= counts'[<<"api", "all">>].n
      BY <1>2, <2>3
    <3>2. counts'[<<"api", "all">>].n \in Nat
      BY <1>2, <2>3
    <3>3. CASE export' = export
      BY <1>0, <1>2, <3>1, <3>2, <3>3 DEF TotalBehind
    <3>4. CASE export' = [export EXCEPT !.pc = "dead"]
      <4>1. export'.pc = "dead"
        BY <1>0, <3>4 DEF MetricsTypeOK
      <4> QED  BY <4>1 DEF TotalBehind
    <3> QED  BY <2>2, <3>3, <3>4
  <2> QED  BY <1>0, <2>1, <2>3, <2>4, <2>5, WindowStays DEF MetricsInv
<1>5. ASSUME NEW g \in Groups, NEW ok \in BOOLEAN, NEW ms \in Durations, CollectQuery(g, ok, ms)
      PROVE  MetricsInv'
  <2>1. Enter("whois", g, ok, ms) /\ Extend("whois", ms) /\ UNCHANGED <<recent, export, durations>>
    BY <1>5 DEF CollectQuery
  <2>2. /\ counts' \in [Accounts -> [n : Nat, avg : Nat]]
        /\ truth' \in [Accounts -> [least : Nat, sum : Nat]]
        /\ outcomes' \in [Books -> [BOOLEAN -> Nat]]
        /\ LeastBelowMean' /\ AveragesHeld' /\ AddUp'
        /\ counts'[<<"api", "all">>].n = counts[<<"api", "all">>].n + 0
    BY <1>1, <2>1, EnterKeeps
  <2>3. MetricsTypeOK'
    BY <1>0, <1>3, <2>1, <2>2 DEF MetricsTypeOK
  <2>4. TotalBehind'
    BY <1>0, <1>2, <2>1, <2>2 DEF TotalBehind
  <2> QED  BY <1>0, <2>1, <2>2, <2>3, <2>4, WindowStays DEF MetricsInv
<1>6. ASSUME NEW g \in Groups, NEW ok \in BOOLEAN, NEW ms \in Durations, RecordQuery(g, ok, ms)
      PROVE  MetricsInv'
  <2>1. /\ Enter("monitor", g, ok, ms) /\ UNCHANGED <<extremes, export>>
        /\ recent' = Slid(recent, ms) /\ durations' = Append(durations, ms)
    BY <1>6 DEF RecordQuery
  <2>2. /\ counts' \in [Accounts -> [n : Nat, avg : Nat]]
        /\ truth' \in [Accounts -> [least : Nat, sum : Nat]]
        /\ outcomes' \in [Books -> [BOOLEAN -> Nat]]
        /\ LeastBelowMean' /\ AveragesHeld' /\ AddUp'
        /\ counts'[<<"api", "all">>].n = counts[<<"api", "all">>].n + 0
    BY <1>1, <2>1, EnterKeeps
  <2>3. recent' \in Seq(Durations) /\ durations' \in Seq(Durations) /\ WindowKept'
    BY <1>0, <2>1, WindowSlides
  <2>4. MetricsTypeOK'
    BY <1>0, <2>1, <2>2, <2>3 DEF MetricsTypeOK
  <2>5. TotalBehind'
    BY <1>0, <1>2, <2>1, <2>2 DEF TotalBehind
  <2> QED  BY <2>2, <2>3, <2>4, <2>5 DEF MetricsInv
<1>7. ASSUME UNCHANGED <<counts, outcomes, extremes, recent, truth, durations>>,
             export' \in [pc : Pcs, total : Nat, codes : Nat], TotalBehind'
      PROVE  MetricsInv'
  <2>1. MetricsTypeOK'
    BY <1>0, <1>7 DEF MetricsTypeOK
  <2>2. LeastBelowMean' /\ AveragesHeld' /\ AddUp'
    BY <1>0, <1>7 DEF LeastBelowMean, AveragesHeld, AddUp
  <2> QED  BY <1>0, <1>7, <2>1, <2>2, WindowStays DEF MetricsInv
<1>8. CASE GetMetrics
  <2>1. export' = [pc |-> "gathered", total |-> counts[<<"api", "all">>].n, codes |-> 0]
        /\ UNCHANGED <<counts, outcomes, extremes, recent, truth, durations>>
    BY <1>8 DEF GetMetrics
  <2>2. TotalBehind'
    BY <1>2, <2>1 DEF TotalBehind
  <2> QED  BY <1>2, <1>7, <2>1, <2>2
<1>9. CASE Marshal
  <2>1. export.pc = "gathered" /\ export' = [export EXCEPT !.pc = "marshalling"]
        /\ UNCHANGED <<counts, outcomes, extremes, recent, truth, durations>>
    BY <1>9 DEF Marshal
  <2>2. export' \in [pc : Pcs, total : Nat, codes : Nat] /\ export'.pc = "marshalling"
        /\ export'.total = export.total
    BY <1>0, <2>1 DEF MetricsTypeOK
  <2>3. TotalBehind'
    BY <1>0, <2>1, <2>2 DEF TotalBehind
  <2> QED  BY <1>7, <2>1, <2>2, <2>3
<1>10. CASE Export
  <2> DEFINE codes == outcomes["api"][TRUE] + outcomes["api"][FALSE]
  <2>1. export.pc = "marshalling" /\ export' = [export EXCEPT !.pc = "written", !.codes = codes]
        /\ UNCHANGED <<counts, outcomes, extremes, recent, truth, durations>>
    BY <1>10 DEF Export
  <2>2. codes \in Nat /\ codes = counts[<<"api", "all">>].n
    BY <1>0, <1>1, <1>2 DEF AddUp
  <2> HIDE DEF codes
  <2>3. export' \in [pc : Pcs, total : Nat, codes : Nat] /\ export'.pc = "written"
        /\ export'.total = export.total /\ export'.codes = codes
    BY <1>0, <2>1, <2>2 DEF MetricsTypeOK
  <2>4. TotalBehind'
    BY <1>0, <2>1, <2>2, <2>3 DEF TotalBehind
  <2> QED  BY <1>7, <2>1, <2>3, <2>4
<1>11. CASE UNCHANGED metrics
  <2>1. UNCHANGED <<counts, outcomes, extremes, recent, truth, durations, export>>
    BY <1>11 DEF metrics
  <2>2. export' \in [pc : Pcs, total : Nat, codes : Nat]
    BY <1>0, <2>1 DEF MetricsTypeOK
  <2>3. TotalBehind'
    BY <1>0, <2>1 DEF TotalBehind
  <2> QED  BY <1>7, <2>1, <2>2, <2>3
<1> QED  BY <1>4, <1>5, <1>6, <1>8, <1>9, <1>10, <1>11 DEF MetricsNext

LEMMA MetricsInvHolds == MetricsInv => MetricsHold
<1> SUFFICES ASSUME MetricsInv
             PROVE  MetricsHold
  OBVIOUS
<1>0. MetricsTypeOK /\ LeastBelowMean /\ AveragesHeld /\ WindowKept /\ AddUp /\ TotalBehind
  BY DEF MetricsInv
<1>1. AverageHeld
  BY <1>0 DEF AverageHeld, AveragesHeld
<1>2. WindowIsLast
  <2> DEFINE n == Len(durations)
             k == Len(recent)
  <2>1. /\ n \in Nat /\ k \in Nat /\ k = (IF n < WindowSize THEN n ELSE WindowSize)
        /\ \A i \in 1 .. k : recent[i] = durations[n - k + i]
    BY <1>0, MetricsTypes DEF WindowKept
  <2>2. recent \in Seq(Durations) /\ durations \in Seq(Durations) /\ WindowSize \in Nat
    BY <1>0, MetricsAssumption DEF MetricsTypeOK
  <2>3. k <= n
    BY <2>1, <2>2
  <2>4. recent = SubSeq(durations, n - k + 1, n)
    <3> DEFINE end == SubSeq(durations, n - k + 1, n)
    <3>1. n - k + 1 \in Int /\ n \in Int /\ n - (n - k + 1) + 1 = k /\ (n - k + 1 <= n <=> k # 0)
      BY <2>1, <2>3
    <3>2. \A i \in n - k + 1 .. n : durations[i] \in Durations
      <4> TAKE i \in n - k + 1 .. n
      <4>1. i \in 1 .. n
        BY <2>1, <2>3
      <4> QED  BY <2>2, <4>1, ElementOfSeq
    <3>3. /\ end \in Seq(Durations)
          /\ Len(end) = IF n - k + 1 <= n THEN n - (n - k + 1) + 1 ELSE 0
          /\ \A i \in 1 .. n - (n - k + 1) + 1 : end[i] = durations[n - k + 1 + i - 1]
      BY <3>1, <3>2, SubSeqProperties
    <3>4. Len(end) = k
      BY <2>1, <3>1, <3>3
    <3>5. \A i \in 1 .. k : recent[i] = end[i]
      <4> TAKE i \in 1 .. k
      <4>1. n - k + 1 + i - 1 = n - k + i
        BY <2>1
      <4> QED  BY <2>1, <3>1, <3>3, <4>1
    <3> QED  BY <2>2, <3>3, <3>4, <3>5, SeqEqual
  <2>5. ASSUME k > 0
        PROVE  /\ Percentile(90) <= Percentile(95) /\ Percentile(95) <= Percentile(99)
               /\ \E i \in n - k + 1 .. n : Percentile(99) <= durations[i]
    <3>1. recent # <<>>
      BY <2>5
    <3>2. PICK i \in 1 .. k : Percentile(99) <= recent[i]
      BY <2>2, <3>1, PercentilesInOrder
    <3>3. n - k + i \in n - k + 1 .. n /\ recent[i] = durations[n - k + i]
      BY <2>1, <2>3
    <3> QED  BY <2>2, <3>1, <3>2, <3>3, PercentilesInOrder
  <2> QED  BY <2>1, <2>4, <2>5 DEF WindowIsLast
<1>3. BooksAgree
  BY <1>0 DEF BooksAgree, AddUp, TotalBehind
<1> QED  BY <1>1, <1>2, <1>3 DEF MetricsHold

(* collector.go and performance.go: of any durations, groups and window, an *)
(* average stays between the shortest and the mean, the window is the last  *)
(* of what was recorded and its percentiles are in order, what was counted  *)
(* adds up, and an exported document lacks no request of its total.         *)
THEOREM MetricsAgree == MetricsSpec => []MetricsHold
<1>1. MetricsSpec => []MetricsInv
  BY MetricsBegin, MetricsStep, PTL DEF MetricsSpec
<1> QED  BY <1>1, MetricsInvHolds, PTL

------------------------------------------------------------------------------
(***************************************************************************)
(* The metrics providers.                                                  *)
(***************************************************************************)
-----------------------------------------------------------------------------
(* The counters.  A reporter that has begun has an event and a list of the  *)
(* providers that it has still to tell.                                     *)
Fields    == {"all", "ok", "failed"}
Events    == [kind : Kinds, ok : BOOLEAN]
Recording == [pc : {"outcome", "locking", "telling"}, event : Events, to : Seq(Backends)]

Within(b, s) == \E i \in DOMAIN s : s[i] = b
Distinct(s)  == \A i, j \in DOMAIN s : s[i] = s[j] => i = j

(* Whether an event counts in a field of a kind.                            *)
Hits(event, k, f) ==
  event.kind = k /\ (f # "all" => k = "query" /\ (f = "ok" <=> event.ok))

(* The reporters under way whose events the counters have, and a provider.  *)
Counts(x, k, f) == x.pc # "quiet" /\ Hits(x.event, k, f) /\ (f = "all" \/ x.pc # "outcome")
Tells(x, b, k, f) == x.pc = "telling" /\ Hits(x.event, k, f) /\ ~Within(b, x.to)

Counting(k, f)   == {r \in Reporters : Counts(reporter[r], k, f)}
Telling(b, k, f) == {r \in Reporters : Tells(reporter[r], b, k, f)}

ProvidersWhole ==
  /\ Distinct(global.providers)
  /\ \A r \in Reporters : reporter[r].pc = "telling" =>
       /\ Distinct(reporter[r].to)
       /\ \A b \in Backends : Within(b, reporter[r].to) => Within(b, global.providers)
  /\ \A b \in Backends : ~Within(b, global.providers) => backend[b].counters = Zeros
  /\ ~global.made =>
       /\ global.providers = <<>> /\ finished = Zeros
       /\ \A b \in Backends : missed[b] = Zeros
       /\ \A r \in Reporters : reporter[r] = Quiet

CountersWhole ==
  /\ finished["query"]["all"] = finished["query"]["ok"] + finished["query"]["failed"]
  /\ \A k \in Kinds, f \in Fields :
       /\ builtIn[k][f] = finished[k][f] + Cardinality(Counting(k, f))
       /\ \A b \in Backends : Within(b, global.providers) =>
            backend[b].counters[k][f] + missed[b][k][f] 
              = finished[k][f] + Cardinality(Telling(b, k, f))

(* What GetBuiltInStats has read.                                           *)
StatsClose ==
  LET R == Cardinality(Reporters) IN
  /\ stats.pc = "total" =>
       stats.total <= builtIn["query"]["ok"] + builtIn["query"]["failed"] + R
  /\ stats.pc = "ok" => stats.total <= stats.ok + builtIn["query"]["failed"] + R
  /\ stats.pc = "read" => stats.behind <= R

ObservabilityInv ==
  /\ ObservabilityTypeOK /\ reporter \in [Reporters -> {Quiet} \cup Recording]
  /\ ProvidersWhole /\ CountersWhole /\ StatsClose
-----------------------------------------------------------------------------
LEMMA CounterFields ==
  ASSUME NEW c \in Counters
  PROVE  /\ \A k \in Kinds, f \in Fields : c[k][f] \in Nat
         /\ Zeros \in Counters /\ \A k \in Kinds, f \in Fields : Zeros[k][f] = 0
<1>1. ASSUME NEW k \in Kinds, NEW f \in Fields PROVE c[k][f] \in Nat
  <2>1. c[k] \in [all : Nat, ok : Nat, failed : Nat] BY DEF Counters
  <2>2. c[k]["all"] \in Nat /\ c[k]["ok"] \in Nat /\ c[k]["failed"] \in Nat BY <2>1
  <2> QED BY <2>2 DEF Fields
<1>2. Zeros \in Counters BY DEF Zeros, Counters
<1>3. ASSUME NEW k \in Kinds, NEW f \in Fields PROVE Zeros[k][f] = 0
  <2>1. Zeros[k] = [all |-> 0, ok |-> 0, failed |-> 0] BY DEF Zeros
  <2>2. Zeros[k]["all"] = 0 /\ Zeros[k]["ok"] = 0 /\ Zeros[k]["failed"] = 0 BY <2>1
  <2> QED BY <2>2 DEF Fields
<1> QED BY <1>1, <1>2, <1>3

(* The first counter of an event, and that of its outcome.                  *)
LEMMA TotalCounts ==
  ASSUME NEW c \in Counters, NEW e \in Events
  PROVE  /\ Total(c, e) \in Counters
         /\ \A k \in Kinds, f \in Fields :
              /\ e.kind = k /\ f = "all" => Total(c, e)[k][f] = c[k][f] + 1
              /\ ~(e.kind = k /\ f = "all") => Total(c, e)[k][f] = c[k][f]
<1> DEFINE x == [c[e.kind] EXCEPT !.all = @ + 1]
<1>1. e.kind \in Kinds /\ c[e.kind] \in [all : Nat, ok : Nat, failed : Nat] BY DEF Events, Counters
<1>2. x \in [all : Nat, ok : Nat, failed : Nat] BY <1>1
<1>3. x["all"] = c[e.kind]["all"] + 1 /\ x["ok"] = c[e.kind]["ok"] /\ x["failed"] = c[e.kind]["failed"]
  BY <1>1
<1>4. Total(c, e) = [c EXCEPT ![e.kind] = x] BY DEF Total
<1> HIDE DEF x
<1>5. Total(c, e) \in Counters BY <1>1, <1>2, <1>4 DEF Counters
<1>6. Total(c, e)[e.kind] = x /\ \A k \in Kinds : k # e.kind => Total(c, e)[k] = c[k]
  BY <1>1, <1>4 DEF Counters
<1>7. ASSUME NEW k \in Kinds, NEW f \in Fields
      PROVE  /\ e.kind = k /\ f = "all" => Total(c, e)[k][f] = c[k][f] + 1
             /\ ~(e.kind = k /\ f = "all") => Total(c, e)[k][f] = c[k][f]
  <2>1. CASE k = e.kind BY <1>3, <1>6, <2>1 DEF Fields
  <2>2. CASE k # e.kind BY <1>6, <2>2
  <2> QED BY <2>1, <2>2
<1> QED BY <1>5, <1>7

LEMMA OutcomeCounts ==
  ASSUME NEW c \in Counters, NEW e \in Events
  PROVE  /\ Outcome(c, e) \in Counters
         /\ \A k \in Kinds, f \in Fields :
              /\ Hits(e, k, f) /\ f # "all" => Outcome(c, e)[k][f] = c[k][f] + 1
              /\ ~(Hits(e, k, f) /\ f # "all") => Outcome(c, e)[k][f] = c[k][f]
<1>1. c["query"] \in [all : Nat, ok : Nat, failed : Nat] BY DEF Counters, Kinds
<1>2. e.kind \in Kinds /\ e.ok \in BOOLEAN BY DEF Events
<1>3. CASE e.kind # "query"
  <2>1. Outcome(c, e) = c BY <1>3 DEF Outcome
  <2> QED BY <1>3, <2>1 DEF Hits
<1>4. ASSUME e.kind = "query", NEW g \in {"ok", "failed"}, NEW x \in [all : Nat, ok : Nat, failed : Nat],
             x[g] = c["query"][g] + 1, \A f \in Fields : f # g => x[f] = c["query"][f],
             Outcome(c, e) = [c EXCEPT !["query"] = x], e.ok <=> g = "ok"
      PROVE  /\ Outcome(c, e) \in Counters
             /\ \A k \in Kinds, f \in Fields :
                  /\ Hits(e, k, f) /\ f # "all" => Outcome(c, e)[k][f] = c[k][f] + 1
                  /\ ~(Hits(e, k, f) /\ f # "all") => Outcome(c, e)[k][f] = c[k][f]
  <2>1. Outcome(c, e) \in Counters BY <1>1, <1>4 DEF Counters, Kinds
  <2>2. Outcome(c, e)["query"] = x /\ \A k \in Kinds : k # "query" => Outcome(c, e)[k] = c[k]
    BY <1>4 DEF Counters, Kinds
  <2>3. ASSUME NEW k \in Kinds, NEW f \in Fields
        PROVE  Hits(e, k, f) /\ f # "all" <=> k = "query" /\ f = g
    BY <1>2, <1>4 DEF Hits, Fields
  <2> QED BY <1>4, <2>1, <2>2, <2>3
<1>5. CASE e.kind = "query" /\ e.ok
  <2> DEFINE x == [c["query"] EXCEPT !.ok = @ + 1]
  <2>1. /\ x \in [all : Nat, ok : Nat, failed : Nat]
        /\ x["ok"] = c["query"]["ok"] + 1 /\ x["all"] = c["query"]["all"]
        /\ x["failed"] = c["query"]["failed"]
    BY <1>1
  <2>2. Outcome(c, e) = [c EXCEPT !["query"] = x] BY <1>5 DEF Outcome
  <2> HIDE DEF x
  <2>3. \A f \in Fields : f # "ok" => x[f] = c["query"][f] BY <2>1 DEF Fields
  <2> QED BY <1>4, <1>5, <2>1, <2>2, <2>3
<1>6. CASE e.kind = "query" /\ ~e.ok
  <2> DEFINE x == [c["query"] EXCEPT !.failed = @ + 1]
  <2>1. /\ x \in [all : Nat, ok : Nat, failed : Nat]
        /\ x["failed"] = c["query"]["failed"] + 1 /\ x["all"] = c["query"]["all"]
        /\ x["ok"] = c["query"]["ok"]
    BY <1>1
  <2>2. Outcome(c, e) = [c EXCEPT !["query"] = x] BY <1>6 DEF Outcome
  <2> HIDE DEF x
  <2>3. \A f \in Fields : f # "failed" => x[f] = c["query"][f] BY <2>1 DEF Fields
  <2> QED BY <1>4, <1>6, <2>1, <2>2, <2>3
<1> QED BY <1>3, <1>5, <1>6

LEMMA EventCounts ==
  ASSUME NEW c \in Counters, NEW e \in Events
  PROVE  /\ Outcome(Total(c, e), e) \in Counters
         /\ \A k \in Kinds, f \in Fields :
              /\ Hits(e, k, f) => Outcome(Total(c, e), e)[k][f] = c[k][f] + 1
              /\ ~Hits(e, k, f) => Outcome(Total(c, e), e)[k][f] = c[k][f]
<1>1. Total(c, e) \in Counters BY TotalCounts
<1>2. ASSUME NEW k \in Kinds, NEW f \in Fields
      PROVE  /\ Hits(e, k, f) => Outcome(Total(c, e), e)[k][f] = c[k][f] + 1
             /\ ~Hits(e, k, f) => Outcome(Total(c, e), e)[k][f] = c[k][f]
  <2>1. CASE f = "all"
    <3>1. Outcome(Total(c, e), e)[k][f] = Total(c, e)[k][f] BY <1>1, <2>1, OutcomeCounts
    <3>2. Hits(e, k, f) <=> e.kind = k BY <2>1 DEF Hits
    <3> QED BY <2>1, <3>1, <3>2, TotalCounts
  <2>2. CASE f # "all"
    <3>1. Total(c, e)[k][f] = c[k][f] BY <2>2, TotalCounts
    <3> QED BY <1>1, <2>2, <3>1, OutcomeCounts
  <2> QED BY <2>1, <2>2
<1> QED BY <1>1, <1>2, OutcomeCounts

(* Finite sets that differ in one element at most.                          *)
LEMMA OneMoreOrLess ==
  ASSUME NEW T, IsFiniteSet(T), NEW S \in SUBSET T, NEW U \in SUBSET T, NEW r \in T,
         \A q \in T : q # r => (q \in S <=> q \in U)
  PROVE  /\ Cardinality(S) \in Nat /\ Cardinality(U) \in Nat
         /\ (r \in S <=> r \in U) => Cardinality(U) = Cardinality(S)
         /\ r \notin S /\ r \in U => Cardinality(U) = Cardinality(S) + 1
         /\ r \in S /\ r \notin U => Cardinality(U) = Cardinality(S) - 1
<1>1. IsFiniteSet(S) /\ IsFiniteSet(U) BY FS_Subset
<1>2. Cardinality(S) \in Nat /\ Cardinality(U) \in Nat BY <1>1, FS_CardinalityType
<1>3. ASSUME r \in S <=> r \in U PROVE Cardinality(U) = Cardinality(S)
  <2>1. U = S BY <1>3
  <2> QED BY <2>1
<1>4. ASSUME r \notin S, r \in U PROVE Cardinality(U) = Cardinality(S) + 1
  <2>1. U = S \cup {r} BY <1>4
  <2> QED BY <1>1, <1>4, <2>1, FS_AddElement
<1>5. ASSUME r \in S, r \notin U PROVE Cardinality(U) = Cardinality(S) - 1
  <2>1. U = S \ {r} BY <1>5
  <2> QED BY <1>1, <1>5, <2>1, FS_RemoveElement
<1> QED BY <1>2, <1>3, <1>4, <1>5

(* The list of providers that a reporter takes one by one.                  *)
LEMMA ListTaken ==
  ASSUME NEW s \in Seq(Backends), s # <<>>, Distinct(s)
  PROVE  /\ Head(s) \in Backends /\ Tail(s) \in Seq(Backends) /\ Distinct(Tail(s))
         /\ Within(Head(s), s) /\ ~Within(Head(s), Tail(s))
         /\ \A b \in Backends : b # Head(s) => (Within(b, Tail(s)) <=> Within(b, s))
<1>1. /\ Len(s) \in Nat \ {0} /\ DOMAIN s = 1 .. Len(s) /\ Head(s) = s[1]
      /\ Tail(s) \in Seq(Backends) /\ DOMAIN Tail(s) = 1 .. Len(s) - 1
      /\ \A i \in 1 .. Len(s) - 1 : Tail(s)[i] = s[i + 1]
  OBVIOUS
<1>2. 1 \in DOMAIN s /\ Head(s) \in Backends BY <1>1
<1>3. \A i \in 1 .. Len(s) - 1 : i + 1 \in DOMAIN s /\ i + 1 # 1 BY <1>1
<1>4. Distinct(Tail(s))
  <2> SUFFICES ASSUME NEW i \in 1 .. Len(s) - 1, NEW j \in 1 .. Len(s) - 1, Tail(s)[i] = Tail(s)[j]
               PROVE  i = j
    BY <1>1 DEF Distinct
  <2>1. i + 1 = j + 1 BY <1>1, <1>3 DEF Distinct
  <2> QED BY <1>1, <2>1
<1>5. Within(Head(s), s) BY <1>1, <1>2 DEF Within
<1>6. ~Within(Head(s), Tail(s)) BY <1>1, <1>2, <1>3 DEF Within, Distinct
<1>7. ASSUME NEW b \in Backends, b # Head(s) PROVE Within(b, Tail(s)) <=> Within(b, s)
  <2>1. ASSUME NEW i \in DOMAIN s, s[i] = b PROVE i - 1 \in 1 .. Len(s) - 1 /\ Tail(s)[i - 1] = b
    BY <1>1, <1>7, <2>1
  <2> QED BY <1>1, <1>3, <2>1 DEF Within
<1> QED BY <1>1, <1>2, <1>4, <1>5, <1>6, <1>7

(* A step of one reporter changes the sets of those under way by it.        *)
Shift(n, m, was, is) ==
  /\ n \in Nat /\ m \in Nat
  /\ (was <=> is) => m = n
  /\ ~was /\ is => m = n + 1
  /\ was /\ ~is => m = n - 1

LEMMA OneReporter ==
  ASSUME reporter \in [Reporters -> {Quiet} \cup Recording],
         NEW r \in Reporters, NEW x \in {Quiet} \cup Recording,
         reporter' = [reporter EXCEPT ![r] = x], NEW k, NEW f
  PROVE  /\ Shift(Cardinality(Counting(k, f)), Cardinality(Counting(k, f)'),
                  Counts(reporter[r], k, f), Counts(x, k, f))
         /\ \A b : Shift(Cardinality(Telling(b, k, f)), Cardinality(Telling(b, k, f)'),
                         Tells(reporter[r], b, k, f), Tells(x, b, k, f))
<1>1. reporter'[r] = x /\ \A q \in Reporters : q # r => reporter'[q] = reporter[q] OBVIOUS
<1>2. IsFiniteSet(Reporters) BY ObservabilityAssumption
<1>3. Counting(k, f)' = {q \in Reporters : Counts(reporter'[q], k, f)}
  BY DEF Counting, Counts, Hits
<1>4. ASSUME NEW b PROVE Telling(b, k, f)' = {q \in Reporters : Tells(reporter'[q], b, k, f)}
  BY DEF Telling, Tells, Hits, Within
<1>5. /\ Counting(k, f) \in SUBSET Reporters /\ Counting(k, f)' \in SUBSET Reporters
      /\ \A q \in Reporters : q # r => (q \in Counting(k, f) <=> q \in Counting(k, f)')
      /\ r \in Counting(k, f) <=> Counts(reporter[r], k, f)
      /\ r \in Counting(k, f)' <=> Counts(x, k, f)
  BY <1>1, <1>3 DEF Counting
<1>6. ASSUME NEW b
      PROVE  /\ Telling(b, k, f) \in SUBSET Reporters /\ Telling(b, k, f)' \in SUBSET Reporters
             /\ \A q \in Reporters : q # r => (q \in Telling(b, k, f) <=> q \in Telling(b, k, f)')
             /\ r \in Telling(b, k, f) <=> Tells(reporter[r], b, k, f)
             /\ r \in Telling(b, k, f)' <=> Tells(x, b, k, f)
  BY <1>1, <1>4 DEF Telling
<1>7. /\ Cardinality(Counting(k, f)) \in Nat /\ Cardinality(Counting(k, f)') \in Nat
      /\ (r \in Counting(k, f) <=> r \in Counting(k, f)') =>
           Cardinality(Counting(k, f)') = Cardinality(Counting(k, f))
      /\ r \notin Counting(k, f) /\ r \in Counting(k, f)' =>
           Cardinality(Counting(k, f)') = Cardinality(Counting(k, f)) + 1
      /\ r \in Counting(k, f) /\ r \notin Counting(k, f)' =>
           Cardinality(Counting(k, f)') = Cardinality(Counting(k, f)) - 1
  BY <1>2, <1>5, OneMoreOrLess
<1>8. ASSUME NEW b
      PROVE  /\ Cardinality(Telling(b, k, f)) \in Nat /\ Cardinality(Telling(b, k, f)') \in Nat
             /\ (r \in Telling(b, k, f) <=> r \in Telling(b, k, f)') =>
                  Cardinality(Telling(b, k, f)') = Cardinality(Telling(b, k, f))
             /\ r \notin Telling(b, k, f) /\ r \in Telling(b, k, f)' =>
                  Cardinality(Telling(b, k, f)') = Cardinality(Telling(b, k, f)) + 1
             /\ r \in Telling(b, k, f) /\ r \notin Telling(b, k, f)' =>
                  Cardinality(Telling(b, k, f)') = Cardinality(Telling(b, k, f)) - 1
  BY <1>2, <1>6, OneMoreOrLess
<1>9. Shift(Cardinality(Counting(k, f)), Cardinality(Counting(k, f)'),
            Counts(reporter[r], k, f), Counts(x, k, f))
  BY <1>5, <1>7 DEF Shift
<1>10. ASSUME NEW b PROVE Shift(Cardinality(Telling(b, k, f)), Cardinality(Telling(b, k, f)'),
                                Tells(reporter[r], b, k, f), Tells(x, b, k, f))
  BY <1>6, <1>8 DEF Shift
<1> QED BY <1>9, <1>10
-----------------------------------------------------------------------------
LEMMA ObservabilityBegin == ObservabilityInit => ObservabilityInv
<1> SUFFICES ASSUME ObservabilityInit PROVE ObservabilityInv OBVIOUS
<1> USE DEF ObservabilityInit
<1>1. Zeros \in Counters /\ \A k \in Kinds, f \in Fields : Zeros[k][f] = 0
  <2>1. Zeros \in Counters BY DEF Zeros, Counters
  <2> QED BY <2>1, CounterFields
<1>2. ObservabilityTypeOK /\ reporter \in [Reporters -> {Quiet} \cup Recording]
  <2>1. stats \in [pc : {"none", "total", "ok", "read"}, total : Nat, ok : Nat, behind : Nat]
    BY DEF NoStats
  <2>2. events \in 0 .. MaxEvents BY ObservabilityAssumption
  <2>3. \A r \in Reporters : reporter[r].pc = "quiet" BY DEF Quiet
  <2> QED BY <1>1, <2>1, <2>2, <2>3 DEF ObservabilityTypeOK
<1>3. \A r \in Reporters : reporter[r] = Quiet /\ reporter[r].pc = "quiet" BY DEF Quiet
<1>4. global.providers = <<>> /\ \A b : ~Within(b, <<>>) BY DEF Within
<1>5. ProvidersWhole BY <1>3, <1>4 DEF ProvidersWhole, Distinct
<1>6. \A k, f : Counting(k, f) = {} BY <1>3 DEF Counting, Counts
<1>7. CountersWhole
  <2>1. "query" \in Kinds /\ "all" \in Fields /\ "ok" \in Fields /\ "failed" \in Fields
    BY DEF Kinds, Fields
  <2>2. finished["query"]["all"] = finished["query"]["ok"] + finished["query"]["failed"]
    BY <1>1, <2>1
  <2>3. \A b \in Backends : ~Within(b, global.providers) BY <1>4
  <2>4. \A k \in Kinds, f \in Fields : Cardinality(Counting(k, f)) = 0 BY <1>6, FS_EmptySet
  <2>5. \A k \in Kinds, f \in Fields : builtIn[k][f] = 0 /\ finished[k][f] = 0 BY <1>1
  <2>6. \A k \in Kinds, f \in Fields : builtIn[k][f] = finished[k][f] + Cardinality(Counting(k, f))
    BY <2>4, <2>5
  <2> QED BY <2>2, <2>3, <2>6 DEF CountersWhole
<1>8. StatsClose BY DEF StatsClose, NoStats
<1> QED BY <1>2, <1>5, <1>7, <1>8 DEF ObservabilityInv

(* What of the types is needed all the time.                                *)
LEMMA ObservedTypes ==
  ASSUME ObservabilityInv
  PROVE  /\ global.made \in BOOLEAN /\ global.providers \in Seq(Backends)
         /\ \A k \in Kinds, f \in Fields :
              /\ builtIn[k][f] \in Nat /\ finished[k][f] \in Nat
              /\ \A b \in Backends : backend[b].counters[k][f] \in Nat /\ missed[b][k][f] \in Nat
         /\ \A b \in Backends : backend[b].counters \in Counters /\ missed[b] \in Counters
         /\ Cardinality(Reporters) \in Nat
         /\ stats.total \in Nat /\ stats.ok \in Nat /\ stats.behind \in Nat
         /\ "query" \in Kinds /\ {"all", "ok", "failed"} = Fields
<1>1. ObservabilityTypeOK BY DEF ObservabilityInv
<1>2. \A b \in Backends : backend[b].counters \in Counters /\ missed[b] \in Counters
  BY <1>1 DEF ObservabilityTypeOK
<1>3. builtIn \in Counters /\ finished \in Counters BY <1>1 DEF ObservabilityTypeOK
<1>4. \A k \in Kinds, f \in Fields :
              /\ builtIn[k][f] \in Nat /\ finished[k][f] \in Nat
              /\ \A b \in Backends : backend[b].counters[k][f] \in Nat /\ missed[b][k][f] \in Nat
  BY <1>2, <1>3, CounterFields
<1>5. Cardinality(Reporters) \in Nat BY ObservabilityAssumption, FS_CardinalityType
<1>6. stats.total \in Nat /\ stats.ok \in Nat /\ stats.behind \in Nat BY <1>1 DEF ObservabilityTypeOK
<1>7. global.made \in BOOLEAN /\ global.providers \in Seq(Backends) BY <1>1 DEF ObservabilityTypeOK
<1> QED BY <1>2, <1>4, <1>5, <1>6, <1>7 DEF Kinds, Fields

(* The counters only grow, which what was read does not mind.               *)
LEMMA StatsStayClose ==
  ASSUME ObservabilityInv, stats' = stats, builtIn' \in Counters,
         builtIn["query"]["ok"] <= builtIn'["query"]["ok"],
         builtIn["query"]["failed"] <= builtIn'["query"]["failed"]
  PROVE  StatsClose'
<1>1. StatsClose BY DEF ObservabilityInv
<1>2. "query" \in Kinds /\ "ok" \in Fields /\ "failed" \in Fields BY DEF Kinds, Fields
<1>3. builtIn'["query"]["ok"] \in Nat /\ builtIn'["query"]["failed"] \in Nat BY <1>2, CounterFields
<1>4. builtIn["query"]["ok"] \in Nat /\ builtIn["query"]["failed"] \in Nat BY <1>2, ObservedTypes
<1>5. Cardinality(Reporters) \in Nat /\ stats.total \in Nat /\ stats.ok \in Nat BY ObservedTypes
<1> QED BY <1>1, <1>3, <1>4, <1>5 DEF StatsClose

LEMMA OneMoreOfTwo ==
  \A a, b, c, d, n : 
    a \in Nat /\ b \in Nat /\ c \in Nat /\ a = b + c /\ d = a + 1 /\ n = c + 1 => d = b + n
OBVIOUS

LEMMA OneMoreOfFour ==
  \A a, b, c, d, m, n :
    a \in Nat /\ b \in Nat /\ c \in Nat /\ d \in Nat /\ a + b = c + d /\ m = a + 1 /\ n = d + 1
      => m + b = c + n
OBVIOUS

LEMMA MovedOver ==
  \A a, b, c, d, n : b \in Nat /\ c \in Nat /\ a = b + c /\ d = b + 1 /\ n = c - 1 => a = d + n
OBVIOUS

(* A step of a reporter before it has told a provider of its event.         *)
LEMMA ReporterStep ==
  ASSUME ObservabilityInv, NEW r \in Reporters, NEW x \in Recording,
         reporter' = [reporter EXCEPT ![r] = x],
         UNCHANGED <<backend, stats, finished, missed>>,
         global' \in [made : BOOLEAN, providers : Seq(Backends)],
         global'.made = TRUE, global'.providers = global.providers,
         builtIn' \in Counters, events' \in 0 .. MaxEvents,
         \A k \in Kinds, f \in Fields :
           \/ /\ Counts(x, k, f) /\ ~Counts(reporter[r], k, f)
              /\ builtIn'[k][f] = builtIn[k][f] + 1
           \/ /\ Counts(x, k, f) <=> Counts(reporter[r], k, f)
              /\ builtIn'[k][f] = builtIn[k][f],
         reporter[r].pc # "telling",
         x.pc = "telling" => x.to = global.providers
  PROVE  ObservabilityInv'
<1>0. /\ ObservabilityTypeOK /\ reporter \in [Reporters -> {Quiet} \cup Recording]
      /\ ProvidersWhole /\ CountersWhole /\ StatsClose
  BY DEF ObservabilityInv
<1>1. reporter'[r] = x /\ \A q \in Reporters : q # r => reporter'[q] = reporter[q] BY <1>0
<1>2. reporter' \in [Reporters -> {Quiet} \cup Recording] BY <1>0
<1>7. x \in {Quiet} \cup Recording OBVIOUS
<1>3. ObservabilityTypeOK'
  <2>1. x.pc \in {"outcome", "locking", "telling"} BY DEF Recording
  <2>2. \A q \in Reporters : reporter'[q].pc \in {"quiet", "outcome", "locking", "telling"}
    BY <1>0, <1>1, <2>1 DEF ObservabilityTypeOK
  <2> QED BY <1>0, <2>2 DEF ObservabilityTypeOK
<1>4. ProvidersWhole'
  <2>1. \A q \in Reporters : reporter'[q].pc = "telling" =>
          /\ Distinct(reporter'[q].to)
          /\ \A b \in Backends : Within(b, reporter'[q].to) => Within(b, global.providers)
    BY <1>0, <1>1 DEF ProvidersWhole
  <2>2. \A b \in Backends : ~Within(b, global.providers) => backend[b].counters = Zeros
    BY <1>0 DEF ProvidersWhole
  <2> QED BY <1>0, <2>1, <2>2 DEF ProvidersWhole, Distinct, Within
<1>5. CountersWhole'
  <2>1. ASSUME NEW k \in Kinds, NEW f \in Fields
        PROVE  /\ builtIn'[k][f] = finished[k][f] + Cardinality(Counting(k, f)')
               /\ \A b \in Backends : Within(b, global.providers) =>
                    backend[b].counters[k][f] + missed[b][k][f] 
                      = finished[k][f] + Cardinality(Telling(b, k, f)')
    <3>0. /\ Shift(Cardinality(Counting(k, f)), Cardinality(Counting(k, f)'),
                   Counts(reporter[r], k, f), Counts(x, k, f))
          /\ \A b : Shift(Cardinality(Telling(b, k, f)), Cardinality(Telling(b, k, f)'),
                          Tells(reporter[r], b, k, f), Tells(x, b, k, f))
      BY <1>0, <1>7, OneReporter
    <3>1. builtIn[k][f] = finished[k][f] + Cardinality(Counting(k, f)) BY <1>0 DEF CountersWhole
    <3>2. builtIn[k][f] \in Nat /\ finished[k][f] \in Nat BY ObservedTypes
    <3>3. builtIn'[k][f] = finished[k][f] + Cardinality(Counting(k, f)')
      <4>1. CASE /\ Counts(x, k, f) /\ ~Counts(reporter[r], k, f)
                 /\ builtIn'[k][f] = builtIn[k][f] + 1
        <5>1. Cardinality(Counting(k, f)') = Cardinality(Counting(k, f)) + 1
                /\ Cardinality(Counting(k, f)) \in Nat
          BY <3>0, <4>1 DEF Shift
        <5> QED BY <3>1, <3>2, <4>1, <5>1, OneMoreOfTwo
      <4>2. CASE /\ Counts(x, k, f) <=> Counts(reporter[r], k, f)
                 /\ builtIn'[k][f] = builtIn[k][f]
        <5>1. Cardinality(Counting(k, f)') = Cardinality(Counting(k, f)) BY <3>0, <4>2 DEF Shift
        <5> QED BY <3>1, <4>2, <5>1
      <4> QED BY <4>1, <4>2
    <3>4. ASSUME NEW b \in Backends, Within(b, global.providers)
          PROVE  backend[b].counters[k][f] + missed[b][k][f] 
                      = finished[k][f] + Cardinality(Telling(b, k, f)')
      <4>1. ~Tells(x, b, k, f) /\ ~Tells(reporter[r], b, k, f) BY <3>4 DEF Tells
      <4>2. Cardinality(Telling(b, k, f)') = Cardinality(Telling(b, k, f)) BY <3>0, <4>1 DEF Shift
      <4> QED BY <1>0, <3>4, <4>2 DEF CountersWhole
    <3> QED BY <3>3, <3>4
  <2>2. finished["query"]["all"] = finished["query"]["ok"] + finished["query"]["failed"]
    BY <1>0 DEF CountersWhole
  <2>3. \A b : Within(b, global.providers)' <=> Within(b, global.providers) BY DEF Within
  <2> QED BY <2>1, <2>2, <2>3 DEF CountersWhole
<1>6. StatsClose'
  <2>1. "query" \in Kinds /\ "ok" \in Fields /\ "failed" \in Fields BY DEF Kinds, Fields
  <2>2. builtIn["query"]["ok"] \in Nat /\ builtIn["query"]["failed"] \in Nat BY <2>1, ObservedTypes
  <2>3. /\ builtIn["query"]["ok"] <= builtIn'["query"]["ok"]
        /\ builtIn["query"]["failed"] <= builtIn'["query"]["failed"]
    BY <2>1, <2>2
  <2> QED BY <2>3, StatsStayClose
<1> QED BY <1>2, <1>3, <1>4, <1>5, <1>6 DEF ObservabilityInv

LEMMA QuietIsNone ==
  /\ Quiet.pc = "quiet" /\ \A k, f : ~Counts(Quiet, k, f) /\ \A b : ~Tells(Quiet, b, k, f)
  /\ \A x \in Recording : x # Quiet /\ x.pc # "quiet"
BY DEF Quiet, Counts, Tells, Recording

LEMMA ReportBeginKeeps ==
  ASSUME ObservabilityInv, NEW r \in Reporters, NEW e \in Events, Begin(r, e)
  PROVE  ObservabilityInv'
<1>0. ObservabilityTypeOK BY DEF ObservabilityInv
<1> DEFINE x == [pc |-> IF e.kind = "query" THEN "outcome" ELSE "locking", event |-> e, to |-> <<>>]
<1>1. x \in Recording /\ x.event = e /\ x.pc = (IF e.kind = "query" THEN "outcome" ELSE "locking")
  BY DEF Recording
<1>2. /\ reporter[r] = Quiet /\ reporter' = [reporter EXCEPT ![r] = x]
      /\ global' = [global EXCEPT !.made = TRUE] /\ builtIn' = Total(builtIn, e)
      /\ events < MaxEvents /\ events' = events + 1
      /\ UNCHANGED <<backend, stats, finished, missed>>
  BY DEF Begin
<1> HIDE DEF x
<1>3. ASSUME NEW k \in Kinds, NEW f \in Fields
      PROVE  Counts(x, k, f) <=> e.kind = k /\ f = "all"
  <2>1. CASE e.kind = "query" BY <1>1, <2>1 DEF Counts, Hits
  <2>2. CASE e.kind # "query" BY <1>1, <2>2 DEF Counts, Hits
  <2> QED BY <2>1, <2>2
<1>4. /\ global' \in [made : BOOLEAN, providers : Seq(Backends)]
      /\ global'.made = TRUE /\ global'.providers = global.providers
  BY <1>0, <1>2 DEF ObservabilityTypeOK
<1>5. events' \in 0 .. MaxEvents BY <1>0, <1>2, ObservabilityAssumption DEF ObservabilityTypeOK
<1>6. builtIn \in Counters /\ builtIn' \in Counters BY <1>0, <1>2, TotalCounts DEF ObservabilityTypeOK
<1>7. \A k \in Kinds, f \in Fields :
           \/ /\ Counts(x, k, f) /\ ~Counts(reporter[r], k, f)
              /\ builtIn'[k][f] = builtIn[k][f] + 1
           \/ /\ Counts(x, k, f) <=> Counts(reporter[r], k, f)
              /\ builtIn'[k][f] = builtIn[k][f]
  BY <1>2, <1>3, <1>6, TotalCounts, QuietIsNone
<1>8. reporter[r].pc # "telling" /\ x.pc # "telling" BY <1>1, <1>2, QuietIsNone
<1> QED BY <1>1, <1>2, <1>4, <1>5, <1>6, <1>7, <1>8, ReporterStep

(* A reporter that is under way has made the instance.                      *)
LEMMA UnderWayMade ==
  ASSUME ObservabilityInv, NEW r \in Reporters, reporter[r].pc # "quiet"
  PROVE  /\ reporter[r] \in Recording /\ reporter[r].event \in Events
         /\ reporter[r].to \in Seq(Backends) /\ global.made = TRUE
<1>1. reporter[r] # Quiet BY QuietIsNone
<1>2. reporter[r] \in Recording BY <1>1 DEF ObservabilityInv
<1>3. global.made = TRUE BY <1>1, ObservedTypes DEF ObservabilityInv, ProvidersWhole
<1> QED BY <1>2, <1>3 DEF Recording

LEMMA CountOutcomeKeeps ==
  ASSUME ObservabilityInv, NEW r \in Reporters, CountOutcome(r)
  PROVE  ObservabilityInv'
<1>0. ObservabilityTypeOK BY DEF ObservabilityInv
<1> DEFINE e == reporter[r].event  x == [reporter[r] EXCEPT !.pc = "locking"]
<1>1. /\ reporter[r].pc = "outcome" /\ builtIn' = Outcome(builtIn, e)
      /\ reporter' = [reporter EXCEPT ![r] = x]
      /\ UNCHANGED <<global, backend, stats, events, finished, missed>>
  BY DEF CountOutcome
<1>2. reporter[r] \in Recording /\ e \in Events /\ global.made = TRUE BY <1>1, UnderWayMade
<1>3. x \in Recording /\ x.event = e /\ x.pc = "locking" BY <1>2 DEF Recording
<1> HIDE DEF x, e
<1>4. builtIn \in Counters /\ builtIn' \in Counters BY <1>0, <1>1, <1>2, OutcomeCounts DEF ObservabilityTypeOK
<1>5. \A k, f : /\ Counts(x, k, f) <=> Hits(e, k, f)
                /\ Counts(reporter[r], k, f) <=> Hits(e, k, f) /\ f = "all"
  BY <1>1, <1>3 DEF Counts, e
<1>6. \A k \in Kinds, f \in Fields :
           \/ /\ Counts(x, k, f) /\ ~Counts(reporter[r], k, f)
              /\ builtIn'[k][f] = builtIn[k][f] + 1
           \/ /\ Counts(x, k, f) <=> Counts(reporter[r], k, f)
              /\ builtIn'[k][f] = builtIn[k][f]
  BY <1>1, <1>2, <1>4, <1>5, OutcomeCounts
<1>7. global' \in [made : BOOLEAN, providers : Seq(Backends)] /\ events' \in 0 .. MaxEvents
  BY <1>0, <1>1 DEF ObservabilityTypeOK
<1> QED BY <1>1, <1>2, <1>3, <1>4, <1>6, <1>7, ReporterStep

LEMMA LockProvidersKeeps ==
  ASSUME ObservabilityInv, NEW r \in Reporters, LockProviders(r)
  PROVE  ObservabilityInv'
<1>0. ObservabilityTypeOK BY DEF ObservabilityInv
<1> DEFINE e == reporter[r].event
           x == [reporter[r] EXCEPT !.pc = "telling", !.to = global.providers]
<1>1. /\ reporter[r].pc = "locking"
      /\ reporter' = [reporter EXCEPT ![r].pc = "telling", ![r].to = global.providers]
      /\ UNCHANGED <<global, builtIn, backend, stats, events, finished, missed>>
  BY DEF LockProviders
<1>2. reporter[r] \in Recording /\ e \in Events /\ global.made = TRUE BY <1>1, UnderWayMade
<1>3. global.providers \in Seq(Backends) BY ObservedTypes
<1>4. x \in Recording /\ x.event = e /\ x.pc = "telling" /\ x.to = global.providers
  BY <1>2, <1>3 DEF Recording
<1>6. reporter' = [reporter EXCEPT ![r] = x]
  <2>1. reporter \in [Reporters -> {Quiet} \cup Recording] BY DEF ObservabilityInv
  <2> QED BY <1>1, <2>1
<1> HIDE DEF x, e
<1>7. \A k, f : Counts(x, k, f) <=> Counts(reporter[r], k, f) BY <1>1, <1>4 DEF Counts, e
<1>8. \A k \in Kinds, f \in Fields :
           \/ /\ Counts(x, k, f) /\ ~Counts(reporter[r], k, f)
              /\ builtIn'[k][f] = builtIn[k][f] + 1
           \/ /\ Counts(x, k, f) <=> Counts(reporter[r], k, f)
              /\ builtIn'[k][f] = builtIn[k][f]
  BY <1>1, <1>7
<1>9. /\ global' \in [made : BOOLEAN, providers : Seq(Backends)] /\ events' \in 0 .. MaxEvents
      /\ builtIn' \in Counters
  BY <1>0, <1>1 DEF ObservabilityTypeOK
<1> QED BY <1>1, <1>2, <1>4, <1>6, <1>8, <1>9, ReporterStep

LEMMA TracesKept ==
  ASSUME NEW traces \in Seq(BOOLEAN), NEW e \in Events
  PROVE  Traced(traces, e) \in Seq(BOOLEAN)
<1> DEFINE all == Append(traces, e.ok)
<1>1. all \in Seq(BOOLEAN) /\ all # <<>> BY DEF Events
<1>2. Tail(all) \in Seq(BOOLEAN) BY <1>1, HeadTailProperties
<1> QED BY <1>1, <1>2 DEF Traced

(* A provider is told of an event: it has counted it once.                  *)
LEMMA TellKeeps ==
  ASSUME ObservabilityInv, NEW r \in Reporters, Tell(r)
  PROVE  ObservabilityInv'
<1>0. /\ ObservabilityTypeOK /\ reporter \in [Reporters -> {Quiet} \cup Recording]
      /\ ProvidersWhole /\ CountersWhole /\ StatsClose
  BY DEF ObservabilityInv
<1> DEFINE e == reporter[r].event  l == reporter[r].to  b == Head(l)
           x == [reporter[r] EXCEPT !.to = Tail(l)]
           c == Outcome(Total(backend[b].counters, e), e)
           t == IF b = "opentelemetry" /\ e.kind = "api" THEN Traced(backend[b].traces, e)
                ELSE backend[b].traces
<1>1. /\ reporter[r].pc = "telling" /\ l # <<>>
      /\ reporter' = [reporter EXCEPT ![r] = x]
      /\ UNCHANGED <<global, builtIn, stats, events, finished, missed>>
  BY DEF Tell
<1>2. reporter[r] \in Recording /\ e \in Events /\ l \in Seq(Backends) BY <1>1, UnderWayMade
<1>3. Distinct(l) /\ \A d \in Backends : Within(d, l) => Within(d, global.providers)
  BY <1>0, <1>1 DEF ProvidersWhole
<1>4. /\ b \in Backends /\ Tail(l) \in Seq(Backends) /\ Distinct(Tail(l))
      /\ Within(b, l) /\ ~Within(b, Tail(l))
      /\ \A d \in Backends : d # b => (Within(d, Tail(l)) <=> Within(d, l))
  BY <1>1, <1>2, <1>3, ListTaken
<1>5. x \in Recording /\ x.event = e /\ x.pc = "telling" /\ x.to = Tail(l)
  BY <1>1, <1>2, <1>4 DEF Recording
<1>6. backend \in [Backends -> [counters : Counters, traces : Seq(BOOLEAN)]]
  BY <1>0 DEF ObservabilityTypeOK
<1>7. c \in Counters /\ t \in Seq(BOOLEAN)
  BY <1>2, <1>4, <1>6, EventCounts, TracesKept
<1>8. \A k \in Kinds, f \in Fields :
        /\ Hits(e, k, f) => c[k][f] = backend[b].counters[k][f] + 1
        /\ ~Hits(e, k, f) => c[k][f] = backend[b].counters[k][f]
  BY <1>2, <1>4, <1>6, EventCounts
<1>9. backend' = [backend EXCEPT ![b] = [backend[b] EXCEPT !.counters = c, !.traces = t]]
  BY <1>4, <1>6 DEF Tell
<1> HIDE DEF x, c, t, b, l, e
<1>10. [backend[b] EXCEPT !.counters = c, !.traces = t] \in [counters : Counters, traces : Seq(BOOLEAN)]
         /\ [backend[b] EXCEPT !.counters = c, !.traces = t].counters = c
  BY <1>4, <1>6, <1>7
<1>11. /\ backend' \in [Backends -> [counters : Counters, traces : Seq(BOOLEAN)]]
       /\ backend'[b].counters = c /\ \A d \in Backends : d # b => backend'[d] = backend[d]
  BY <1>4, <1>6, <1>9, <1>10
<1>12. reporter'[r] = x /\ (\A q \in Reporters : q # r => reporter'[q] = reporter[q])
         /\ reporter' \in [Reporters -> {Quiet} \cup Recording]
  BY <1>0, <1>1, <1>5
<1>13. ObservabilityTypeOK'
  <2>1. \A q \in Reporters : reporter'[q].pc \in {"quiet", "outcome", "locking", "telling"}
    BY <1>0, <1>5, <1>12 DEF ObservabilityTypeOK
  <2> QED BY <1>0, <1>1, <1>11, <2>1 DEF ObservabilityTypeOK
<1>14. ProvidersWhole'
  <2>1. \A q \in Reporters : reporter'[q].pc = "telling" =>
          /\ Distinct(reporter'[q].to)
          /\ \A d \in Backends : Within(d, reporter'[q].to) => Within(d, global.providers)
    <3> TAKE q \in Reporters
    <3>1. CASE q = r BY <3>1, <1>3, <1>4, <1>5, <1>12
    <3>2. CASE q # r BY <3>2, <1>0, <1>12 DEF ProvidersWhole
    <3> QED BY <3>1, <3>2
  <2>2. \A d \in Backends : ~Within(d, global.providers) => backend'[d].counters = Zeros
    <3>1. Within(b, global.providers) BY <1>3, <1>4
    <3> QED BY <1>0, <1>11, <3>1 DEF ProvidersWhole
  <2>3. global.made = TRUE BY <1>1, UnderWayMade
  <2> QED BY <1>0, <1>1, <2>1, <2>2, <2>3 DEF ProvidersWhole, Distinct, Within
<1>15. CountersWhole'
  <2>1. ASSUME NEW k \in Kinds, NEW f \in Fields
        PROVE  /\ builtIn[k][f] = finished[k][f] + Cardinality(Counting(k, f)')
               /\ \A d \in Backends : Within(d, global.providers) =>
                    backend'[d].counters[k][f] + missed[d][k][f] 
                      = finished[k][f] + Cardinality(Telling(d, k, f)')
    <3>0. /\ Shift(Cardinality(Counting(k, f)), Cardinality(Counting(k, f)'),
                   Counts(reporter[r], k, f), Counts(x, k, f))
          /\ \A d : Shift(Cardinality(Telling(d, k, f)), Cardinality(Telling(d, k, f)'),
                          Tells(reporter[r], d, k, f), Tells(x, d, k, f))
      <4>1. x \in {Quiet} \cup Recording BY <1>5
      <4> QED BY <1>0, <1>1, <4>1, OneReporter
    <3>1. Counts(reporter[r], k, f) <=> Counts(x, k, f) BY <1>1, <1>5 DEF Counts, e
    <3>2. Cardinality(Counting(k, f)') = Cardinality(Counting(k, f)) BY <3>0, <3>1 DEF Shift
    <3>3. /\ Tells(x, b, k, f) <=> Hits(e, k, f)
          /\ ~Tells(reporter[r], b, k, f)
          /\ \A d \in Backends : d # b => (Tells(x, d, k, f) <=> Tells(reporter[r], d, k, f))
      BY <1>1, <1>4, <1>5 DEF Tells, e, l
    <3>4. ASSUME NEW d \in Backends, Within(d, global.providers)
          PROVE  backend'[d].counters[k][f] + missed[d][k][f] 
                   = finished[k][f] + Cardinality(Telling(d, k, f)')
      <4>1. backend[d].counters[k][f] + missed[d][k][f] = finished[k][f] + Cardinality(Telling(d, k, f))
        BY <1>0, <3>4 DEF CountersWhole
      <4>2. /\ backend[d].counters[k][f] \in Nat /\ missed[d][k][f] \in Nat /\ finished[k][f] \in Nat
            /\ Cardinality(Telling(d, k, f)) \in Nat
        BY <3>0, ObservedTypes DEF Shift
      <4>3. CASE d # b
        <5>1. Cardinality(Telling(d, k, f)') = Cardinality(Telling(d, k, f))
          BY <3>0, <3>3, <4>3 DEF Shift
        <5> QED BY <1>11, <4>1, <4>3, <5>1
      <4>4. CASE d = b /\ Hits(e, k, f)
        <5>1. Cardinality(Telling(d, k, f)') = Cardinality(Telling(d, k, f)) + 1
          BY <3>0, <3>3, <4>4 DEF Shift
        <5>2. backend'[d].counters[k][f] = backend[d].counters[k][f] + 1 BY <1>8, <1>11, <4>4
        <5> QED BY <4>1, <4>2, <5>1, <5>2, OneMoreOfFour
      <4>5. CASE d = b /\ ~Hits(e, k, f)
        <5>1. Cardinality(Telling(d, k, f)') = Cardinality(Telling(d, k, f))
          BY <3>0, <3>3, <4>5 DEF Shift
        <5>2. backend'[d].counters[k][f] = backend[d].counters[k][f] BY <1>8, <1>11, <4>5
        <5> QED BY <4>1, <5>1, <5>2
      <4> QED BY <4>3, <4>4, <4>5
    <3> QED BY <1>0, <3>2, <3>4 DEF CountersWhole
  <2>2. finished["query"]["all"] = finished["query"]["ok"] + finished["query"]["failed"]
    BY <1>0 DEF CountersWhole
  <2> QED BY <1>1, <2>1, <2>2 DEF CountersWhole, Within
<1>16. StatsClose'
  BY <1>0, <1>1 DEF StatsClose
<1> QED BY <1>12, <1>13, <1>14, <1>15, <1>16 DEF ObservabilityInv

(* An event is over: who was under way with it had it counted everywhere.   *)
LEMMA ToldKeeps ==
  ASSUME ObservabilityInv, NEW r \in Reporters, Told(r)
  PROVE  ObservabilityInv'
<1>0. /\ ObservabilityTypeOK /\ reporter \in [Reporters -> {Quiet} \cup Recording]
      /\ ProvidersWhole /\ CountersWhole /\ StatsClose
  BY DEF ObservabilityInv
<1> DEFINE e == reporter[r].event
<1>1. /\ reporter[r].pc = "telling" /\ reporter[r].to = <<>>
      /\ reporter' = [reporter EXCEPT ![r] = Quiet]
      /\ finished' = Outcome(Total(finished, e), e)
      /\ UNCHANGED <<global, builtIn, backend, stats, events, missed>>
  BY DEF Told
<1>2. e \in Events /\ finished \in Counters BY <1>0, <1>1, UnderWayMade DEF ObservabilityTypeOK
<1>3. finished' \in Counters
        /\ \A k \in Kinds, f \in Fields :
             /\ Hits(e, k, f) => finished'[k][f] = finished[k][f] + 1
             /\ ~Hits(e, k, f) => finished'[k][f] = finished[k][f]
  BY <1>1, <1>2, EventCounts
<1> HIDE DEF e
<1>4. reporter'[r] = Quiet /\ (\A q \in Reporters : q # r => reporter'[q] = reporter[q])
         /\ reporter' \in [Reporters -> {Quiet} \cup Recording]
  BY <1>0, <1>1
<1>5. ObservabilityTypeOK'
  <2>1. \A q \in Reporters : reporter'[q].pc \in {"quiet", "outcome", "locking", "telling"}
    BY <1>0, <1>4, QuietIsNone DEF ObservabilityTypeOK
  <2> QED BY <1>0, <1>1, <1>3, <2>1 DEF ObservabilityTypeOK
<1>6. ProvidersWhole'
  <2>1. \A q \in Reporters : reporter'[q].pc = "telling" => q # r BY <1>4, QuietIsNone
  <2>2. global.made = TRUE BY <1>1, UnderWayMade
  <2> QED BY <1>0, <1>1, <1>4, <2>1, <2>2 DEF ProvidersWhole, Distinct, Within
<1>7. ~Within("prometheus", <<>>) /\ \A d : ~Within(d, <<>>) BY DEF Within
<1>8. CountersWhole'
  <2>1. ASSUME NEW k \in Kinds, NEW f \in Fields
        PROVE  /\ builtIn[k][f] = finished'[k][f] + Cardinality(Counting(k, f)')
               /\ \A d \in Backends : Within(d, global.providers) =>
                    backend[d].counters[k][f] + missed[d][k][f] 
                      = finished'[k][f] + Cardinality(Telling(d, k, f)')
    <3>0. /\ Shift(Cardinality(Counting(k, f)), Cardinality(Counting(k, f)'),
                   Counts(reporter[r], k, f), Counts(Quiet, k, f))
          /\ \A d : Shift(Cardinality(Telling(d, k, f)), Cardinality(Telling(d, k, f)'),
                          Tells(reporter[r], d, k, f), Tells(Quiet, d, k, f))
      <4>1. Quiet \in {Quiet} \cup Recording OBVIOUS
      <4> QED BY <1>0, <1>1, <4>1, OneReporter
    <3>1. /\ Counts(reporter[r], k, f) <=> Hits(e, k, f)
          /\ ~Counts(Quiet, k, f)
          /\ \A d : (Tells(reporter[r], d, k, f) <=> Hits(e, k, f)) /\ ~Tells(Quiet, d, k, f)
      BY <1>1, <1>7, QuietIsNone DEF Counts, Tells, e
    <3>2. finished[k][f] \in Nat BY ObservedTypes
    <3>3. builtIn[k][f] = finished[k][f] + Cardinality(Counting(k, f)) BY <1>0 DEF CountersWhole
    <3>4. builtIn[k][f] = finished'[k][f] + Cardinality(Counting(k, f)')
      <4>1. CASE Hits(e, k, f)
        <5>1. /\ Cardinality(Counting(k, f)') = Cardinality(Counting(k, f)) - 1 
              /\ Cardinality(Counting(k, f)) \in Nat
          BY <3>0, <3>1, <4>1 DEF Shift
        <5>2. finished'[k][f] = finished[k][f] + 1 BY <1>3, <4>1
        <5> QED BY <3>2, <3>3, <5>1, <5>2, MovedOver
      <4>2. CASE ~Hits(e, k, f)
        <5>1. Cardinality(Counting(k, f)') = Cardinality(Counting(k, f)) BY <3>0, <3>1, <4>2 DEF Shift
        <5> QED BY <1>3, <3>3, <4>2, <5>1
      <4> QED BY <4>1, <4>2
    <3>5. ASSUME NEW d \in Backends, Within(d, global.providers)
          PROVE  backend[d].counters[k][f] + missed[d][k][f] 
                   = finished'[k][f] + Cardinality(Telling(d, k, f)')
      <4>0. backend[d].counters[k][f] + missed[d][k][f] = finished[k][f] + Cardinality(Telling(d, k, f))
        BY <1>0, <3>5 DEF CountersWhole
      <4>1. CASE Hits(e, k, f)
        <5>1. /\ Cardinality(Telling(d, k, f)') = Cardinality(Telling(d, k, f)) - 1 
              /\ Cardinality(Telling(d, k, f)) \in Nat
          BY <3>0, <3>1, <4>1 DEF Shift
        <5>2. finished'[k][f] = finished[k][f] + 1 BY <1>3, <4>1
        <5> QED BY <3>2, <4>0, <5>1, <5>2, MovedOver
      <4>2. CASE ~Hits(e, k, f)
        <5>1. Cardinality(Telling(d, k, f)') = Cardinality(Telling(d, k, f)) BY <3>0, <3>1, <4>2 DEF Shift
        <5> QED BY <1>3, <4>0, <4>2, <5>1
      <4> QED BY <4>1, <4>2
    <3> QED BY <3>4, <3>5
  <2>2. finished'["query"]["all"] = finished'["query"]["ok"] + finished'["query"]["failed"]
    <3>1. finished["query"]["all"] = finished["query"]["ok"] + finished["query"]["failed"]
      BY <1>0 DEF CountersWhole
    <3>2. /\ finished["query"]["all"] \in Nat /\ finished["query"]["ok"] \in Nat
          /\ finished["query"]["failed"] \in Nat
      BY ObservedTypes
    <3>3. "query" \in Kinds /\ "all" \in Fields /\ "ok" \in Fields /\ "failed" \in Fields
      BY DEF Kinds, Fields
    <3>4. CASE e.kind # "query"
      <4>1. \A f \in Fields : ~Hits(e, "query", f) BY <3>4 DEF Hits
      <4> QED BY <1>3, <3>1, <3>3, <4>1
    <3>5. CASE e.kind = "query" /\ e.ok
      <4>1. Hits(e, "query", "all") /\ Hits(e, "query", "ok") /\ ~Hits(e, "query", "failed")
        BY <3>5 DEF Hits
      <4>2. /\ finished'["query"]["all"] = finished["query"]["all"] + 1
            /\ finished'["query"]["ok"] = finished["query"]["ok"] + 1
            /\ finished'["query"]["failed"] = finished["query"]["failed"]
        BY <1>3, <3>3, <4>1
      <4> QED BY <3>1, <3>2, <4>2
    <3>6. CASE e.kind = "query" /\ ~e.ok
      <4>1. Hits(e, "query", "all") /\ ~Hits(e, "query", "ok") /\ Hits(e, "query", "failed")
        BY <3>6 DEF Hits
      <4>2. /\ finished'["query"]["all"] = finished["query"]["all"] + 1
            /\ finished'["query"]["ok"] = finished["query"]["ok"]
            /\ finished'["query"]["failed"] = finished["query"]["failed"] + 1
        BY <1>3, <3>3, <4>1
      <4> QED BY <3>1, <3>2, <4>2
    <3> QED BY <3>4, <3>5, <3>6
  <2> QED BY <1>1, <2>1, <2>2 DEF CountersWhole, Within
<1>9. StatsClose'
  BY <1>0, <1>1 DEF StatsClose
<1> QED BY <1>4, <1>5, <1>6, <1>8, <1>9 DEF ObservabilityInv

LEMMA AddProviderKeeps ==
  ASSUME ObservabilityInv, NEW b \in Backends, AddProvider(b)
  PROVE  ObservabilityInv'
<1>0. /\ ObservabilityTypeOK /\ reporter \in [Reporters -> {Quiet} \cup Recording]
      /\ ProvidersWhole /\ CountersWhole /\ StatsClose
  BY DEF ObservabilityInv
<1> DEFINE l == global.providers
<1>1. /\ \A r \in Reporters : reporter[r].pc # "telling"
      /\ \A i \in DOMAIN l : l[i] # b
      /\ global' = [made |-> TRUE, providers |-> Append(l, b)]
      /\ missed' = [missed EXCEPT ![b] = finished]
      /\ UNCHANGED <<builtIn, backend, reporter, stats, events, finished>>
  BY DEF AddProvider, NoReader
<1>2. l \in Seq(Backends) BY ObservedTypes
<1>3. global'.made = TRUE /\ global'.providers = Append(l, b) BY <1>1
<1> HIDE DEF l
<1>4. /\ Append(l, b) \in Seq(Backends) /\ DOMAIN Append(l, b) = 1 .. Len(l) + 1
      /\ DOMAIN l = 1 .. Len(l) /\ Len(l) \in Nat
      /\ Append(l, b)[Len(l) + 1] = b
      /\ \A i \in 1 .. Len(l) : Append(l, b)[i] = l[i]
  BY <1>2
<1>5. \A d : Within(d, Append(l, b)) <=> d = b \/ Within(d, l)
  <2>1. \A i \in 1 .. Len(l) + 1 : i \in 1 .. Len(l) \/ i = Len(l) + 1 BY <1>4
  <2>2. Len(l) + 1 \in 1 .. Len(l) + 1 /\ 1 .. Len(l) \subseteq 1 .. Len(l) + 1 BY <1>4
  <2> QED BY <1>4, <2>1, <2>2 DEF Within
<1>6. Distinct(Append(l, b))
  <2>1. Distinct(l) BY <1>0 DEF ProvidersWhole, l
  <2> SUFFICES ASSUME NEW i \in 1 .. Len(l) + 1, NEW j \in 1 .. Len(l) + 1,
                      Append(l, b)[i] = Append(l, b)[j]
               PROVE  i = j
    BY <1>4 DEF Distinct
  <2>2. CASE i \in 1 .. Len(l) /\ j \in 1 .. Len(l) BY <1>4, <2>1, <2>2 DEF Distinct
  <2>3. CASE i = Len(l) + 1 /\ j \in 1 .. Len(l) BY <1>1, <1>4, <2>3 DEF l
  <2>4. CASE j = Len(l) + 1 /\ i \in 1 .. Len(l) BY <1>1, <1>4, <2>4 DEF l
  <2> QED BY <1>4, <2>2, <2>3, <2>4
<1>7. ~Within(b, l) BY <1>1 DEF Within, l
<1>8. missed \in [Backends -> Counters] /\ finished \in Counters /\ backend[b].counters = Zeros
  BY <1>0, <1>7 DEF ObservabilityTypeOK, ProvidersWhole, l
<1>9. missed' \in [Backends -> Counters] /\ missed'[b] = finished
        /\ \A d \in Backends : d # b => missed'[d] = missed[d]
  BY <1>1, <1>8
<1>10. ObservabilityTypeOK'
  <2>1. global' \in [made : BOOLEAN, providers : Seq(Backends)] BY <1>1, <1>4 DEF l
  <2> QED BY <1>0, <1>1, <1>9, <2>1 DEF ObservabilityTypeOK
<1>11. ProvidersWhole'
  <2>1. \A d \in Backends : ~Within(d, Append(l, b)) => backend[d].counters = Zeros
    BY <1>0, <1>5 DEF ProvidersWhole, l
  <2>2. Distinct(global.providers)' BY <1>3, <1>6 DEF Distinct
  <2>3. \A d : Within(d, global.providers)' <=> Within(d, Append(l, b)) BY <1>3 DEF Within
  <2> QED BY <1>1, <1>3, <2>1, <2>2, <2>3 DEF ProvidersWhole
<1>12. \A k, f : Counting(k, f)' = Counting(k, f) /\ \A d : Telling(d, k, f)' = Telling(d, k, f)
  BY <1>1 DEF Counting, Telling, Counts, Tells, Hits, Within
<1>13. CountersWhole'
  <2>1. ASSUME NEW k \in Kinds, NEW f \in Fields, NEW d \in Backends, Within(d, Append(l, b))
        PROVE  backend[d].counters[k][f] + missed'[d][k][f] 
                      = finished[k][f] + Cardinality(Telling(d, k, f))
    <3>1. CASE d = b
      <4>1. Telling(d, k, f) = {} BY <1>1 DEF Telling, Tells
      <4>2. Cardinality(Telling(d, k, f)) = 0 BY <4>1, FS_EmptySet
      <4>3. backend[d].counters[k][f] = 0 BY <1>8, <3>1, CounterFields
      <4>4. finished[k][f] \in Nat BY ObservedTypes
      <4> QED BY <1>9, <3>1, <4>2, <4>3, <4>4
    <3>2. CASE d # b
      <4>1. Within(d, global.providers) BY <1>5, <2>1, <3>2 DEF l
      <4> QED BY <1>0, <1>9, <3>2, <4>1 DEF CountersWhole
    <3> QED BY <3>1, <3>2
  <2>2. \A d : Within(d, global.providers)' <=> Within(d, Append(l, b)) BY <1>3 DEF Within
  <2>3. /\ finished["query"]["all"] = finished["query"]["ok"] + finished["query"]["failed"]
        /\ \A k \in Kinds, f \in Fields : builtIn[k][f] = finished[k][f] + Cardinality(Counting(k, f))
    BY <1>0 DEF CountersWhole
  <2> QED BY <1>1, <1>12, <2>1, <2>2, <2>3 DEF CountersWhole
<1>14. StatsClose' BY <1>0, <1>1 DEF StatsClose
<1> QED BY <1>0, <1>1, <1>10, <1>11, <1>13, <1>14 DEF ObservabilityInv

(* The first to make the instance finds that nothing was recorded.          *)
LEMMA InitMetricsKeeps ==
  ASSUME ObservabilityInv, NEW b \in Backends, InitMetricsWithProviders(<<b>>)
  PROVE  ObservabilityInv'
<1>0. /\ ObservabilityTypeOK /\ reporter \in [Reporters -> {Quiet} \cup Recording]
      /\ ProvidersWhole /\ CountersWhole /\ StatsClose
  BY DEF ObservabilityInv
<1>1. /\ global' = IF global.made THEN global ELSE [made |-> TRUE, providers |-> <<b>>]
      /\ UNCHANGED <<builtIn, backend, reporter, stats, events, finished, missed>>
  BY DEF InitMetricsWithProviders
<1>2. \A k, f : Counting(k, f)' = Counting(k, f) /\ \A d : Telling(d, k, f)' = Telling(d, k, f)
  BY <1>1 DEF Counting, Telling, Counts, Tells, Hits, Within
<1>3. StatsClose' BY <1>0, <1>1 DEF StatsClose
<1>4. CASE global.made
  <2>1. global' = global BY <1>1, <1>4
  <2>2. ObservabilityTypeOK' BY <1>0, <1>1, <2>1 DEF ObservabilityTypeOK
  <2>3. ProvidersWhole' BY <1>0, <1>1, <2>1 DEF ProvidersWhole, Distinct, Within
  <2>4. CountersWhole' BY <1>0, <1>1, <1>2, <2>1 DEF CountersWhole, Within
  <2> QED BY <1>0, <1>1, <1>3, <2>2, <2>3, <2>4 DEF ObservabilityInv
<1>5. CASE ~global.made
  <2>1. global' = [made |-> TRUE, providers |-> <<b>>] BY <1>1, <1>5
  <2>2. /\ global.providers = <<>> /\ finished = Zeros
        /\ \A d \in Backends : missed[d] = Zeros
        /\ \A r \in Reporters : reporter[r] = Quiet
    BY <1>0, <1>5 DEF ProvidersWhole
  <2>3. \A d \in Backends : backend[d].counters = Zeros
    BY <1>0, <2>2 DEF ProvidersWhole, Within
  <2>4. global'.made = TRUE /\ global'.providers = <<b>> /\ global' \in [made : BOOLEAN, providers : Seq(Backends)]
    BY <2>1
  <2>5. ObservabilityTypeOK' BY <1>0, <1>1, <2>4 DEF ObservabilityTypeOK
  <2>6. Distinct(<<b>>) BY DEF Distinct
  <2>7. ProvidersWhole'
    <3>1. \A r \in Reporters : reporter[r].pc # "telling" BY <2>2, QuietIsNone
    <3>2. Distinct(global.providers)' BY <2>4, <2>6 DEF Distinct
    <3> QED BY <1>1, <2>3, <2>4, <3>1, <3>2 DEF ProvidersWhole
  <2>8. CountersWhole'
    <3>1. ASSUME NEW k \in Kinds, NEW f \in Fields, NEW d \in Backends
          PROVE  backend[d].counters[k][f] + missed[d][k][f] 
                      = finished[k][f] + Cardinality(Telling(d, k, f))
      <4>1. Telling(d, k, f) = {} BY <2>2, QuietIsNone DEF Telling
      <4>2. Cardinality(Telling(d, k, f)) = 0 BY <4>1, FS_EmptySet
      <4>3. Zeros[k][f] = 0 
        <5>1. Zeros \in Counters BY DEF Zeros, Counters
        <5> QED BY <5>1, CounterFields
      <4> QED BY <2>2, <2>3, <4>2, <4>3
    <3>2. /\ finished["query"]["all"] = finished["query"]["ok"] + finished["query"]["failed"]
          /\ \A k \in Kinds, f \in Fields : builtIn[k][f] = finished[k][f] + Cardinality(Counting(k, f))
      BY <1>0 DEF CountersWhole
    <3> QED BY <1>1, <1>2, <3>1, <3>2 DEF CountersWhole
  <2> QED BY <1>0, <1>1, <1>3, <2>5, <2>7, <2>8 DEF ObservabilityInv
<1> QED BY <1>4, <1>5

(* GetBuiltInStats: at each moment the queries without an outcome are those *)
(* of the goroutines that are recording one.                                *)
LEMMA FewWithoutOutcome ==
  ASSUME ObservabilityInv
  PROVE  builtIn["query"]["all"] <= builtIn["query"]["ok"] + builtIn["query"]["failed"]
                                      + Cardinality(Reporters)
<1>0. CountersWhole BY DEF ObservabilityInv
<1>1. "query" \in Kinds /\ "all" \in Fields /\ "ok" \in Fields /\ "failed" \in Fields
  BY DEF Kinds, Fields
<1>2. IsFiniteSet(Reporters) BY ObservabilityAssumption
<1>3. \A f \in Fields : /\ Cardinality(Counting("query", f)) \in Nat
                        /\ Cardinality(Counting("query", f)) <= Cardinality(Reporters)
  <2> TAKE f \in Fields
  <2>1. Counting("query", f) \in SUBSET Reporters BY DEF Counting
  <2> QED BY <1>2, <2>1, FS_Subset, FS_CardinalityType
<1>4. finished["query"]["all"] = finished["query"]["ok"] + finished["query"]["failed"]
  BY <1>0 DEF CountersWhole
<1>5. \A f \in Fields : /\ builtIn["query"][f] = finished["query"][f] + Cardinality(Counting("query", f))
                        /\ builtIn["query"][f] \in Nat /\ finished["query"][f] \in Nat
  BY <1>0, <1>1, ObservedTypes DEF CountersWhole
<1>6. Cardinality(Reporters) \in Nat BY ObservedTypes
<1>7. \A a, b, c, d, m, n, i, j, k, z :
        /\ a \in Nat /\ b \in Nat /\ c \in Nat /\ i \in Nat /\ j \in Nat /\ k \in Nat /\ z \in Nat
        /\ a = b + c /\ d = a + i /\ m = b + j /\ n = c + k /\ i <= z
        => d <= m + n + z
  OBVIOUS
<1> QED BY <1>1, <1>3, <1>4, <1>5, <1>6, <1>7

LEMMA StatsStepKeeps ==
  ASSUME ObservabilityInv, ReadTotal \/ ReadOk \/ ReadFailed
  PROVE  ObservabilityInv'
<1>0. /\ ObservabilityTypeOK /\ reporter \in [Reporters -> {Quiet} \cup Recording]
      /\ ProvidersWhole /\ CountersWhole /\ StatsClose
  BY DEF ObservabilityInv
<1>1. UNCHANGED <<global, builtIn, backend, reporter, events, finished, missed>>
  BY DEF ReadTotal, ReadOk, ReadFailed
<1>2. ProvidersWhole' BY <1>0, <1>1 DEF ProvidersWhole, Distinct, Within
<1>3. CountersWhole'
  <2>1. \A k, f : Counting(k, f)' = Counting(k, f) /\ \A d : Telling(d, k, f)' = Telling(d, k, f)
    BY <1>1 DEF Counting, Telling, Counts, Tells, Hits, Within
  <2> QED BY <1>0, <1>1, <2>1 DEF CountersWhole, Within
<1> DEFINE S == [pc : {"none", "total", "ok", "read"}, total : Nat, ok : Nat, behind : Nat]
           a == builtIn["query"]["all"]  g == builtIn["query"]["ok"]  h == builtIn["query"]["failed"]
           R == Cardinality(Reporters)
<1>4. a \in Nat /\ g \in Nat /\ h \in Nat /\ R \in Nat
  <2>1. "all" \in Fields /\ "ok" \in Fields /\ "failed" \in Fields BY DEF Fields
  <2> QED BY <2>1, ObservedTypes
<1>5. stats \in S BY <1>0 DEF ObservabilityTypeOK
<1>6. stats' \in S /\ StatsClose'
  <2>1. CASE ReadTotal
    <3>1. stats' = [pc |-> "total", total |-> a, ok |-> 0, behind |-> 0] BY <2>1 DEF ReadTotal
    <3>2. a <= g + h + R BY FewWithoutOutcome
    <3>3. stats' \in S /\ stats'.pc = "total" /\ stats'.total = a BY <1>4, <3>1
    <3> QED BY <1>1, <3>2, <3>3 DEF StatsClose
  <2>2. CASE ReadOk
    <3>1. stats.pc = "total" /\ stats' = [stats EXCEPT !.pc = "ok", !.ok = g] BY <2>2 DEF ReadOk
    <3>2. stats.total <= g + h + R BY <1>0, <3>1 DEF StatsClose
    <3>3. stats' \in S /\ stats'.pc = "ok" /\ stats'.ok = g /\ stats'.total = stats.total
      BY <1>4, <1>5, <3>1
    <3> QED BY <1>1, <3>2, <3>3 DEF StatsClose
  <2>3. CASE ReadFailed
    <3> DEFINE read == stats.ok + h
               n == IF read < stats.total THEN stats.total - read ELSE 0
    <3>1. stats.pc = "ok" /\ stats' = [stats EXCEPT !.pc = "read", !.behind = n] BY <2>3 DEF ReadFailed
    <3>2. stats.total <= stats.ok + h + R BY <1>0, <3>1 DEF StatsClose
    <3>3. stats.ok \in Nat /\ stats.total \in Nat BY <1>5
    <3> HIDE DEF h, R
    <3>4. n \in Nat /\ n <= R BY <1>4, <3>2, <3>3
    <3> HIDE DEF n
    <3>5. stats' \in S /\ stats'.pc = "read" /\ stats'.behind = n BY <1>5, <3>1, <3>4
    <3> QED BY <3>4, <3>5 DEF StatsClose, R
  <2> QED BY <2>1, <2>2, <2>3
<1>7. ObservabilityTypeOK' BY <1>0, <1>1, <1>6 DEF ObservabilityTypeOK
<1> QED BY <1>0, <1>1, <1>2, <1>3, <1>6, <1>7 DEF ObservabilityInv

LEMMA ObservabilityKept == ObservabilityInv /\ [ObservabilityNext]_observed => ObservabilityInv'
<1> SUFFICES ASSUME ObservabilityInv, [ObservabilityNext]_observed PROVE ObservabilityInv' OBVIOUS
<1>1. ASSUME NEW r \in Reporters, RecordWHOISQuery(r) \/ RecordAPIRequest(r) PROVE ObservabilityInv'
  <2>1. PICK ok \in BOOLEAN : \/ Begin(r, [kind |-> "query", ok |-> ok])
                              \/ Begin(r, [kind |-> "api", ok |-> ok])
    BY <1>1 DEF RecordWHOISQuery, RecordAPIRequest
  <2>2. [kind |-> "query", ok |-> ok] \in Events /\ [kind |-> "api", ok |-> ok] \in Events
    BY DEF Events, Kinds
  <2> QED BY <2>1, <2>2, ReportBeginKeeps
<1>2. CASE UNCHANGED observed
  <2> USE <1>2 DEF observed
  <2>1. \A k, f : Counting(k, f)' = Counting(k, f) /\ \A d : Telling(d, k, f)' = Telling(d, k, f)
    BY DEF Counting, Telling, Counts, Tells, Hits, Within
  <2>2. CountersWhole => CountersWhole' BY <2>1 DEF CountersWhole, Within
  <2>3. ProvidersWhole => ProvidersWhole' BY DEF ProvidersWhole, Distinct, Within
  <2>4. ObservabilityTypeOK => ObservabilityTypeOK' BY DEF ObservabilityTypeOK
  <2>5. StatsClose => StatsClose' BY DEF StatsClose
  <2> QED BY <2>2, <2>3, <2>4, <2>5 DEF ObservabilityInv
<1> QED BY <1>1, <1>2, CountOutcomeKeeps, LockProvidersKeeps, TellKeeps, ToldKeeps, AddProviderKeeps,
           InitMetricsKeeps, StatsStepKeeps
  DEF ObservabilityNext

(* CompositeMetrics, however many goroutines record at once: when they are  *)
(* over, every provider has every event that was not over when it was       *)
(* added, none twice, and the outcomes add up to the total; statistics      *)
(* that are read meanwhile lack the outcome of no more queries than there   *)
(* are goroutines.                                                          *)
THEOREM ProvidersAgree == ObservabilitySpec => []BackendsAgree
<1>1. ObservabilityInv => BackendsAgree
  <2> SUFFICES ASSUME ObservabilityInv PROVE BackendsAgree OBVIOUS
  <2>0. CountersWhole /\ StatsClose BY DEF ObservabilityInv
  <2>1. ASSUME \A r \in Reporters : reporter[r] = Quiet
        PROVE  /\ builtIn.query.all = builtIn.query.ok + builtIn.query.failed
               /\ \A i \in DOMAIN global.providers : \A k \in Kinds, f \in Fields :
                    LET b == global.providers[i] IN
                    backend[b].counters[k][f] + missed[b][k][f] = builtIn[k][f]
    <3>1. \A k, f : Counting(k, f) = {} /\ \A b : Telling(b, k, f) = {}
      BY <2>1, QuietIsNone DEF Counting, Telling
    <3>2. \A k \in Kinds, f \in Fields : builtIn[k][f] = finished[k][f] /\ finished[k][f] \in Nat
      <4> TAKE k \in Kinds, f \in Fields
      <4>1. Cardinality(Counting(k, f)) = 0 BY <3>1, FS_EmptySet
      <4>2. finished[k][f] \in Nat BY ObservedTypes
      <4> QED BY <2>0, <4>1, <4>2 DEF CountersWhole
    <3>3. "query" \in Kinds /\ "all" \in Fields /\ "ok" \in Fields /\ "failed" \in Fields
      BY DEF Kinds, Fields
    <3>4. builtIn["query"]["all"] = builtIn["query"]["ok"] + builtIn["query"]["failed"]
      BY <2>0, <3>2, <3>3 DEF CountersWhole
    <3>5. ASSUME NEW i \in DOMAIN global.providers, NEW k \in Kinds, NEW f \in Fields
          PROVE  backend[global.providers[i]].counters[k][f] + missed[global.providers[i]][k][f]
                   = builtIn[k][f]
      <4> DEFINE b == global.providers[i]
      <4>1. b \in Backends /\ Within(b, global.providers)
        <5>1. global.providers \in Seq(Backends) BY ObservedTypes
        <5> QED BY <5>1 DEF Within
      <4>2. Cardinality(Telling(b, k, f)) = 0 BY <3>1, FS_EmptySet
      <4> HIDE DEF b
      <4>3. backend[b].counters[k][f] + missed[b][k][f] = finished[k][f] + Cardinality(Telling(b, k, f))
        BY <2>0, <4>1 DEF CountersWhole
      <4>4. backend[b].counters[k][f] + missed[b][k][f] = builtIn[k][f] BY <3>2, <4>2, <4>3
      <4> QED BY <4>4 DEF b
    <3> QED BY <3>4, <3>5
  <2>2. "all" \in Fields /\ "ok" \in Fields /\ "failed" \in Fields BY DEF Fields
  <2>3. stats.pc = "read" => stats.behind <= Cardinality(Reporters) BY <2>0 DEF StatsClose
  <2> QED BY <2>1, <2>2, <2>3 DEF BackendsAgree
<1> QED BY <1>1, ObservabilityBegin, ObservabilityKept, PTL DEF ObservabilitySpec
=============================================================================
