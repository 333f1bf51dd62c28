------------------------------ MODULE Correlation ------------------------------
(***************************************************************************)
(* The correlation engine of pkg/whois/correlation.go: AddDomain enters a   *)
(* domain into the clusters of what its record shows, and the rest is read  *)
(* off the clusters.  What a record shows is a set of attributes, each a    *)
(* type with a key as it is spelled there; summaries and distributions are  *)
(* left out.                                                                *)
(***************************************************************************)
EXTENDS Naturals, Sequences, FiniteSets

CONSTANTS
  Related,      \* the domains that are added
  WhoisInfos,   \* the records they are added with: sets of attributes
  Normal,       \* what AddDomain makes of the spelling of each attribute
  PrivateKeys,  \* keys that stand for a privacy service
  NilInfo,      \* the record of a domain whose query failed
  Absent        \* no record: the domain was never added

VARIABLES
  domainMap,  \* the last record of each domain
  clusters,   \* Cluster.Domains of each attribute, in the order they came
  shown,      \* history: the attributes each domain has ever shown
  before      \* history: <<a, d, e>> if d showed the attribute a before e did

correlation == <<domainMap, clusters, shown, before>>
-----------------------------------------------------------------------------
Spelled    == UNION WhoisInfos
Attributes == {Normal[a] : a \in Spelled}
Contact    == {"email", "registrant", "organization"}

(* Maps and slices are finite; a nil record and a missing one are none.     *)
ASSUME CorrelationAssumption ==
  /\ IsFiniteSet(Attributes) /\ Spelled \subseteq DOMAIN Normal
  /\ \A a \in Spelled : Normal[a].type = a.type
  /\ {NilInfo, Absent} \cap WhoisInfos = {} /\ NilInfo # Absent

CorrelationInit ==
  /\ domainMap = [d \in Related |-> Absent]
  /\ clusters = [a \in Attributes |-> <<>>]
  /\ shown = [d \in Related |-> {}] /\ before = {}

(* The keys are trimmed and put in one case (NormalizeContactField).        *)
(* isPrivacyEmail, isPrivacyName and isPrivacyOrg: the contact of a privacy *)
(* service relates nothing; name servers and registrars always do.          *)
Clustered(info) ==
  IF info = NilInfo THEN {}
  ELSE {a \in {Normal[b] : b \in info} : a.type \notin Contact \/ a.key \notin PrivateKeys}

(* addToCluster.  Mutation: a domain is entered again.                      *)
EnteredAgain(domains, d) == Append(domains, d)
Entered(domains, d) ==
  IF \E i \in DOMAIN domains : domains[i] = d THEN domains ELSE Append(domains, d)

(* AddDomain: a domain added again keeps the clusters of its old records.   *)
AddDomain(d, info) ==
  /\ domainMap' = [domainMap EXCEPT ![d] = info]
  /\ clusters' = [a \in Attributes |->
       IF a \in Clustered(info) THEN Entered(clusters[a], d) ELSE clusters[a]]
  /\ shown' = [shown EXCEPT ![d] = @ \cup Clustered(info)]
  /\ before' = before \cup {<<p[1], p[2], d>> : p \in
       {q \in (Clustered(info) \ shown[d]) \X Related : q[1] \in shown[q[2]]}}

CorrelationNext == \E d \in Related, info \in WhoisInfos \cup {NilInfo} : AddDomain(d, info)
CorrelationSpec == CorrelationInit /\ [][CorrelationNext]_correlation
-----------------------------------------------------------------------------
(* Analyze: the clusters of two domains and more.                           *)
Significant == {a \in Attributes : Len(clusters[a]) >= 2}

(* buildCorrelationGraph: an edge from the earlier to the later domain for  *)
(* each cluster, merged by source and target: the strength of source|target. *)
Follows(a, source, target) ==
  \E i, j \in DOMAIN clusters[a] :
    i < j /\ clusters[a][i] = source /\ clusters[a][j] = target
Strength(source, target) == Cardinality({a \in Significant : Follows(a, source, target)})
Edges == {e \in Related \X Related : Strength(e[1], e[2]) > 0}
Nodes == {d \in Related : domainMap[d] # Absent}

Domains(a) == {clusters[a][i] : i \in DOMAIN clusters[a]}

(* GetAssetProfile, of a contact: the domains that have a record now.       *)
AssetProfile(a) == {d \in Domains(a) : domainMap[d] # NilInfo}

(* GetRegistrarStats reads the records of today, with an entry for each     *)
(* spelling of a registrar, and ends in a nil dereference if one is nil.    *)
StatsPanic == \E d \in Nodes : domainMap[d] = NilInfo
RegistrarStat(spelled) == {d \in Nodes : spelled \in domainMap[d]}
-----------------------------------------------------------------------------
CorrelationTypeOK ==
  /\ domainMap \in [Related -> WhoisInfos \cup {NilInfo, Absent}]
  /\ clusters \in [Attributes -> Seq(Related)]
  /\ shown \in [Related -> SUBSET Attributes]
  /\ before \subseteq Attributes \X Related \X Related

(* In whatever order domains are added, again and with other records: the   *)
(* edge from one domain to another is as strong as the attributes are many  *)
(* that the one showed before the other.  Two domains that each showed some *)
(* of them first have two edges, which only together are as strong as what  *)
(* they share, where correlation.md:234 has them merged into one: the key   *)
(* of a merge is source|target (line 481).  No domain is related to itself, *)
(* the ends of an edge are nodes, the profile of a contact has every domain *)
(* that shows it now, and the domains that the statistics count for any     *)
(* spelling of a registrar (line 587) are in its one cluster (line 278).    *)
StrengthShared ==
  /\ \A d, e \in Related :
       /\ Strength(d, e) = Cardinality({a \in Attributes : <<a, d, e>> \in before})
       /\ Strength(d, e) + Strength(e, d) =
            IF d = e THEN 0 ELSE Cardinality(shown[d] \cap shown[e])
  /\ \A edge \in Edges : edge[1] \in Nodes /\ edge[2] \in Nodes
  /\ \A a \in Attributes : a.type \in Contact =>
       \A d \in Nodes : a \in Clustered(domainMap[d]) => d \in AssetProfile(a)
  /\ \A r \in Spelled : r.type = "registrar" /\ ~StatsPanic =>
       RegistrarStat(r) \subseteq Domains(Normal[r])
=============================================================================
