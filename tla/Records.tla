-------------------------------- MODULE Records --------------------------------
(***************************************************************************)
(* What is made of a parsed record: the comparison of diff.go and that of   *)
(* two snapshots in history.go, the merge of a referral in query.go, and    *)
(* the score of quality.go.  A record of a registry changes field by field, *)
(* and may be saved at any time; saved and live, any two records meet.      *)
(* Of a record those fields are kept that the four treat differently.       *)
(***************************************************************************)
EXTENDS Naturals, FiniteSets

CONSTANTS
  Names,           \* the values of a registrant's name: "" if it has none, others below
  RegistrarNames,  \* and of a registrar's
  Nil              \* a section that a record has not got, or no record

ASSUME RecordsAssumption ==
  Names \subseteq {"", "plain", "private", "n/a"} /\ RegistrarNames \subseteq {"", "x"}

VARIABLES
  saved,  \* the record saved last, Nil if none was
  live    \* the record of the registry

compared == <<saved, live>>
-----------------------------------------------------------------------------
Shows == {"", "x"}  \* the values of a text field

(* The id stands for the texts that compareDomain leaves out: ID, Domain,    *)
(* Name, Punycode and Extension.  Name servers come in two cases.            *)
DomainTexts == {"id", "created", "updated"}
DomainInfo  == [id : Shows, created : Shows, updated : Shows,
                status : SUBSET {"ok"}, servers : SUBSET {"ns", "NS"}]
Registrar  == [name : RegistrarNames]
Registrant == [name : Names]  \* the other fields and contacts are like it

WhoisInfo == [domain : DomainInfo \cup {Nil}, registrar : Registrar \cup {Nil},
              registrant : Registrant \cup {Nil}]

(* What stands for nothing is no section and no record.                     *)
ASSUME NilAssumption == Nil \notin DomainInfo \cup Registrar \cup Registrant \cup WhoisInfo

Empty == [domain |-> Nil, registrar |-> Nil, registrant |-> Nil]

RecordsInit == saved = Nil /\ live = Empty

(* The registry adds, changes or drops a section, of a domain one field.    *)
Blank == [id |-> "", created |-> "", updated |-> "", status |-> {}, servers |-> {}]
EvolveDomain ==
  \/ live' = [live EXCEPT !.domain = IF @ = Nil THEN Blank ELSE Nil]
  \/ /\ live.domain # Nil
     /\ \/ \E f \in DomainTexts, v \in Shows : live' = [live EXCEPT !.domain[f] = v]
        \/ \E list \in SUBSET {"ok"} : live' = [live EXCEPT !.domain.status = list]
        \/ \E list \in {{}, {"ns"}, {"NS"}} : live' = [live EXCEPT !.domain.servers = list]

Evolve ==
  /\ \/ EvolveDomain
     \/ \E r \in Registrar \cup {Nil} : live' = [live EXCEPT !.registrar = r]
     \/ \E c \in Registrant \cup {Nil} : live' = [live EXCEPT !.registrant = c]
  /\ UNCHANGED saved

Save == saved' = live /\ UNCHANGED live

RecordsNext == Evolve \/ Save
RecordsSpec == RecordsInit /\ [][RecordsNext]_compared
-----------------------------------------------------------------------------
FieldChange(type, path) == [type |-> type, path |-> path]
RecordSections == {"domain", "registrar", "registrant"}

(* A section that only one of two records has.                              *)
SectionChange(old, new, s) ==
  (IF old[s] = Nil /\ new[s] # Nil THEN {FieldChange("added", <<s>>)} ELSE {})
    \cup (IF old[s] # Nil /\ new[s] = Nil THEN {FieldChange("removed", <<s>>)} ELSE {})
Both(old, new) == {s \in RecordSections : old[s] # Nil /\ new[s] # Nil}

(* Text fields, of a section and of all of them but some.                   *)
Texts(s) == IF s = "domain" THEN DomainTexts ELSE {"name"}
TextChanges(old, new, omitted) ==
  UNION {{FieldChange("modified", <<s, f>>) :
            f \in {g \in Texts(s) \ omitted : old[s][g] # new[s][g]}} : s \in Both(old, new)}

(* strings.ToLower.                                                         *)
Folded(list) == {IF x = "NS" THEN "ns" ELSE x : x \in list}

(* What is in one list only.  Mutation: what has gone is not looked for.    *)
ListChangesNew(path, old, new) == {FieldChange("added", <<path, x>>) : x \in new \ old}
ListChanges(path, old, new) ==
  {FieldChange("added", <<path, x>>) : x \in new \ old}
    \cup {FieldChange("removed", <<path, x>>) : x \in old \ new}

(* CompareWhois, compareDomain and compareContact; compareStringSlices      *)
(* takes names that differ in case for one.                                 *)
CompareWhois(old, new) ==
  IF old = Nil /\ new = Nil THEN {}
  ELSE IF old = Nil THEN {FieldChange("added", <<".">>)} ELSE IF new = Nil THEN {FieldChange("removed", <<".">>)}
  ELSE TextChanges(old, new, {"id"}) \cup (UNION {SectionChange(old, new, s) : s \in RecordSections})
         \cup IF "domain" \notin Both(old, new) THEN {}
              ELSE ListChanges("status", Folded(old.domain.status), Folded(new.domain.status))
                     \cup ListChanges("servers", Folded(old.domain.servers), Folded(new.domain.servers))

(* CompareSnapshots: compareStructFields sees every text and no lists, and  *)
(* of the two only the name servers are compared beside it, as spelled, by  *)
(* compareStringLists.                                                      *)
CompareSnapshots(from, to) ==
  IF from = Nil \/ to = Nil THEN {}
  ELSE TextChanges(from, to, {}) \cup (UNION {SectionChange(from, to, s) : s \in RecordSections})
         \cup IF "domain" \notin Both(from, to) THEN {}
              ELSE ListChanges("servers", from.domain.servers, to.domain.servers)
-----------------------------------------------------------------------------
(* mergeWhoisInfo: the registrar's word over that of the registry.          *)
Or(value, none, other) == IF value # none THEN value ELSE other
MergedDomain(base, override) ==
  IF override = Nil THEN base
  ELSE IF base = Nil THEN override
  ELSE [base EXCEPT !.status  = Or(override.status, {}, @),
                    !.servers = Or(override.servers, {}, @),
                    !.updated = Or(override.updated, "", @)]
MergeWhoisInfo(base, override) ==
  [domain     |-> MergedDomain(base.domain, override.domain),
   registrar  |-> Or(override.registrar, Nil, base.registrar),
   registrant |-> Or(override.registrant, Nil, base.registrant)]
-----------------------------------------------------------------------------
(* assessCompleteness: the fields that are there, by weight; the weights of *)
(* all seventeen make 99.                                                   *)
Weight ==
  [domain |-> 15, created |-> 10, updated |-> 5, status |-> 5, servers |-> 5,
   registrar |-> 10, registrant |-> 8]
Present(info) ==
  (IF info.domain = Nil THEN {}
   ELSE {"domain"} \cup {f \in {"created", "updated"} : info.domain[f] # ""}
          \cup {f \in {"status", "servers"} : info.domain[f] # {}})
    \cup {f \in {"registrar"} : info.registrar # Nil /\ info.registrar.name # ""}
    \cup {f \in {"registrant"} : info.registrant # Nil /\ info.registrant.name # ""}

WeightOf(f, present) == IF f \in present THEN Weight[f] ELSE 0
Achieved(p) ==
  WeightOf("domain", p) + WeightOf("created", p) + WeightOf("updated", p) + WeightOf("status", p)
    + WeightOf("servers", p) + WeightOf("registrar", p) + WeightOf("registrant", p)
Completeness(info) == (Achieved(Present(info)) * 100) \div 99

(* assessTimeliness.                                                        *)
Timeliness(info) ==
  IF info.domain = Nil THEN 0
  ELSE IF info.domain.created = "" THEN 50 ELSE IF info.domain.updated = "" THEN 70 ELSE 90

(* detectPrivacy gives 25 for each contact it finds protected, half of      *)
(* which assessReliability takes off, and 10 for a placeholder.             *)
Named(info, name) == info.registrant # Nil /\ info.registrant.name = name
Reliability(info) ==
  100 - (IF Named(info, "private") THEN 25 \div 2 ELSE 0) - (IF Named(info, "n/a") THEN 10 ELSE 0)

AssessQuality(info) == (Completeness(info) + Timeliness(info) + Reliability(info)) \div 3
-----------------------------------------------------------------------------
RecordsTypeOK == saved \in WhoisInfo \cup {Nil} /\ live \in WhoisInfo

(* What CompareWhois looks at of a record, and what CompareSnapshots does.  *)
WithDomain(info, domain) ==
  IF info = Nil \/ info.domain = Nil THEN info ELSE [info EXCEPT !.domain = domain]
WhoisView(info) ==
  WithDomain(info, [info.domain EXCEPT !.id = "", !.servers = Folded(@)])
SnapshotView(info) == WithDomain(info, [info.domain EXCEPT !.status = {}])

(* The two comparisons.  CompareWhois finds something just when two records *)
(* differ in more than the names and the ID of the domain (diff.go:84-88)   *)
(* and the case of its name servers (150, 154), CompareSnapshots just when  *)
(* they differ in more than the status (history.go:297-299): neither sees   *)
(* all that the other does.  On records that differ in none of these they   *)
(* find the same, and the change back is always the change turned round.    *)
Turned(c) ==
  [c EXCEPT !.type = CASE @ = "added" -> "removed" [] @ = "removed" -> "added" [] OTHER -> @]
IsStatus(c) == c.path = <<"status", "ok">>
DiffsAgree ==
  LET old == WhoisView(saved)  new == WhoisView(live) IN
  /\ CompareWhois(saved, live) = {} <=> old = new
  /\ CompareWhois(live, saved) = {Turned(c) : c \in CompareWhois(saved, live)}
  /\ saved # Nil =>
       /\ CompareSnapshots(saved, live) = {} <=> SnapshotView(saved) = SnapshotView(live)
       /\ CompareSnapshots(live, saved) = {Turned(c) : c \in CompareSnapshots(saved, live)}
       /\ CompareSnapshots(old, new) = {c \in CompareWhois(saved, live) : ~IsStatus(c)}

(* A referral that is merged again changes nothing more, and no section of  *)
(* either record is lost.                                                   *)
MergeSettles ==
  LET m == MergeWhoisInfo(saved, live) IN
  saved # Nil =>
    /\ MergeWhoisInfo(m, live) = m
    /\ \A s \in RecordSections : m[s] = Nil <=> saved[s] = Nil /\ live[s] = Nil

(* A record that shows more, with nothing hidden or made up, scores no less. *)
ScoreGrows ==
  saved # Nil /\ Present(saved) \subseteq Present(live) /\ ~Named(live, "private") /\ ~Named(live, "n/a")
    => AssessQuality(saved) <= AssessQuality(live)

RecordsCompared == DiffsAgree /\ MergeSettles /\ ScoreGrows
=============================================================================
