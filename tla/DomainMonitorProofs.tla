-------------------------- MODULE DomainMonitorProofs -------------------------
(* Proofs about DomainMonitor, for every value of its constants. *)
EXTENDS DomainMonitor, FiniteSetTheorems, SequenceTheorems, TLAPS

USE DEF owner, looping, checks

(* What a check holds of an answer, and what it compares, is well formed.   *)
LEMMA InfoTypes ==
  /\ FirstRecord \in Record /\ NoInfo \in Info /\ Unwatched \in WatchState
  /\ NoAnswer \in [kind : {"none", "parsed", "error"}, info : Info]
  /\ NoInfo.field \in [Fields -> Nat \cup {Missing}]
  /\ \A r \in Record, P \in SUBSET Parts : View(r, P) \in Info
<1> USE DEF Info, Missing
<1>1. FirstRecord \in Record
  BY MonitorAssumption DEF FirstRecord, Record
<1>2. NoInfo \in Info /\ NoInfo.field \in [Fields -> Nat \cup {Missing}]
  BY DEF NoInfo
<1>3. Unwatched \in WatchState
  BY <1>2 DEF Unwatched, WatchState
<1>4. NoAnswer \in [kind : {"none", "parsed", "error"}, info : Info]
  BY <1>2 DEF NoAnswer
<1>5. ASSUME NEW r \in Record, NEW P \in SUBSET Parts
      PROVE  View(r, P) \in Info
  BY DEF View, Record
<1>6. QED
  BY <1>1, <1>2, <1>3, <1>4, <1>5

(* The elements of two sequences in a row.                                  *)
LEMMA ConcatElements ==
  ASSUME NEW S, NEW s \in Seq(S), NEW t \in Seq(S)
  PROVE  s \o t \in Seq(S) /\ ToSet(s \o t) = ToSet(s) \cup ToSet(t)
<1>1. /\ s \o t \in Seq(S) /\ Len(s \o t) = Len(s) + Len(t)
      /\ \A i \in 1 .. Len(s) + Len(t) :
           (s \o t)[i] = IF i <= Len(s) THEN s[i] ELSE t[i - Len(s)]
  BY ConcatProperties
<1>2. ASSUME NEW e \in ToSet(s \o t) PROVE e \in ToSet(s) \cup ToSet(t)
  <2>1. PICK i \in 1 .. Len(s) + Len(t) : e = (s \o t)[i]
    BY <1>1 DEF ToSet
  <2>2. QED
    BY <1>1, <2>1 DEF ToSet
<1>3. ASSUME NEW e \in ToSet(s) PROVE e \in ToSet(s \o t)
  <2>1. PICK i \in 1 .. Len(s) : e = s[i]
    BY DEF ToSet
  <2>2. i \in 1 .. Len(s) + Len(t) /\ (s \o t)[i] = e
    BY <1>1, <2>1
  <2>3. QED
    BY <1>1, <2>2 DEF ToSet
<1>4. ASSUME NEW e \in ToSet(t) PROVE e \in ToSet(s \o t)
  <2>1. PICK i \in 1 .. Len(t) : e = t[i]
    BY DEF ToSet
  <2>2. i + Len(s) \in 1 .. Len(s) + Len(t) /\ (s \o t)[i + Len(s)] = e
    BY <1>1, <2>1
  <2>3. QED
    BY <1>1, <2>2 DEF ToSet
<1>5. QED
  BY <1>1, <1>2, <1>3, <1>4

LEMMA RaiseElements ==
  ASSUME NEW type \in AlertType, NEW raised
  PROVE  /\ Raise(type, raised) \in Seq(AlertType)
         /\ ToSet(Raise(type, raised)) = {type} \cap raised
BY DEF Raise, ToSet

(* The alerts of an answer name the compared fields that differ.            *)
LEMMA AlertsTell ==
  ASSUME NEW d, NEW new
  PROVE  /\ Alerts(d, new) \in Seq(AlertType)
         /\ ToSet(Alerts(d, new)) \cap Fields = Differing(watch[d].last, new)
<1> DEFINE R == Raised(d, new)
           e == Raise("expiry", R)
           s == Raise("status", R)
           r == Raise("registrant", R)
           n == Raise("ns", R)
           es == e \o s
           esr == es \o r
<1>1. {"expiry", "status", "registrant", "ns"} \subseteq AlertType
  BY DEF AlertType
<1>2. Alerts(d, new) = esr \o n
  BY DEF Alerts
<1>3. /\ R \cap Fields = Differing(watch[d].last, new)
      /\ Fields \subseteq {"status", "registrant", "ns"}
  BY MonitorAssumption DEF Raised, Differing
<1> HIDE DEF R
<1>4. /\ e \in Seq(AlertType) /\ ToSet(e) = {"expiry"} \cap R
      /\ s \in Seq(AlertType) /\ ToSet(s) = {"status"} \cap R
      /\ r \in Seq(AlertType) /\ ToSet(r) = {"registrant"} \cap R
      /\ n \in Seq(AlertType) /\ ToSet(n) = {"ns"} \cap R
  BY <1>1, RaiseElements
<1> HIDE DEF e, s, r, n
<1>5. es \in Seq(AlertType) /\ ToSet(es) = ToSet(e) \cup ToSet(s)
  BY <1>4, ConcatElements
<1> HIDE DEF es
<1>6. esr \in Seq(AlertType) /\ ToSet(esr) = ToSet(es) \cup ToSet(r)
  BY <1>4, <1>5, ConcatElements
<1> HIDE DEF esr
<1>7. esr \o n \in Seq(AlertType) /\ ToSet(esr \o n) = ToSet(esr) \cup ToSet(n)
  BY <1>4, <1>6, ConcatElements
<1>8. QED
  BY <1>2, <1>3, <1>4, <1>5, <1>6, <1>7

(* What emitAlert leaves in the channel, which never outgrows its capacity. *)
Alert == [domain : Domains, type : AlertType]
ChannelType == alertChan \in Seq(Alert) /\ Len(alertChan) <= AlertCap

LEMMA EmitType ==
  ASSUME ChannelType, NEW d \in Domains, NEW types \in Seq(AlertType), Emit(d, types)
  PROVE  ChannelType'
<1> DEFINE alarm == Alarm(d, types)
           room == AlertCap - Len(alertChan)
           n == IF Len(types) <= room THEN Len(types) ELSE room
<1>1. Len(types) \in Nat /\ Len(alertChan) \in Nat /\ AlertCap \in Nat /\ room \in Nat
  BY MonitorAssumption DEF ChannelType
<1>2. alarm \in Seq(Alert) /\ Len(alarm) = Len(types)
  <2>1. DOMAIN types = 1 .. Len(types) /\ \A i \in 1 .. Len(types) : types[i] \in AlertType
    BY <1>1
  <2>2. alarm = [i \in 1 .. Len(types) |-> [domain |-> d, type |-> types[i]]]
    BY <2>1 DEF Alarm
  <2>3. \A i \in 1 .. Len(types) : [domain |-> d, type |-> types[i]] \in Alert
    BY <2>1 DEF Alert
  <2>4. QED
    BY <1>1, <2>2, <2>3, IsASeq
<1>3. n \in 0 .. Len(types) /\ n <= room
  BY <1>1
<1>4. alertChan' = alertChan \o SubSeq(alarm, 1, n)
  BY DEF Emit
<1> HIDE DEF alarm, n
<1>5. SubSeq(alarm, 1, n) \in Seq(Alert) /\ Len(SubSeq(alarm, 1, n)) = n
  BY <1>1, <1>2, <1>3
<1>6. alertChan' \in Seq(Alert) /\ Len(alertChan') = Len(alertChan) + n
  BY <1>4, <1>5, <1>1, <1>3 DEF ChannelType
<1>7. QED
  BY <1>1, <1>3, <1>6 DEF ChannelType

LEMMA TypeInit == Init => TypeOK
<1> SUFFICES ASSUME Init PROVE TypeOK
  OBVIOUS
<1>1. AnyDomain \in Domains
  BY MonitorAssumption DEF AnyDomain
<1>2. QED
  BY <1>1, InfoTypes, MonitorAssumption DEF Init, TypeOK

LEMMA ChangeType ==
  ASSUME TypeOK, NEW d \in Domains, Change(d) PROVE TypeOK'
<1>1. registry[d] \in Record
  BY DEF TypeOK
<1>2. registry[d].rev + 1 \in Nat
  BY <1>1 DEF Record
<1>3. PICK r \in Record : registry' = [registry EXCEPT ![d] = r]
  <2> DEFINE n == registry[d].rev + 1
  <2>1. /\ registry[d].expiry \in Classes /\ registry[d].field \in [Fields -> Nat]
        /\ n \in Nat
    BY <1>1, <1>2 DEF Record
  <2> HIDE DEF n
  <2>2. \A f \in Fields : [registry[d].field EXCEPT ![f] = n] \in [Fields -> Nat]
    BY <2>1
  <2>3. /\ \A f \in Fields : [rev |-> n, expiry |-> registry[d].expiry,
                              field |-> [registry[d].field EXCEPT ![f] = n]] \in Record
        /\ \A e \in Classes : [rev |-> n, expiry |-> e, field |-> registry[d].field] \in Record
    BY <2>1, <2>2 DEF Record
  <2>4. QED
    BY <2>3 DEF Change, n
<1>4. registry' \in [Domains -> Record]
  BY <1>3 DEF TypeOK
<1>5. QED
  BY <1>4 DEF Change, TypeOK

LEMMA AddWatchType ==
  ASSUME TypeOK, NEW d \in Domains, AddWatch(d) PROVE TypeOK'
<1>1. PICK info \in {NoInfo, View(registry[d], Parts)} :
        /\ watch' = [watch EXCEPT ![d] =
             [status |-> IF info = NoInfo THEN "active" ELSE info.expiry, last |-> info]]
        /\ told' = [told EXCEPT ![d] = info.field]
  BY DEF AddWatch
<1>2. info \in Info
  BY <1>1, InfoTypes DEF TypeOK
<1>3. info.expiry \in Status \cup {"none"} /\ "active" \in Status
  BY <1>2, MonitorAssumption DEF Info, Status
<1>4. watch' \in [Domains -> WatchState]
  BY <1>1, <1>2, <1>3 DEF TypeOK, WatchState
<1>5. told' \in [Domains -> [Fields -> Nat \cup {Missing}]]
  BY <1>1, <1>2 DEF TypeOK, Info
<1>6. QED
  BY <1>4, <1>5 DEF AddWatch, TypeOK

(* The step by which a check ends. *)
LEMMA ApplyType ==
  ASSUME TypeOK, NEW c \in Checks, Apply(c) PROVE TypeOK'
<1> DEFINE d == domain[c]
           new == answer[c].info
           types == Alerts(d, new)
<1>1. d \in Domains /\ new \in Info /\ types \in Seq(AlertType)
  BY AlertsTell DEF TypeOK
<1>2. AnyDomain \in Domains /\ 0 \in 0 .. starts
  BY MonitorAssumption DEF AnyDomain, TypeOK
<1>3. /\ pc' \in [Checks -> {"free", "queued", "query", "apply"}]
      /\ domain' \in [Checks -> Domains] /\ ctx' \in [Checks -> 0 .. starts]
      /\ answer' \in [Checks -> [kind : {"none", "parsed", "error"}, info : Info]]
  BY <1>2, InfoTypes DEF Apply, TypeOK
<1>4. ChannelType
  BY DEF TypeOK, ChannelType, Alert
<1>5. "query_error" \in AlertType /\ {"error", "changed"} \subseteq Status
  BY DEF AlertType, Status
<1>6. /\ watch' \in [Domains -> WatchState] /\ stored' \in [Domains -> WatchState]
      /\ told' \in [Domains -> [Fields -> Nat \cup {Missing}]] /\ ChannelType'
      /\ unsaved' \subseteq Domains
  <2>1. CASE UNCHANGED <<owner, alertChan>>
    BY <1>4, <2>1 DEF TypeOK, ChannelType
  <2>2. CASE /\ watch' = [watch EXCEPT ![d] = [status |-> "error", last |-> @.last]]
             /\ Emit(d, <<"query_error">>) /\ unsaved' = unsaved \ {d} /\ UNCHANGED <<stored, told>>
    <3>1. <<"query_error">> \in Seq(AlertType)
      BY <1>5
    <3>2. ChannelType'
      BY <1>1, <1>4, <2>2, <3>1, EmitType
    <3>3. QED
      BY <1>1, <1>5, <2>2, <3>2 DEF TypeOK, WatchState
  <2>3. CASE /\ watch' = [watch EXCEPT ![d] =
                  [status |-> IF types = <<>> THEN @.status ELSE "changed", last |-> new]]
             /\ Save(d, watch'[d])
             /\ Emit(d, types) /\ Tell(d, new, types)
    <3>1. ChannelType'
      BY <1>1, <1>4, <2>3, EmitType
    <3>2. watch' \in [Domains -> WatchState]
      <4>1. watch[d].status \in Status \cup {"none"}
        BY <1>1 DEF TypeOK, WatchState
      <4>2. QED
        BY <1>1, <1>5, <2>3, <4>1 DEF TypeOK, WatchState
    <3>3. stored' \in [Domains -> WatchState] /\ unsaved' \subseteq Domains
      BY <1>1, <2>3, <3>2 DEF TypeOK, Save, Saved
    <3>4. told' \in [Domains -> [Fields -> Nat \cup {Missing}]]
      BY <1>1, <2>3 DEF TypeOK, Tell, Info
    <3>5. QED
      BY <3>1, <3>2, <3>3, <3>4
  <2>4. QED
    BY <2>1, <2>2, <2>3 DEF Apply
<1>7. late' \subseteq Checks /\ UNCHANGED <<registry, looping, nows>>
  BY DEF Apply, TypeOK
<1>8. QED
  BY <1>3, <1>6, <1>7 DEF TypeOK, ChannelType, Alert

LEMMA TypeStep == TypeOK /\ [Next]_vars => TypeOK'
<1> SUFFICES ASSUME TypeOK, [Next]_vars PROVE TypeOK'
  OBVIOUS
<1>1. ASSUME NEW d \in Domains, Change(d) PROVE TypeOK'
  BY <1>1, ChangeType
<1>2. ASSUME NEW d \in Domains, AddWatch(d) PROVE TypeOK'
  BY <1>2, AddWatchType
<1>3. ASSUME NEW d \in Domains, RemoveWatch(d) PROVE TypeOK'
  BY <1>3, InfoTypes DEF RemoveWatch, TypeOK
<1>4. ASSUME NEW d \in Domains, CheckNow(d) PROVE TypeOK'
  <2>1. 0 \in 0 .. starts
    BY DEF TypeOK
  <2>2. nows' \in 0 .. MaxNow
    BY <1>4, MonitorAssumption DEF CheckNow, TypeOK
  <2>3. QED
    BY <1>4, <2>1, <2>2 DEF CheckNow, TypeOK
<1>5. CASE Start
  <2>1. starts' \in 0 .. MaxStarts /\ starts' = starts + 1 /\ starts \in Nat
    BY <1>5, MonitorAssumption DEF Start, TypeOK
  <2>2. cancelled' \subseteq 1 .. starts' /\ ctx' \in [Checks -> 0 .. starts']
    BY <1>5, <2>1 DEF Start, BeginRound, TypeOK
  <2>3. \A n \in Starts : loop'[n] # "off" => n <= starts'
    BY <1>5, <2>1 DEF Start, BeginRound, Starts, TypeOK
  <2>4. QED
    BY <1>5, <2>1, <2>2, <2>3 DEF Start, BeginRound, Round, TypeOK
<1>6. ASSUME NEW n \in Starts, AbandonRound(n) PROVE TypeOK'
  BY <1>6 DEF AbandonRound, TypeOK
<1>7. ASSUME NEW n \in Starts, Spawn(n) PROVE TypeOK'
  <2>1. n \in 0 .. starts
    BY <1>7, MonitorAssumption DEF Spawn, Starts, TypeOK
  <2>2. QED
    BY <1>7, <2>1 DEF Spawn, TypeOK
<1>8. ASSUME NEW n \in Starts, Join(n) \/ Tick(n) \/ Return(n) PROVE TypeOK'
  <2>1. CASE Join(n) BY <2>1 DEF Join, TypeOK
  <2>2. CASE Return(n) BY <2>2 DEF Return, TypeOK
  <2>3. CASE Tick(n)
    <3>1. /\ loop' \in [Starts -> {"off", "spawn", "join", "wait"}]
          /\ todo' \in [Starts -> SUBSET Domains] /\ late' \subseteq Checks
          /\ UNCHANGED <<registry, owner, starts, cancelled, pc, domain, ctx, answer, alertChan, nows>>
      BY <2>3 DEF Tick, BeginRound, Round, TypeOK
    <3>2. \A m \in Starts : loop'[m] # "off" => loop[m] # "off"
      BY <2>3 DEF Tick, BeginRound, TypeOK
    <3> QED BY <3>1, <3>2 DEF TypeOK
  <2> QED BY <1>8, <2>1, <2>2, <2>3
<1>9. ASSUME NEW n \in 1 .. starts, Cancel(n) PROVE TypeOK'
  BY <1>9 DEF Cancel, TypeOK
<1>10. CASE Collect
  <2>1. Tail(alertChan) \in Seq(Alert) /\ Len(Tail(alertChan)) = Len(alertChan) - 1
    BY <1>10, HeadTailProperties DEF Collect, TypeOK, Alert
  <2>2. Len(alertChan) \in Nat /\ AlertCap \in Nat
    BY MonitorAssumption DEF TypeOK
  <2>3. QED
    BY <1>10, <2>1, <2>2 DEF Collect, TypeOK, Alert
<1>11. ASSUME NEW c \in Checks, Acquire(c) PROVE TypeOK'
  BY <1>11 DEF Acquire, TypeOK
<1>12. ASSUME NEW c \in Checks, Answered(c) \/ Failed(c) PROVE TypeOK'
  <2>1. PICK a \in [kind : {"none", "parsed", "error"}, info : Info] : Answer(c, a)
    <3>1. CASE Failed(c)
      BY <3>1, InfoTypes DEF Failed
    <3>2. CASE Answered(c)
      <4>1. PICK P \in AnswerParts :
              Answer(c, [kind |-> "parsed", info |-> View(registry[domain[c]], P)])
        BY <3>2 DEF Answered
      <4>2. registry[domain[c]] \in Record /\ P \in SUBSET Parts
        BY MonitorAssumption DEF TypeOK, Parts
      <4>3. View(registry[domain[c]], P) \in Info
        BY <4>2, InfoTypes
      <4>4. QED
        BY <4>1, <4>3
    <3>3. QED
      BY <1>12, <3>1, <3>2
  <2>2. QED
    BY <2>1 DEF Answer, TypeOK
<1>13. ASSUME NEW c \in Checks, Apply(c) PROVE TypeOK'
  BY <1>13, ApplyType
<1>14. CASE UNCHANGED vars
  BY <1>14 DEF vars, TypeOK
<1>15. Stop => \E n \in 1 .. starts : Cancel(n)
  BY DEF Stop, TypeOK
<1>16. QED
  BY <1>15, <1>1, <1>2, <1>3, <1>4, <1>5, <1>6, <1>7, <1>8, <1>9, <1>10, <1>11, <1>12, <1>13, <1>14
     DEF Next, Check, CallerCancels

(* Every reachable state is well typed; in particular the alert channel     *)
(* never holds more than its capacity, although no send waits for room.     *)
THEOREM TypeCorrect == Spec => []TypeOK
<1>1. QED
  BY TypeInit, TypeStep, PTL DEF Spec
-----------------------------------------------------------------------------
(* Only the owner of the watch list and the end of a check change a watch.  *)
LEMMA OwnerSteps ==
  ASSUME [Next]_vars
  PROVE  \/ UNCHANGED owner
         \/ \E d \in Domains : AddWatch(d) \/ RemoveWatch(d)
         \/ \E c \in Checks : Apply(c)
<1>1. ASSUME NEW c \in Checks, Acquire(c) \/ Answered(c) \/ Failed(c)
      PROVE  UNCHANGED owner
  BY <1>1 DEF Acquire, Answered, Failed, Answer
<1>2. ASSUME NEW d \in Domains, Change(d) \/ CheckNow(d) PROVE UNCHANGED owner
  BY <1>2 DEF Change, CheckNow
<1>3. ASSUME Start \/ Stop \/ Collect PROVE UNCHANGED owner
  BY <1>3 DEF Start, Stop, Cancel, Collect
<1>4. ASSUME NEW n \in Starts, \/ AbandonRound(n) \/ Spawn(n) \/ Join(n) \/ Tick(n) \/ Return(n)
                                \/ CallerCancels(n)
      PROVE  UNCHANGED owner
  BY <1>4 DEF AbandonRound, Spawn, Join, Tick, Return, CallerCancels, Cancel
<1>5. QED
  BY <1>1, <1>2, <1>3, <1>4 DEF Next, Check, vars

(* The watch of d after an answer to a check: it is left alone, or the      *)
(* query failed, or the answer was recorded, saved or not, and told.        *)
LEMMA ApplyOutcome ==
  ASSUME TypeOK, NEW c \in Checks, Apply(c)
  PROVE  LET d   == domain[c]
             new == answer[c].info
             types == Alerts(d, new)
         IN  /\ d \in Domains /\ new \in Info
             /\ \/ UNCHANGED owner
                \/ /\ Watching(d) /\ UNCHANGED <<stored, told>>
                   /\ watch' = [watch EXCEPT ![d] =
                                  [status |-> "error", last |-> watch[d].last]]
                   /\ unsaved' = unsaved \ {d}
                \/ /\ Watching(d)
                   /\ watch' = [watch EXCEPT ![d] =
                        [status |-> IF types = <<>> THEN @.status ELSE "changed", last |-> new]]
                   /\ Save(d, watch'[d])
                   /\ Tell(d, new, types)
<1> DEFINE d == domain[c]
<1>1. d \in Domains /\ answer[c].info \in Info /\ watch[d] \in WatchState
  BY DEF TypeOK
<1>2. QED
  BY <1>1 DEF Apply

LEMMA StoredStep ==
  TypeOK /\ AlertedIsStored /\ [Next]_vars => AlertedIsStored'
<1> SUFFICES ASSUME TypeOK, AlertedIsStored, [Next]_vars PROVE AlertedIsStored'
  OBVIOUS
<1>1. CASE UNCHANGED owner
  BY <1>1 DEF AlertedIsStored
<1>2. ASSUME NEW d \in Domains, AddWatch(d) PROVE AlertedIsStored'
  <2>1. PICK info \in {NoInfo, View(registry[d], Parts)} :
          watch' = [watch EXCEPT ![d] =
            [status |-> IF info = NoInfo THEN "active" ELSE info.expiry, last |-> info]]
    BY <1>2 DEF AddWatch
  <2>2. info \in Info
    BY <2>1, InfoTypes DEF TypeOK
  <2>3. watch'[d].status # "changed"
    BY <2>1, <2>2, MonitorAssumption DEF TypeOK, Info
  <2>4. /\ stored' = stored /\ \A e \in Domains \ {d} : watch'[e] = watch[e]
        /\ unsaved' = unsaved \ {d}
    BY <1>2, <2>1 DEF AddWatch, TypeOK
  <2>5. QED
    BY <2>3, <2>4 DEF AlertedIsStored
<1>3. ASSUME NEW d \in Domains, RemoveWatch(d) PROVE AlertedIsStored'
  BY <1>3 DEF RemoveWatch, AlertedIsStored, TypeOK, Unwatched
<1>4. ASSUME NEW c \in Checks, Apply(c) PROVE AlertedIsStored'
  <2> DEFINE d == domain[c]
  <2>1. CASE UNCHANGED owner
    BY <2>1 DEF AlertedIsStored
  <2>2. CASE /\ stored' = stored /\ unsaved' = unsaved \ {d}
             /\ watch' = [watch EXCEPT ![d] =
                            [status |-> "error", last |-> watch[d].last]]
    BY <2>2 DEF AlertedIsStored, TypeOK
  <2>3. CASE Save(d, watch'[d]) /\ \A e \in Domains \ {d} : watch'[e] = watch[e]
    <3>1. \A e \in Domains \ {d} : stored'[e] = stored[e] /\ (e \in unsaved' <=> e \in unsaved)
      BY <2>3 DEF Save, TypeOK
    <3>2. watch'[d].status = "changed" /\ d \notin unsaved' => stored'[d] = watch'[d]
      BY <2>3 DEF Save, Saved, TypeOK
    <3> QED BY <2>3, <3>1, <3>2 DEF AlertedIsStored
  <2>4. QED
    BY <1>4, <2>1, <2>2, <2>3, ApplyOutcome DEF TypeOK
<1>5. QED
  BY <1>1, <1>2, <1>3, <1>4, OwnerSteps

(* The answer of a check changes what is recorded of a field only if the    *)
(* listeners learn of it.                                                   *)
LEMMA ToldByApply ==
  ASSUME TypeOK, ChangesTold, NEW c \in Checks, Apply(c) PROVE ChangesTold'
<1> DEFINE d == domain[c]
           new == answer[c].info
           old == watch[d].last
           types == Alerts(d, new)
<1>1. d \in Domains /\ new \in Info /\ old \in Info
  BY DEF TypeOK, WatchState
<1>2. CASE UNCHANGED owner
  BY <1>2 DEF ChangesTold, Watching
<1>3. CASE /\ Watching(d) /\ UNCHANGED <<stored, told>>
           /\ watch' = [watch EXCEPT ![d] = [status |-> "error", last |-> old]]
  BY <1>1, <1>3 DEF ChangesTold, Watching, TypeOK
<1>4. CASE /\ Watching(d)
           /\ watch' = [watch EXCEPT ![d] =
                [status |-> IF types = <<>> THEN @.status ELSE "changed", last |-> new]]
           /\ Tell(d, new, types)
  <2>1. /\ watch'[d].last = new /\ \A e \in Domains \ {d} : watch'[e] = watch[e]
        /\ \A e \in Domains \ {d} : told'[e] = told[e]
        /\ \A f \in Fields : told'[d][f] =
             IF \/ f \in (IF old = NoInfo THEN Fields ELSE ToSet(types) \cap Fields)
                \/ new.field[f] = Missing
             THEN new.field[f] ELSE told[d][f]
    BY <1>1, <1>4 DEF Tell, TypeOK
  <2>2. ASSUME NEW f \in Fields PROVE told'[d][f] \in {Missing, new.field[f]}
    <3>1. f \in ToSet(types) <=> f \in Differing(old, new)
      BY AlertsTell
    <3>2. told[d][f] \in {Missing, old.field[f]}
      BY <1>1, <1>4 DEF ChangesTold
    <3>3. QED
      BY <2>1, <3>1, <3>2 DEF Differing
  <2>3. QED
    BY <2>1, <2>2 DEF ChangesTold, Watching
<1> HIDE DEF types
<1>5. QED
  BY <1>2, <1>3, <1>4, ApplyOutcome DEF types

LEMMA ToldStep == TypeOK /\ ChangesTold /\ [Next]_vars => ChangesTold'
<1> SUFFICES ASSUME TypeOK, ChangesTold, [Next]_vars PROVE ChangesTold'
  OBVIOUS
<1>1. CASE UNCHANGED owner
  BY <1>1 DEF ChangesTold, Watching
<1>2. ASSUME NEW d \in Domains, AddWatch(d) PROVE ChangesTold'
  <2>1. PICK info :
          /\ watch' = [watch EXCEPT ![d] =
               [status |-> IF info = NoInfo THEN "active" ELSE info.expiry, last |-> info]]
          /\ told' = [told EXCEPT ![d] = info.field]
    BY <1>2 DEF AddWatch
  <2>2. watch'[d].last.field = told'[d]
    BY <2>1 DEF TypeOK
  <2>3. \A e \in Domains \ {d} : watch'[e] = watch[e] /\ told'[e] = told[e]
    BY <2>1 DEF TypeOK
  <2>4. QED
    BY <2>2, <2>3 DEF ChangesTold, Watching
<1>3. ASSUME NEW d \in Domains, RemoveWatch(d) PROVE ChangesTold'
  BY <1>3 DEF RemoveWatch, ChangesTold, Watching, TypeOK, Unwatched
<1>4. ASSUME NEW c \in Checks, Apply(c) PROVE ChangesTold'
  BY <1>4, ToldByApply
<1>5. QED
  BY <1>1, <1>2, <1>3, <1>4, OwnerSteps
-----------------------------------------------------------------------------
(* A check is left to an earlier round only by a Start that is cancelled,   *)
(* which spawns no more: the checks of a Start, as long as any is under     *)
(* way, are all of its present round, or all of the one it left.            *)
LateCancelled == \A c \in late : UnderWay(c) /\ ctx[c] \in cancelled
LeftCancelled == \A n \in Starts : loop[n] = "wait" /\ Round(n) # {} => n \in cancelled
OneGroup == \A n \in Starts : Round(n) # {} => \A c \in late : ctx[c] # n
RoundsKept == LateCancelled /\ LeftCancelled /\ OneGroup

(* A step that spawns no check, and moves no loop.                          *)
LEMMA KeptAside ==
  ASSUME RoundsKept, loop' = loop, cancelled \subseteq cancelled', late' \subseteq late,
         \A c \in late' : UnderWay(c)' /\ ctx'[c] = ctx[c],
         \A n \in Starts : Round(n)' \subseteq Round(n)
  PROVE  RoundsKept'
<1>1. LateCancelled' BY DEF RoundsKept, LateCancelled
<1>2. LeftCancelled' BY DEF RoundsKept, LeftCancelled
<1>3. OneGroup' BY DEF RoundsKept, OneGroup
<1> QED BY <1>1, <1>2, <1>3 DEF RoundsKept

LEMMA KeptBegin ==
  ASSUME TypeOK, RoundsKept, NEW n \in Starts, BeginRound(n), cancelled' = cancelled,
         Round(n) # {} => n \in cancelled
  PROVE  RoundsKept'
<1>1. /\ UNCHANGED <<pc, ctx>> /\ late' = late \cup Round(n)
      /\ \A m \in Starts \ {n} : loop'[m] = loop[m]
  BY DEF BeginRound, TypeOK
<1>2. \A c \in Round(n) : UnderWay(c) /\ ctx[c] = n
  BY DEF Round
<1>3. Round(n)' = {} /\ \A m \in Starts \ {n} : Round(m)' = Round(m)
  BY <1>1 DEF Round, UnderWay
<1>4. LateCancelled' BY <1>1, <1>2 DEF RoundsKept, LateCancelled, UnderWay
<1>5. LeftCancelled' BY <1>1, <1>3 DEF RoundsKept, LeftCancelled
<1>6. OneGroup' BY <1>1, <1>2, <1>3 DEF RoundsKept, OneGroup
<1> QED BY <1>4, <1>5, <1>6 DEF RoundsKept

LEMMA KeptLoop ==
  ASSUME TypeOK, RoundsKept, NEW n \in Starts,
         AbandonRound(n) \/ Join(n) \/ Tick(n) \/ Return(n)
  PROVE  RoundsKept'
<1>1. CASE Tick(n)
  <2>1. BeginRound(n) /\ cancelled' = cancelled /\ loop[n] = "wait"
    BY <1>1 DEF Tick
  <2> QED BY <2>1, KeptBegin DEF RoundsKept, LeftCancelled
<1>2. CASE AbandonRound(n) \/ Join(n) \/ Return(n)
  <2>1. /\ UNCHANGED <<pc, ctx, late, cancelled>>
        /\ \A m \in Starts \ {n} : loop'[m] = loop[m]
        /\ loop'[n] = "wait" => Stopped(n) \/ Round(n) = {}
    BY <1>2 DEF AbandonRound, Join, Return, TypeOK
  <2>2. \A m \in Starts : Round(m)' = Round(m)
    BY <2>1 DEF Round, UnderWay
  <2>3. LateCancelled' BY <2>1 DEF RoundsKept, LateCancelled, UnderWay
  <2>4. LeftCancelled' BY <2>1, <2>2 DEF RoundsKept, LeftCancelled, Stopped
  <2>5. OneGroup' BY <2>1, <2>2 DEF RoundsKept, OneGroup
  <2> QED BY <2>3, <2>4, <2>5 DEF RoundsKept
<1> QED BY <1>1, <1>2

LEMMA KeptSpawn ==
  ASSUME TypeOK, RoundsKept, NEW n \in Starts, Spawn(n) PROVE RoundsKept'
<1>1. PICK b \in Checks :
        /\ pc[b] = "free" /\ pc' = [pc EXCEPT ![b] = "queued"] /\ ctx' = [ctx EXCEPT ![b] = n]
  BY DEF Spawn
<1>2. /\ UNCHANGED <<late, cancelled>> /\ n \notin cancelled
      /\ loop'[n] # "wait" /\ \A m \in Starts \ {n} : loop'[m] = loop[m]
  BY DEF Spawn, Stopped, TypeOK
<1>3. b \notin late
  BY <1>1 DEF RoundsKept, LateCancelled, UnderWay
<1>4. \A c \in Checks \ {b} : pc'[c] = pc[c] /\ ctx'[c] = ctx[c]
  BY <1>1 DEF TypeOK
<1>5. \A m \in Starts \ {n} : Round(m)' \subseteq Round(m)
  BY <1>1, <1>2, <1>4 DEF Round, UnderWay, TypeOK
<1>6. late \subseteq Checks
  BY DEF TypeOK
<1>7. LateCancelled' BY <1>2, <1>3, <1>4, <1>6 DEF RoundsKept, LateCancelled, UnderWay
<1>8. LeftCancelled' BY <1>2, <1>5 DEF RoundsKept, LeftCancelled
<1>9. OneGroup'
  <2>1. \A c \in late : ctx'[c] # n
    BY <1>2, <1>3, <1>4, <1>6 DEF RoundsKept, LateCancelled
  <2>2. \A m \in Starts \ {n} : Round(m) # {} => \A c \in late : ctx'[c] # m
    BY <1>3, <1>4, <1>6 DEF RoundsKept, OneGroup
  <2> QED BY <1>2, <1>5, <2>1, <2>2 DEF OneGroup
<1> QED BY <1>7, <1>8, <1>9 DEF RoundsKept

LEMMA KeptStep == TypeOK /\ RoundsKept /\ [Next]_vars => RoundsKept'
<1> SUFFICES ASSUME TypeOK, RoundsKept, [Next]_vars PROVE RoundsKept'
  OBVIOUS
<1>0. late \subseteq Checks /\ \A c \in late : UnderWay(c)
  BY DEF TypeOK, RoundsKept, LateCancelled
<1>1. ASSUME UNCHANGED <<pc, ctx, late, loop>>, cancelled \subseteq cancelled' PROVE RoundsKept'
  <2>1. \A n \in Starts : Round(n)' = Round(n) BY <1>1 DEF Round, UnderWay
  <2>2. \A c \in late' : UnderWay(c)' /\ ctx'[c] = ctx[c] BY <1>0, <1>1 DEF UnderWay
  <2> QED BY <1>1, <2>1, <2>2, KeptAside
<1>2. ASSUME NEW d \in Domains, Change(d) \/ AddWatch(d) \/ RemoveWatch(d) PROVE RoundsKept'
  BY <1>2, <1>1 DEF Change, AddWatch, RemoveWatch
<1>3. ASSUME Collect \/ UNCHANGED vars PROVE RoundsKept'
  BY <1>3, <1>1 DEF Collect, vars
<1>4. ASSUME NEW n, Cancel(n) PROVE RoundsKept'
  BY <1>4, <1>1 DEF Cancel
<1>5. ASSUME NEW d \in Domains, CheckNow(d) PROVE RoundsKept'
  <2>1. PICK b \in Checks : /\ pc[b] = "free" /\ pc' = [pc EXCEPT ![b] = "query"]
                            /\ ctx' = [ctx EXCEPT ![b] = 0] /\ UNCHANGED <<late, loop, cancelled>>
    BY <1>5 DEF CheckNow
  <2>2. b \notin late BY <1>0, <2>1 DEF UnderWay
  <2>3. \A n \in Starts : Round(n)' \subseteq Round(n)
    BY <2>1 DEF Round, UnderWay, Starts, TypeOK
  <2>4. \A c \in late' : UnderWay(c)' /\ ctx'[c] = ctx[c]
    BY <1>0, <2>1, <2>2 DEF UnderWay, TypeOK
  <2> QED BY <2>1, <2>3, <2>4, KeptAside
<1>6. ASSUME NEW b \in Checks, Acquire(b) \/ Answered(b) \/ Failed(b) PROVE RoundsKept'
  <2>1. /\ pc[b] # "free" /\ UNCHANGED <<ctx, late, loop, cancelled>>
        /\ pc' = [pc EXCEPT ![b] = "query"] \/ pc' = [pc EXCEPT ![b] = "apply"]
    BY <1>6 DEF Acquire, Answered, Failed, Answer
  <2>2. \A c \in Checks : UnderWay(c)' = UnderWay(c) BY <2>1 DEF UnderWay, TypeOK
  <2>3. \A n \in Starts : Round(n)' \subseteq Round(n) BY <2>1, <2>2 DEF Round
  <2>4. \A c \in late' : UnderWay(c)' /\ ctx'[c] = ctx[c] BY <1>0, <2>1, <2>2
  <2> QED BY <2>1, <2>3, <2>4, KeptAside
<1>7. ASSUME NEW b \in Checks, Apply(b) PROVE RoundsKept'
  <2>1. /\ pc' = [pc EXCEPT ![b] = "free"] /\ ctx' = [ctx EXCEPT ![b] = 0]
        /\ late' = late \ {b} /\ UNCHANGED <<loop, cancelled>>
    BY <1>7 DEF Apply
  <2>2. \A c \in Checks \ {b} : pc'[c] = pc[c] /\ ctx'[c] = ctx[c] BY <2>1 DEF TypeOK
  <2>3. pc'[b] = "free" BY <2>1 DEF TypeOK
  <2>4. \A n \in Starts : Round(n)' \subseteq Round(n) BY <2>1, <2>2, <2>3 DEF Round, UnderWay
  <2>5. \A c \in late' : UnderWay(c)' /\ ctx'[c] = ctx[c]
    BY <1>0, <2>1, <2>2 DEF UnderWay
  <2> QED BY <2>1, <2>4, <2>5, KeptAside
<1>8. CASE Start
  <2>1. /\ BeginRound(starts + 1) /\ cancelled' = cancelled /\ starts + 1 \in Starts
    BY <1>8, MonitorAssumption DEF Start, Starts, TypeOK
  <2>2. Round(starts + 1) = {}
    BY DEF Round, TypeOK
  <2> QED BY <2>1, <2>2, KeptBegin
<1>9. ASSUME NEW n \in Starts,
             AbandonRound(n) \/ Spawn(n) \/ Join(n) \/ Tick(n) \/ Return(n) \/ CallerCancels(n)
      PROVE  RoundsKept'
  BY <1>9, <1>4, KeptLoop, KeptSpawn DEF CallerCancels
<1>10. Stop => Cancel(starts)
  BY DEF Stop
<1> QED BY <1>2, <1>3, <1>4, <1>5, <1>6, <1>7, <1>8, <1>9, <1>10 DEF Next, Check
-----------------------------------------------------------------------------
(* The checks of one Start that hold a slot. *)
Active(n) == {c \in Checks : pc[c] \in {"query", "apply"} /\ ctx[c] = n}

LEMMA ActiveFinite ==
  \A n : IsFiniteSet(Active(n)) /\ Cardinality(Active(n)) \in Nat
BY MonitorAssumption, FS_Subset, FS_CardinalityType DEF Active

(* A step that gives no check of any Start a slot keeps the bound. *)
LEMMA FewerActive ==
  ASSUME StartBounded, starts' = starts,
         \A n \in 1 .. starts : Active(n)' \subseteq Active(n)
  PROVE  StartBounded'
<1>1. ASSUME NEW n \in 1 .. starts' PROVE Cardinality(Active(n)') <= MaxConcurrentChecks
  <2>1. Cardinality(Active(n)) <= MaxConcurrentChecks
    BY DEF StartBounded, Active
  <2>2. IsFiniteSet(Active(n)) /\ Active(n)' \subseteq Active(n)
    BY ActiveFinite
  <2>3. Cardinality(Active(n)') <= Cardinality(Active(n)) /\ Cardinality(Active(n)') \in Nat
    BY <2>2, FS_Subset, FS_CardinalityType
  <2>4. Cardinality(Active(n)) \in Nat /\ MaxConcurrentChecks \in Nat
    BY ActiveFinite, MonitorAssumption
  <2>5. QED
    BY <2>1, <2>3, <2>4
<1>2. QED
  BY <1>1 DEF StartBounded, Active

(* The semaphore of a check counts all of its Start that hold a slot. *)
LEMMA HoldersActive ==
  ASSUME TypeOK, RoundsKept, NEW c \in Checks, pc[c] = "queued", ctx[c] \in Starts
  PROVE  Holders(c) = Active(ctx[c])
<1>1. \A x \in Checks : UnderWay(x) /\ ctx[x] = ctx[c] => (x \in late <=> c \in late)
  <2> SUFFICES ASSUME NEW x \in Checks, UnderWay(x), ctx[x] = ctx[c]
               PROVE  x \in late <=> c \in late
    OBVIOUS
  <2>1. UnderWay(c) BY DEF UnderWay
  <2>2. x \notin late => x \in Round(ctx[c]) BY DEF Round
  <2>3. c \notin late => c \in Round(ctx[c]) BY <2>1 DEF Round
  <2> QED BY <2>2, <2>3 DEF RoundsKept, OneGroup
<1>2. \A x \in Checks : UnderWay(x) /\ pc[x] # "queued" <=> pc[x] \in {"query", "apply"}
  BY DEF UnderWay, TypeOK
<1> QED BY <1>1, <1>2 DEF Holders, Active

LEMMA AcquireBounded ==
  ASSUME TypeOK, RoundsKept, StartBounded, NEW c \in Checks, Acquire(c) PROVE StartBounded'
<1>1. /\ pc' = [pc EXCEPT ![c] = "query"] /\ ctx' = ctx /\ starts' = starts
      /\ pc[c] = "queued" /\ Cardinality(Holders(c)) < MaxConcurrentChecks
  BY DEF Acquire
<1>2. ASSUME NEW n \in 1 .. starts PROVE Cardinality(Active(n)') <= MaxConcurrentChecks
  <2>1. CASE n = ctx[c]
    <3>0. n \in Starts
      BY MonitorAssumption DEF Starts, TypeOK
    <3>1. Active(n)' = Active(n) \cup {c}
      BY <1>1, <2>1 DEF Active, TypeOK
    <3>2. Cardinality(Active(n)') <= Cardinality(Active(n)) + 1
      BY <3>1, ActiveFinite, FS_AddElement
    <3>3. Cardinality(Active(n)) \in Nat /\ Cardinality(Active(n)') \in Nat
      BY <3>1, ActiveFinite, FS_AddElement, FS_CardinalityType
    <3>4. Holders(c) = Active(n)
      BY <1>1, <2>1, <3>0, HoldersActive
    <3>5. QED
      BY <1>1, <3>2, <3>3, <3>4, MonitorAssumption
  <2>2. CASE n # ctx[c]
    <3>1. Active(n)' = Active(n)
      BY <1>1, <2>2 DEF Active, TypeOK
    <3>2. QED
      BY <3>1 DEF StartBounded, Active
  <2>3. QED
    BY <2>1, <2>2
<1>3. QED
  BY <1>1, <1>2 DEF StartBounded, Active

(* A Start gives its checks a number that no check has yet. *)
LEMMA NewStartBounded ==
  ASSUME TypeOK, StartBounded, Start PROVE StartBounded'
<1>1. starts' = starts + 1 /\ pc' = pc /\ ctx' = ctx /\ starts \in Nat
  BY MonitorAssumption DEF Start, BeginRound, TypeOK
<1>2. ASSUME NEW n \in 1 .. starts' PROVE Cardinality(Active(n)') <= MaxConcurrentChecks
  <2>1. Active(n)' = Active(n)
    BY <1>1 DEF Active
  <2>2. CASE n \in 1 .. starts
    BY <2>1, <2>2 DEF StartBounded, Active
  <2>3. CASE n = starts + 1
    <3>1. Active(n) = {}
      BY <1>1, <2>3 DEF Active, TypeOK
    <3>2. Cardinality(Active(n)') = 0
      BY <2>1, <3>1, FS_EmptySet
    <3>3. QED
      BY <3>2, MonitorAssumption
  <2>4. QED
    BY <1>1, <2>2, <2>3
<1>3. QED
  BY <1>2 DEF StartBounded, Active

LEMMA BoundStep == TypeOK /\ RoundsKept /\ StartBounded /\ [Next]_vars => StartBounded'
<1> SUFFICES ASSUME TypeOK, RoundsKept, StartBounded, [Next]_vars PROVE StartBounded'
  OBVIOUS
<1> DEFINE Fewer == starts' = starts /\ \A n \in 1 .. starts : Active(n)' \subseteq Active(n)
<1>1. ASSUME UNCHANGED <<pc, ctx, starts>> PROVE Fewer
  BY <1>1 DEF Active
<1>2. ASSUME NEW d \in Domains, Change(d) \/ AddWatch(d) \/ RemoveWatch(d) PROVE Fewer
  BY <1>2, <1>1 DEF Change, AddWatch, RemoveWatch
<1>3. ASSUME NEW n, AbandonRound(n) \/ Join(n) \/ Tick(n) \/ Return(n) \/ Cancel(n) PROVE Fewer
  BY <1>3, <1>1 DEF AbandonRound, Join, Tick, Return, BeginRound, Cancel
<1>4. ASSUME NEW d \in Domains, CheckNow(d) PROVE Fewer
  <2>1. PICK c \in Checks : /\ pc[c] = "free" /\ pc' = [pc EXCEPT ![c] = "query"]
                            /\ ctx' = [ctx EXCEPT ![c] = 0] /\ starts' = starts
    BY <1>4 DEF CheckNow
  <2>2. QED
    BY <2>1 DEF Active, TypeOK
<1>5. ASSUME NEW n \in Starts, Spawn(n) PROVE Fewer
  <2>1. PICK c \in Checks : /\ pc[c] = "free" /\ pc' = [pc EXCEPT ![c] = "queued"]
                            /\ ctx' = [ctx EXCEPT ![c] = n] /\ starts' = starts
    BY <1>5 DEF Spawn
  <2>2. QED
    BY <2>1 DEF Active, TypeOK
<1>6. ASSUME NEW c \in Checks, Answered(c) \/ Failed(c) PROVE Fewer
  <2>1. /\ pc[c] = "query" /\ pc' = [pc EXCEPT ![c] = "apply"]
        /\ ctx' = ctx /\ starts' = starts
    BY <1>6 DEF Answered, Failed, Answer
  <2>2. QED
    BY <2>1 DEF Active, TypeOK
<1>7. ASSUME NEW c \in Checks, Apply(c) PROVE Fewer
  <2>1. /\ pc' = [pc EXCEPT ![c] = "free"] /\ ctx' = [ctx EXCEPT ![c] = 0]
        /\ starts' = starts
    BY <1>7 DEF Apply
  <2>2. QED
    BY <2>1 DEF Active, TypeOK
<1>8. ASSUME Collect \/ UNCHANGED vars PROVE Fewer
  BY <1>8, <1>1 DEF Collect, vars
<1>9. Fewer => StartBounded'
  BY FewerActive
<1>10. (Stop => Cancel(starts)) /\ \A n : CallerCancels(n) => Cancel(n)
  BY DEF Stop, CallerCancels
<1> HIDE DEF Fewer
<1>11. QED
  BY <1>2, <1>3, <1>4, <1>5, <1>6, <1>7, <1>8, <1>9, <1>10, AcquireBounded, NewStartBounded
     DEF Next, Check
-----------------------------------------------------------------------------
(* What a check reports is told, and stored unless the save failed, and all *)
(* the rounds of a Start together run no more checks than it has slots.     *)
MonitorInv == TypeOK /\ AlertedIsStored /\ ChangesTold /\ RoundsKept /\ StartBounded

LEMMA InvInit == Init => MonitorInv
<1> SUFFICES ASSUME Init PROVE MonitorInv
  OBVIOUS
<1>1. AlertedIsStored /\ ChangesTold
  BY DEF Init, AlertedIsStored, ChangesTold, Watching, Unwatched
<1>2. StartBounded
  BY DEF Init, StartBounded
<1>3. RoundsKept
  BY DEF Init, RoundsKept, LateCancelled, LeftCancelled, OneGroup
<1>4. QED
  BY <1>1, <1>2, <1>3, TypeInit DEF MonitorInv

THEOREM InvCorrect == Spec => []MonitorInv
<1>1. MonitorInv /\ [Next]_vars => MonitorInv'
  BY TypeStep, StoredStep, ToldStep, KeptStep, BoundStep DEF MonitorInv
<1>2. QED
  BY <1>1, InvInit, PTL DEF Spec

(* A change that was alerted is stored, whatever saves fail, unless that of *)
(* the very check that alerted it did.                                      *)
THEOREM StoredCorrect == Spec => []AlertedIsStored
BY InvCorrect, PTL DEF MonitorInv

(* However checks of one domain overlap, with rounds of several Starts,     *)
(* CheckNow, removed and renewed watches: what is recorded of a field is    *)
(* what the listeners heard last of it, unless an answer lacked the field   *)
(* since.                                                                   *)
THEOREM ToldCorrect == Spec => []ChangesTold
BY InvCorrect, PTL DEF MonitorInv

(* All the rounds of one Start, also those it leaves behind, together never *)
(* run more checks than one semaphore admits.                               *)
THEOREM BoundCorrect == Spec => []StartBounded
BY InvCorrect, PTL DEF MonitorInv
-----------------------------------------------------------------------------
(* Nothing brings a second check of a domain: nobody calls CheckNow, starts *)
(* the monitor again or renews a watch.                                     *)
RoundsOnly == MaxNow = 0 /\ MaxStarts <= 1 /\ ~CanRemove

(* A domain is with one check at most, and until the monitor is stopped     *)
(* that check is of the present round.                                      *)
OneCheckEach ==
  \A b, c \in Checks : UnderWay(b) /\ UnderWay(c) /\ domain[b] = domain[c] => b = c
ChecksOfStart ==
  \A c \in Checks : UnderWay(c) => ctx[c] = 1 /\ starts = 1 /\ Watching(domain[c])
ToSpawn ==
  \A n \in Starts : \A d \in todo[n] :
    Watching(d) /\ (~Stopped(n) => \A c \in Checks : UnderWay(c) => domain[c] # d)
NoneBetweenRounds ==
  \A n \in Starts :
    /\ loop[n] # "off" => starts = 1
    /\ loop[n] = "wait" /\ ~Stopped(n) => \A c \in Checks : ~UnderWay(c)
RoundsApart == OneCheckEach /\ ChecksOfStart /\ ToSpawn /\ NoneBetweenRounds

(* What is recorded, and what a check brings, is of a revision the registry *)
(* had, and what it brings is not older than what is recorded.              *)
AnswersFresh ==
  /\ \A d \in Domains : watch[d].last.rev <= registry[d].rev
  /\ \A c \in Checks : pc[c] = "apply" /\ answer[c].kind = "parsed" =>
       /\ watch[domain[c]].last.rev <= answer[c].info.rev
       /\ answer[c].info.rev <= registry[domain[c]].rev

OrderInv == TypeOK /\ RoundsKept /\ RoundsApart /\ AnswersFresh

(* Revisions are numbers.                                                   *)
LEMMA RevisionTypes ==
  ASSUME TypeOK
  PROVE  /\ \A d \in Domains : registry[d].rev \in Nat /\ watch[d].last.rev \in Int
         /\ \A c \in Checks : answer[c].info.rev \in Int /\ domain[c] \in Domains
<1>1. ASSUME NEW d \in Domains PROVE registry[d].rev \in Nat /\ watch[d].last.rev \in Int
  <2>1. registry[d] \in Record /\ watch[d].last \in Info
    BY DEF TypeOK, WatchState
  <2> QED BY <2>1 DEF Record, Info, Missing
<1>2. ASSUME NEW c \in Checks PROVE answer[c].info.rev \in Int /\ domain[c] \in Domains
  <2>1. answer[c].info \in Info /\ domain[c] \in Domains
    BY DEF TypeOK
  <2> QED BY <2>1 DEF Info, Missing
<1> QED BY <1>1, <1>2

LEMMA OrderInit == Init => OrderInv
<1> SUFFICES ASSUME Init PROVE OrderInv
  OBVIOUS
<1>1. RoundsApart
  BY DEF Init, RoundsApart, OneCheckEach, ChecksOfStart, ToSpawn, NoneBetweenRounds, UnderWay
<1>2. AnswersFresh
  BY DEF Init, AnswersFresh, Unwatched, NoInfo, FirstRecord, Missing
<1>3. RoundsKept
  BY InvInit DEF MonitorInv
<1> QED BY <1>1, <1>2, <1>3, TypeInit DEF OrderInv

(* A watched domain stays watched where no watch is removed.                *)
LEMMA WatchedStays ==
  ASSUME RoundsOnly, TypeOK, [Next]_vars, NEW d \in Domains, Watching(d)
  PROVE  Watching(d)'
<1>1. CASE UNCHANGED owner
  BY <1>1 DEF Watching
<1>2. ASSUME NEW e \in Domains, AddWatch(e) PROVE Watching(d)'
  BY <1>2 DEF AddWatch, RoundsOnly, Watching, TypeOK
<1>3. ASSUME NEW e \in Domains, RemoveWatch(e) PROVE Watching(d)'
  BY <1>3 DEF RemoveWatch, RoundsOnly
<1>4. ASSUME NEW c \in Checks, Apply(c) PROVE Watching(d)'
  <2> DEFINE types == Alerts(domain[c], answer[c].info)
  <2> HIDE DEF types
  <2>1. \/ UNCHANGED owner
        \/ watch' = [watch EXCEPT ![domain[c]] =
                       [status |-> "error", last |-> watch[domain[c]].last]]
        \/ /\ Watching(domain[c])
           /\ watch' = [watch EXCEPT ![domain[c]] =
                [status |-> IF types = <<>> THEN @.status ELSE "changed", last |-> answer[c].info]]
    BY <1>4, ApplyOutcome DEF types
  <2> QED BY <2>1 DEF Watching, TypeOK
<1> QED BY <1>1, <1>2, <1>3, <1>4, OwnerSteps

(* There is one Start at most.                                              *)
LEMMA OneStart ==
  ASSUME RoundsOnly, TypeOK
  PROVE  /\ starts \in {0, 1} /\ \A n \in Starts : n = 1
         /\ \A c \in Checks : domain[c] \in Domains
         /\ \A n \in Starts : todo[n] \subseteq Domains
BY MonitorAssumption DEF RoundsOnly, TypeOK, Starts

(* Steps that begin, end or move no check, and no loop.                     *)
LEMMA ApartAside ==
  ASSUME RoundsOnly, TypeOK, RoundsApart, [Next]_vars, UNCHANGED <<looping, domain, ctx>>,
         \A c \in Checks : UnderWay(c)' => UnderWay(c)
  PROVE  RoundsApart'
<1>1. \A d \in Domains : Watching(d) => Watching(d)'
  BY WatchedStays
<1>2. /\ \A n \in Starts : todo[n] \subseteq Domains /\ Stopped(n)' = Stopped(n)
      /\ \A c \in Checks : domain[c] \in Domains
  BY OneStart DEF Stopped
<1>3. OneCheckEach' BY DEF RoundsApart, OneCheckEach
<1>4. ChecksOfStart' BY <1>1, <1>2 DEF RoundsApart, ChecksOfStart
<1>5. ToSpawn' BY <1>1, <1>2 DEF RoundsApart, ToSpawn
<1>6. NoneBetweenRounds' BY <1>2 DEF RoundsApart, NoneBetweenRounds
<1> QED BY <1>3, <1>4, <1>5, <1>6 DEF RoundsApart

(* The steps of the loop.                                                   *)
LEMMA ApartBegin ==
  ASSUME RoundsOnly, TypeOK, RoundsApart, NEW n \in Starts, BeginRound(n),
         watch' = watch, cancelled' = cancelled, starts' = 1,
         starts = 1 \/ \A c \in Checks : ~UnderWay(c),
         ~Stopped(n) => \A c \in Checks : ~UnderWay(c)
  PROVE  RoundsApart'
<1>1. /\ UNCHANGED <<pc, domain, ctx>>
      /\ \A d \in Domains : Watching(d)' = Watching(d)
      /\ \A c \in Checks : UnderWay(c)' = UnderWay(c)
  BY DEF BeginRound, Watching, UnderWay
<1>2. n = 1 /\ (\A m \in Starts : m = n) /\ \A c \in Checks : domain[c] \in Domains
  BY OneStart
<1>3. todo'[n] = {d \in Domains : Watching(d)}
  BY DEF BeginRound, TypeOK
<1>4. OneCheckEach' BY <1>1 DEF RoundsApart, OneCheckEach
<1>5. ChecksOfStart' BY <1>1, <1>2 DEF RoundsApart, ChecksOfStart
<1>6. ToSpawn' BY <1>1, <1>2, <1>3 DEF ToSpawn, Stopped
<1>7. NoneBetweenRounds' BY <1>1, <1>2 DEF NoneBetweenRounds, Stopped
<1> QED BY <1>4, <1>5, <1>6, <1>7 DEF RoundsApart

LEMMA ApartLoop ==
  ASSUME RoundsOnly, TypeOK, RoundsKept, RoundsApart, NEW n \in Starts,
         AbandonRound(n) \/ Join(n) \/ Return(n) \/ Cancel(n) \/ Tick(n)
  PROVE  RoundsApart'
<1>1. CASE Tick(n)
  BY <1>1, ApartBegin DEF Tick, RoundsApart, NoneBetweenRounds
<1>2. CASE AbandonRound(n) \/ Join(n) \/ Return(n) \/ Cancel(n)
  <2>1. /\ UNCHANGED <<watch, pc, domain, ctx, starts>> /\ cancelled \subseteq cancelled'
        /\ \A d \in Domains : Watching(d)' = Watching(d)
        /\ \A c \in Checks : UnderWay(c)' = UnderWay(c)
        /\ Stopped(n) => Stopped(n)'
    BY <1>2 DEF AbandonRound, Join, Return, Cancel, Watching, UnderWay, Stopped
  <2>2. \A m \in Starts : m = n
    BY OneStart
  <2>3. todo'[n] \subseteq todo[n] /\ todo[n] \subseteq Domains
    BY <1>2 DEF AbandonRound, Join, Return, Cancel, TypeOK
  <2>4. /\ loop'[n] # "off" => loop[n] # "off"
        /\ loop'[n] = "wait" /\ ~Stopped(n)' => \A c \in Checks : ~UnderWay(c)
    <3>1. CASE AbandonRound(n)
      BY <2>1, <3>1 DEF AbandonRound, TypeOK
    <3>2. CASE Join(n)
      <4>1. loop[n] = "join" /\ Round(n) = {} BY <3>2 DEF Join
      <4>2. ASSUME ~Stopped(n)', NEW c \in Checks, UnderWay(c) PROVE FALSE
        <5>1. ctx[c] = n BY <2>2, <4>2, OneStart DEF RoundsApart, ChecksOfStart
        <5>2. c \in late BY <4>1, <4>2, <5>1 DEF Round
        <5> QED BY <2>1, <4>2, <5>1, <5>2 DEF RoundsKept, LateCancelled, Stopped
      <4> QED BY <4>1, <4>2
    <3>3. CASE Return(n)
      <4>1. loop'[n] = "off" BY <3>3 DEF Return, TypeOK
      <4> QED BY <4>1
    <3>4. CASE Cancel(n)
      BY <3>4 DEF Cancel, Stopped
    <3> QED BY <1>2, <3>1, <3>2, <3>3, <3>4
  <2>5. OneCheckEach' BY <2>1 DEF RoundsApart, OneCheckEach
  <2>6. ChecksOfStart' BY <2>1, OneStart DEF RoundsApart, ChecksOfStart
  <2>7. ToSpawn' BY <2>1, <2>2, <2>3 DEF RoundsApart, ToSpawn
  <2>8. NoneBetweenRounds' BY <2>1, <2>2, <2>4 DEF RoundsApart, NoneBetweenRounds
  <2> QED BY <2>5, <2>6, <2>7, <2>8 DEF RoundsApart
<1> QED BY <1>1, <1>2

LEMMA ApartStart ==
  ASSUME RoundsOnly, TypeOK, RoundsApart, Start PROVE RoundsApart'
<1>1. starts = 0 /\ starts + 1 = 1 /\ 1 \in Starts
  BY MonitorAssumption, OneStart DEF Start, RoundsOnly, Starts
<1>2. BeginRound(1) /\ watch' = watch /\ cancelled' = cancelled /\ starts' = 1
  BY <1>1 DEF Start
<1>3. \A c \in Checks : ~UnderWay(c)
  BY <1>1 DEF RoundsApart, ChecksOfStart
<1> QED BY <1>1, <1>2, <1>3, ApartBegin

(* A round spawns a check of a domain that is with none.                    *)
LEMMA ApartSpawn ==
  ASSUME RoundsOnly, TypeOK, RoundsApart, NEW n \in Starts, Spawn(n)
  PROVE  RoundsApart'
<1>1. PICK d \in todo[n], b \in Checks :
        /\ pc[b] = "free" /\ pc' = [pc EXCEPT ![b] = "queued"]
        /\ domain' = [domain EXCEPT ![b] = d] /\ ctx' = [ctx EXCEPT ![b] = n]
        /\ todo' = [todo EXCEPT ![n] = @ \ {d}]
        /\ loop' = [loop EXCEPT ![n] = IF todo[n] = {d} THEN "join" ELSE "spawn"]
  BY DEF Spawn
<1>2. /\ watch' = watch /\ starts' = starts /\ ~Stopped(n) /\ Stopped(n)' = Stopped(n)
      /\ todo[n] \subseteq Domains /\ n = 1 /\ starts = 1 /\ \A m \in Starts : m = n
      /\ loop'[n] # "wait" /\ todo'[n] = todo[n] \ {d}
  BY <1>1, OneStart DEF Spawn, Stopped, TypeOK, RoundsApart, NoneBetweenRounds
<1>3. \A c \in Checks \ {b} :
        UnderWay(c)' = UnderWay(c) /\ domain'[c] = domain[c] /\ ctx'[c] = ctx[c]
  BY <1>1 DEF UnderWay, TypeOK
<1>4. UnderWay(b)' /\ domain'[b] = d /\ ctx'[b] = n /\ ~UnderWay(b)
  BY <1>1 DEF UnderWay, TypeOK
<1>5. Watching(d) /\ \A c \in Checks : UnderWay(c) => domain[c] # d
  BY <1>2 DEF RoundsApart, ToSpawn
<1>6. \A e \in Domains : Watching(e)' = Watching(e)
  BY <1>2 DEF Watching
<1>7. OneCheckEach'
  BY <1>3, <1>4, <1>5 DEF RoundsApart, OneCheckEach
<1>8. ChecksOfStart'
  BY <1>2, <1>3, <1>4, <1>5, <1>6, OneStart DEF RoundsApart, ChecksOfStart
<1>9. ToSpawn'
  <2>1. ASSUME NEW e \in todo'[n] PROVE Watching(e)' BY <1>2, <1>6 DEF RoundsApart, ToSpawn
  <2>2. ASSUME NEW e \in todo'[n], NEW c \in Checks, UnderWay(c)' PROVE domain'[c] # e
    <3>1. CASE c = b BY <1>2, <1>4, <3>1
    <3>2. CASE c # b BY <1>2, <1>3, <2>2, <3>2 DEF RoundsApart, ToSpawn
    <3> QED BY <3>1, <3>2
  <2> QED BY <1>2, <2>1, <2>2 DEF ToSpawn
<1>10. NoneBetweenRounds'
  BY <1>2 DEF NoneBetweenRounds
<1> QED BY <1>7, <1>8, <1>9, <1>10 DEF RoundsApart

(* A check that ends leaves its domain to the next round.                   *)
LEMMA ApartApply ==
  ASSUME RoundsOnly, TypeOK, RoundsApart, [Next]_vars, NEW b \in Checks, Apply(b)
  PROVE  RoundsApart'
<1>1. /\ pc' = [pc EXCEPT ![b] = "free"] /\ domain' = [domain EXCEPT ![b] = AnyDomain]
      /\ ctx' = [ctx EXCEPT ![b] = 0] /\ UNCHANGED looping
  BY DEF Apply
<1>2. ~UnderWay(b)' /\ \A c \in Checks \ {b} :
        UnderWay(c)' = UnderWay(c) /\ domain'[c] = domain[c] /\ ctx'[c] = ctx[c]
  BY <1>1 DEF UnderWay, TypeOK
<1>3. \A d \in Domains : Watching(d) => Watching(d)'
  BY WatchedStays
<1>4. /\ \A n \in Starts : todo[n] \subseteq Domains
      /\ \A c \in Checks : domain[c] \in Domains
  BY OneStart
<1>5. \A n \in Starts : Stopped(n)' = Stopped(n) BY <1>1 DEF Stopped
<1>6. OneCheckEach' BY <1>2 DEF RoundsApart, OneCheckEach
<1>7. ChecksOfStart' BY <1>1, <1>2, <1>3, <1>4 DEF RoundsApart, ChecksOfStart
<1>8. ToSpawn' BY <1>1, <1>2, <1>3, <1>4, <1>5 DEF RoundsApart, ToSpawn
<1>9. NoneBetweenRounds' BY <1>1, <1>2, <1>5 DEF RoundsApart, NoneBetweenRounds
<1> QED BY <1>6, <1>7, <1>8, <1>9 DEF RoundsApart

LEMMA ApartStep ==
  ASSUME RoundsOnly, TypeOK, RoundsKept, RoundsApart, [Next]_vars
  PROVE  RoundsApart'
<1>1. ASSUME NEW d \in Domains, Change(d) \/ AddWatch(d) \/ RemoveWatch(d) PROVE RoundsApart'
  BY <1>1, ApartAside DEF Change, AddWatch, RemoveWatch, UnderWay
<1>2. ASSUME NEW d \in Domains, CheckNow(d) PROVE RoundsApart'
  <2>1. nows < 0 /\ nows \in Nat
    BY <1>2, MonitorAssumption DEF CheckNow, RoundsOnly, TypeOK
  <2> QED BY <2>1
<1>3. ASSUME NEW n \in Starts, AbandonRound(n) \/ Join(n) \/ Return(n) \/ Cancel(n) \/ Tick(n)
      PROVE  RoundsApart'
  BY <1>3, ApartLoop
<1>4. ASSUME NEW c \in Checks, Acquire(c) PROVE RoundsApart'
  <2>1. \A b \in Checks : UnderWay(b)' => UnderWay(b)
    BY <1>4 DEF Acquire, UnderWay, TypeOK
  <2>2. UNCHANGED <<looping, domain, ctx>> BY <1>4 DEF Acquire
  <2> QED BY <2>1, <2>2, ApartAside
<1>5. ASSUME NEW c \in Checks, Answered(c) \/ Failed(c) PROVE RoundsApart'
  <2>0. PICK a : Answer(c, a) BY <1>5 DEF Answered, Failed
  <2>1. \A b \in Checks : UnderWay(b)' => UnderWay(b)
    BY <2>0 DEF Answer, UnderWay, TypeOK
  <2>2. UNCHANGED <<looping, domain, ctx>> BY <2>0 DEF Answer
  <2> QED BY <2>1, <2>2, ApartAside
<1>6. ASSUME NEW c \in Checks, Apply(c) PROVE RoundsApart'
  BY <1>6, ApartApply
<1>7. ASSUME Collect \/ UNCHANGED vars PROVE RoundsApart'
  <2>1. UNCHANGED <<pc, looping, domain, ctx>> BY <1>7 DEF Collect, vars
  <2> QED BY <2>1, ApartAside DEF UnderWay
<1>8. (Stop => starts \in Starts /\ Cancel(starts)) /\ \A n : CallerCancels(n) => Cancel(n)
  BY DEF Stop, CallerCancels, Starts, TypeOK
<1> QED BY <1>1, <1>2, <1>3, <1>4, <1>5, <1>6, <1>7, <1>8, ApartStart, ApartSpawn DEF Next, Check

(* While a check is under way its domain is recorded by no other, nor added *)
(* again: what is recorded is not newer than the answer it holds.           *)
LEMMA FreshStep ==
  ASSUME RoundsOnly, OrderInv, [Next]_vars
  PROVE  /\ AnswersFresh'
         /\ \A d \in Domains : Watching(d) => watch'[d].last.rev >= watch[d].last.rev
<1> DEFINE Goal == /\ AnswersFresh'
                   /\ \A d \in Domains : Watching(d) => watch'[d].last.rev >= watch[d].last.rev
<1>0. TypeOK /\ TypeOK' /\ RoundsApart /\ AnswersFresh BY TypeStep DEF OrderInv
<1>1. /\ \A d \in Domains : registry[d].rev \in Nat /\ watch[d].last.rev \in Int
      /\ \A c \in Checks : answer[c].info.rev \in Int /\ domain[c] \in Domains
  BY <1>0, RevisionTypes
<1>a. \A c \in Checks : pc[c] = "apply" /\ answer[c].kind = "parsed" =>
        /\ watch[domain[c]].last.rev <= answer[c].info.rev
        /\ answer[c].info.rev <= registry[domain[c]].rev
  BY <1>0 DEF AnswersFresh
<1>b. \A d \in Domains : watch[d].last.rev <= registry[d].rev
  BY <1>0 DEF AnswersFresh
<1>2. ASSUME UNCHANGED <<registry, watch, answer>>,
             \A c \in Checks : pc'[c] = "apply" => pc[c] = "apply" /\ domain'[c] = domain[c]
      PROVE  Goal
  BY <1>1, <1>2, <1>a, <1>b DEF AnswersFresh
<1>3. ASSUME NEW d \in Domains, Change(d) PROVE Goal
  <2>1. /\ UNCHANGED <<watch, answer, pc, domain>>
        /\ registry'[d].rev = registry[d].rev + 1
        /\ \A e \in Domains \ {d} : registry'[e] = registry[e]
    BY <1>0, <1>3 DEF Change, TypeOK
  <2>2. \A e \in Domains : registry[e].rev <= registry'[e].rev /\ registry'[e].rev \in Nat
    BY <1>1, <2>1
  <2>3. \A e \in Domains : watch[e].last.rev <= registry'[e].rev
    BY <1>1, <1>b, <2>2
  <2>4. \A c \in Checks : answer[c].info.rev <= registry[domain[c]].rev =>
                            answer[c].info.rev <= registry'[domain[c]].rev
    BY <1>1, <2>2
  <2> QED BY <1>1, <1>a, <2>1, <2>3, <2>4 DEF AnswersFresh
<1>4. ASSUME NEW d \in Domains, AddWatch(d) PROVE Goal
  <2>1. ~Watching(d) BY <1>4 DEF AddWatch, RoundsOnly
  <2>2. PICK info \in {NoInfo, View(registry[d], Parts)} :
          watch' = [watch EXCEPT ![d] =
            [status |-> IF info = NoInfo THEN "active" ELSE info.expiry, last |-> info]]
    BY <1>4 DEF AddWatch
  <2>3. info.rev <= registry[d].rev
    BY <1>1, <2>2 DEF NoInfo, View, Missing
  <2>4. watch'[d].last.rev = info.rev /\ \A e \in Domains \ {d} : watch'[e] = watch[e]
    BY <1>0, <2>2 DEF TypeOK
  <2>5. UNCHANGED <<registry, answer, pc, domain>> BY <1>4 DEF AddWatch
  <2>6. \A c \in Checks : pc[c] = "apply" => domain[c] # d
    BY <1>0, <2>1 DEF RoundsApart, ChecksOfStart, UnderWay
  <2>7. \A e \in Domains : watch'[e].last.rev <= registry[e].rev
    BY <1>b, <2>3, <2>4
  <2>8. AnswersFresh' BY <1>1, <1>a, <2>4, <2>5, <2>6, <2>7 DEF AnswersFresh
  <2>9. \A e \in Domains : Watching(e) => watch'[e].last.rev >= watch[e].last.rev
    BY <1>1, <2>1, <2>4
  <2> QED BY <2>8, <2>9
<1>5. ASSUME NEW d \in Domains, RemoveWatch(d) PROVE Goal
  BY <1>5 DEF RemoveWatch, RoundsOnly
<1>6. ASSUME NEW d \in Domains, CheckNow(d) PROVE Goal
  <2>1. nows < 0 /\ nows \in Nat
    BY <1>0, <1>6, MonitorAssumption DEF CheckNow, RoundsOnly, TypeOK
  <2> QED BY <2>1
<1>7. ASSUME NEW n, \/ Start \/ AbandonRound(n) \/ Join(n) \/ Tick(n) \/ Return(n) \/ Cancel(n)
                    \/ Collect \/ UNCHANGED vars
      PROVE  Goal
  <2>1. UNCHANGED <<registry, watch, answer, pc, domain>>
    BY <1>7 DEF Start, AbandonRound, Join, Tick, Return, BeginRound, Cancel, Collect, vars
  <2> QED BY <1>2, <2>1
<1>8. ASSUME NEW n \in Starts, Spawn(n) PROVE Goal
  <2>1. PICK d \in todo[n], b \in Checks :
          pc[b] = "free" /\ pc' = [pc EXCEPT ![b] = "queued"] /\ domain' = [domain EXCEPT ![b] = d]
    BY <1>8 DEF Spawn
  <2>2. \A c \in Checks : pc'[c] = "apply" => pc[c] = "apply" /\ domain'[c] = domain[c]
    BY <1>0, <2>1 DEF TypeOK
  <2>3. UNCHANGED <<registry, watch, answer>> BY <1>8 DEF Spawn
  <2> QED BY <1>2, <2>2, <2>3
<1>9. ASSUME NEW b \in Checks, Acquire(b) PROVE Goal
  <2>1. \A c \in Checks : pc'[c] = "apply" => pc[c] = "apply" /\ domain'[c] = domain[c]
    BY <1>0, <1>9 DEF Acquire, TypeOK
  <2>2. UNCHANGED <<registry, watch, answer>> BY <1>9 DEF Acquire
  <2> QED BY <1>2, <2>1, <2>2
<1>10. ASSUME NEW b \in Checks, Answered(b) \/ Failed(b) PROVE Goal
  <2>1. PICK a : /\ Answer(b, a)
                 /\ a.kind = "parsed" => a.info.rev = registry[domain[b]].rev
    <3>1. CASE Failed(b) BY <3>1 DEF Failed
    <3>2. CASE Answered(b)
      <4>1. PICK P \in AnswerParts :
              Answer(b, [kind |-> "parsed", info |-> View(registry[domain[b]], P)])
        BY <3>2 DEF Answered
      <4>2. View(registry[domain[b]], P).rev = registry[domain[b]].rev BY DEF View
      <4> QED BY <4>1, <4>2
    <3> QED BY <1>10, <3>1, <3>2
  <2>2. /\ pc' = [pc EXCEPT ![b] = "apply"] /\ answer' = [answer EXCEPT ![b] = a]
        /\ UNCHANGED <<registry, watch, domain>>
    BY <2>1 DEF Answer
  <2>3. answer'[b] = a /\ \A c \in Checks \ {b} : pc'[c] = pc[c] /\ answer'[c] = answer[c]
    BY <1>0, <2>2 DEF TypeOK
  <2>4. AnswersFresh'
    <3>1. ASSUME NEW c \in Checks, pc'[c] = "apply", answer'[c].kind = "parsed"
          PROVE  /\ watch[domain[c]].last.rev <= answer'[c].info.rev
                 /\ answer'[c].info.rev <= registry[domain[c]].rev
      <4>1. CASE c = b BY <1>1, <1>b, <2>1, <2>3, <3>1, <4>1
      <4>2. CASE c # b BY <1>a, <2>3, <3>1, <4>2
      <4> QED BY <4>1, <4>2
    <3> QED BY <1>b, <2>2, <3>1 DEF AnswersFresh
  <2>5. \A d \in Domains : watch'[d].last.rev >= watch[d].last.rev
    BY <1>1, <2>2
  <2> QED BY <2>4, <2>5
<1>11. ASSUME NEW b \in Checks, Apply(b) PROVE Goal
  <2>1. /\ pc[b] = "apply" /\ pc' = [pc EXCEPT ![b] = "free"]
        /\ answer' = [answer EXCEPT ![b] = NoAnswer] /\ domain' = [domain EXCEPT ![b] = AnyDomain]
        /\ registry' = registry
    BY <1>11 DEF Apply
  <2>2. pc'[b] = "free" /\ \A c \in Checks \ {b} :
          pc'[c] = pc[c] /\ answer'[c] = answer[c] /\ domain'[c] = domain[c]
    BY <1>0, <2>1 DEF TypeOK
  <2>3. \A c \in Checks \ {b} : pc[c] = "apply" => domain[c] # domain[b]
    BY <1>0, <2>1 DEF RoundsApart, OneCheckEach, UnderWay
  <2>4. /\ \A e \in Domains \ {domain[b]} : watch'[e] = watch[e]
        /\ watch[domain[b]].last.rev <= watch'[domain[b]].last.rev
        /\ watch'[domain[b]].last.rev <= registry[domain[b]].rev
    <3> DEFINE types == Alerts(domain[b], answer[b].info)
    <3> HIDE DEF types
    <3>1. \/ UNCHANGED owner
          \/ watch' = [watch EXCEPT ![domain[b]] =
                         [status |-> "error", last |-> watch[domain[b]].last]]
          \/ /\ answer[b].kind = "parsed"
             /\ watch' = [watch EXCEPT ![domain[b]] =
                  [status |-> IF types = <<>> THEN @.status ELSE "changed",
                   last |-> answer[b].info]]
      BY <1>11 DEF Apply, types
    <3>2. domain[b] \in Domains /\ watch \in [Domains -> WatchState] BY <1>0 DEF TypeOK
    <3>3. CASE UNCHANGED owner BY <1>1, <1>b, <3>2, <3>3
    <3>4. CASE watch' = [watch EXCEPT ![domain[b]] =
                           [status |-> "error", last |-> watch[domain[b]].last]]
      BY <1>1, <1>b, <3>2, <3>4
    <3>5. CASE /\ answer[b].kind = "parsed"
               /\ watch' = [watch EXCEPT ![domain[b]] =
                    [status |-> IF types = <<>> THEN @.status ELSE "changed",
                     last |-> answer[b].info]]
      BY <1>1, <1>a, <2>1, <3>2, <3>5
    <3> QED BY <3>1, <3>3, <3>4, <3>5
  <2>5. AnswersFresh'
    <3>1. \A d \in Domains : watch'[d].last.rev <= registry'[d].rev
      BY <1>b, <2>1, <2>4
    <3>2. ASSUME NEW c \in Checks, pc'[c] = "apply", answer'[c].kind = "parsed"
          PROVE  /\ watch'[domain'[c]].last.rev <= answer'[c].info.rev
                 /\ answer'[c].info.rev <= registry'[domain'[c]].rev
      <4>1. c # b BY <2>2, <3>2
      <4>2. domain[c] # domain[b] /\ domain[c] \in Domains BY <1>1, <2>2, <2>3, <3>2, <4>1
      <4>3. watch'[domain[c]] = watch[domain[c]] BY <2>4, <4>2
      <4> QED BY <1>a, <2>1, <2>2, <3>2, <4>1, <4>3
    <3> QED BY <3>1, <3>2 DEF AnswersFresh
  <2>6. \A d \in Domains : watch'[d].last.rev >= watch[d].last.rev
    BY <1>1, <2>4, <1>0, RevisionTypes
  <2> QED BY <2>5, <2>6
<1>c. (Stop => Cancel(starts)) /\ \A n : CallerCancels(n) => Cancel(n)
  BY DEF Stop, CallerCancels
<1> HIDE DEF Goal
<1>12. Goal
  BY <1>c, <1>3, <1>4, <1>5, <1>6, <1>7, <1>8, <1>9, <1>10, <1>11 DEF Next, Check
<1> QED BY <1>12 DEF Goal

(* Rounds do not overlap, also when one is abandoned: unless CheckNow, a    *)
(* second Start or a renewed watch brings a second check of a domain, what  *)
(* the monitor records never goes back to an older state of the registry.   *)
THEOREM RecordsInOrder ==
  ASSUME RoundsOnly
  PROVE  Spec => RecordedInOrder
<1>1. OrderInv /\ [Next]_vars => OrderInv'
  BY TypeStep, KeptStep, ApartStep, FreshStep DEF OrderInv
<1>2. OrderInv /\ [Next]_vars =>
        [\A d \in Domains : Watching(d) => watch'[d].last.rev >= watch[d].last.rev]_vars
  BY FreshStep
<1>3. Spec => [][\A d \in Domains : Watching(d) => watch'[d].last.rev >= watch[d].last.rev]_vars
  BY <1>1, <1>2, OrderInit, PTL DEF Spec
<1> QED BY <1>3 DEF RecordedInOrder
-----------------------------------------------------------------------------
(* What follows an alert. *)

LEMMA ExpiryFirst ==
  ASSUME NEW d, NEW new, "expiry" \in Raised(d, new)
  PROVE  Len(Alerts(d, new)) >= 1 /\ Alerts(d, new)[1] = "expiry"
<1> DEFINE R == Raised(d, new)
           s == Raise("status", R)
           r == Raise("registrant", R)
           n == Raise("ns", R)
           es == <<"expiry">> \o s
           esr == es \o r
<1>1. {"expiry", "status", "registrant", "ns"} \subseteq AlertType
  BY DEF AlertType
<1>2. Raise("expiry", R) = <<"expiry">>
  BY DEF Raise
<1>3. Alerts(d, new) = esr \o n
  BY <1>2 DEF Alerts
<1> HIDE DEF R
<1>4. s \in Seq(AlertType) /\ r \in Seq(AlertType) /\ n \in Seq(AlertType)
  BY <1>1, RaiseElements
<1> HIDE DEF s, r, n
<1>5. ASSUME NEW a \in Seq(AlertType), NEW b \in Seq(AlertType), Len(a) >= 1, a[1] = "expiry"
      PROVE  a \o b \in Seq(AlertType) /\ Len(a \o b) >= 1 /\ (a \o b)[1] = "expiry"
  <2>1. Len(a) \in Nat /\ Len(b) \in Nat
    OBVIOUS
  <2>2. a \o b \in Seq(AlertType) /\ Len(a \o b) = Len(a) + Len(b)
    OBVIOUS
  <2>3. (a \o b)[1] = a[1]
    BY <1>5, <2>1, ConcatProperties
  <2> QED BY <1>5, <2>1, <2>2, <2>3
<1>6. <<"expiry">> \in Seq(AlertType) /\ Len(<<"expiry">>) >= 1 /\ <<"expiry">>[1] = "expiry"
  BY <1>1
<1>7. es \in Seq(AlertType) /\ Len(es) >= 1 /\ es[1] = "expiry"
  BY <1>4, <1>5, <1>6
<1> HIDE DEF es
<1>8. esr \in Seq(AlertType) /\ Len(esr) >= 1 /\ esr[1] = "expiry"
  BY <1>4, <1>5, <1>7
<1> HIDE DEF esr
<1> QED BY <1>3, <1>4, <1>5, <1>8

LEMMA EmitFirst ==
  ASSUME ChannelType, NEW d \in Domains, NEW types \in Seq(AlertType), Len(types) >= 1,
         Emit(d, types), Len(alertChan) < AlertCap
  PROVE  /\ Len(alertChan') > Len(alertChan)
         /\ alertChan'[Len(alertChan) + 1] = [domain |-> d, type |-> types[1]]
<1> DEFINE alarm == Alarm(d, types)
           room == AlertCap - Len(alertChan)
           n == IF Len(types) <= room THEN Len(types) ELSE room
<1>1. Len(types) \in Nat /\ Len(alertChan) \in Nat /\ AlertCap \in Nat /\ room \in Nat /\ room >= 1
  BY MonitorAssumption DEF ChannelType
<1>2. DOMAIN types = 1 .. Len(types) /\ \A i \in 1 .. Len(types) : types[i] \in AlertType
  BY <1>1
<1>3. alarm = [i \in 1 .. Len(types) |-> [domain |-> d, type |-> types[i]]]
  BY <1>2 DEF Alarm
<1>4. alarm \in Seq(Alert) /\ Len(alarm) = Len(types) /\ alarm[1] = [domain |-> d, type |-> types[1]]
  <2>1. \A i \in 1 .. Len(types) : [domain |-> d, type |-> types[i]] \in Alert
    BY <1>2 DEF Alert
  <2>2. 1 \in 1 .. Len(types)
    BY <1>1
  <2> QED BY <1>1, <1>3, <2>1, <2>2, IsASeq
<1>5. n \in 1 .. Len(types)
  BY <1>1
<1>6. alertChan' = alertChan \o SubSeq(alarm, 1, n)
  BY DEF Emit
<1> HIDE DEF alarm, n, room
<1>7. SubSeq(alarm, 1, n) \in Seq(Alert) /\ Len(SubSeq(alarm, 1, n)) = n
      /\ SubSeq(alarm, 1, n)[1] = alarm[1]
  BY <1>1, <1>4, <1>5
<1> DEFINE tail == SubSeq(alarm, 1, n)
<1> HIDE DEF tail
<1>8. tail \in Seq(Alert) /\ Len(tail) = n /\ tail[1] = alarm[1] /\ alertChan' = alertChan \o tail
  BY <1>6, <1>7 DEF tail
<1>9. Len(alertChan') = Len(alertChan) + n /\ alertChan'[Len(alertChan) + 1] = tail[1]
  <2>1. alertChan \in Seq(Alert) /\ Len(alertChan) + n \in Nat
    BY <1>1, <1>5 DEF ChannelType
  <2>2. Len(alertChan') = Len(alertChan) + n
    BY <1>8, <2>1, ConcatProperties
  <2>3. \A i \in 1 .. Len(alertChan) + n :
          alertChan'[i] = IF i <= Len(alertChan) THEN alertChan[i] ELSE tail[i - Len(alertChan)]
    BY <1>8, <2>1, ConcatProperties
  <2>4. /\ Len(alertChan) + 1 \in 1 .. Len(alertChan) + n
        /\ ~(Len(alertChan) + 1 <= Len(alertChan)) /\ (Len(alertChan) + 1) - Len(alertChan) = 1
    BY <1>1, <1>5
  <2> QED BY <2>2, <2>3, <2>4
<1> QED BY <1>1, <1>4, <1>5, <1>8, <1>9

(* A status that no check resets: an alert was raised, or a query failed.   *)
Unsettled(d) == watch[d].status \in {"changed", "error"}

(* A watch that stays, and is not added anew, stays unsettled.              *)
Lasts == \A d \in Domains : Unsettled(d) /\ Watching(d)' /\ ~AddWatch(d) => Unsettled(d)'

(* An answer that has an expiry date raises one more expiry alert, whatever *)
(* it says, and makes the watch "changed".                                  *)
Repeats ==
  \A c \in Checks :
    /\ Apply(c) /\ Unsettled(domain[c])
    /\ answer[c].kind = "parsed" /\ answer[c].info.expiry # "none"
    => /\ watch'[domain[c]].status = "changed"
       /\ Len(alertChan) < AlertCap =>
            /\ Len(alertChan') > Len(alertChan)
            /\ alertChan'[Len(alertChan) + 1] = [domain |-> domain[c], type |-> "expiry"]

LEMMA LastsStep == TypeOK /\ [Next]_vars => Lasts
<1> SUFFICES ASSUME TypeOK, [Next]_vars PROVE Lasts
  OBVIOUS
<1>0. watch \in [Domains -> WatchState]
  BY DEF TypeOK
<1>1. CASE UNCHANGED owner
  BY <1>1 DEF Lasts, Unsettled
<1>2. ASSUME NEW d \in Domains, AddWatch(d) PROVE Lasts
  <2>1. \A e \in Domains \ {d} : watch'[e] = watch[e]
    BY <1>0, <1>2 DEF AddWatch
  <2> QED BY <1>2, <2>1 DEF Lasts, Unsettled
<1>3. ASSUME NEW d \in Domains, RemoveWatch(d) PROVE Lasts
  <2>1. \A e \in Domains \ {d} : watch'[e] = watch[e]
    BY <1>0, <1>3 DEF RemoveWatch
  <2>2. ~Watching(d)'
    BY <1>0, <1>3 DEF RemoveWatch, Watching, Unwatched
  <2> QED BY <2>1, <2>2 DEF Lasts, Unsettled
<1>4. ASSUME NEW c \in Checks, Apply(c) PROVE Lasts
  <2> DEFINE d == domain[c]
             types == Alerts(d, answer[c].info)
  <2>1. d \in Domains /\ watch[d] \in WatchState
    BY <1>0 DEF TypeOK
  <2>2. CASE UNCHANGED owner
    BY <1>1, <2>2
  <2>3. CASE watch' = [watch EXCEPT ![d] = [status |-> "error", last |-> watch[d].last]]
    BY <1>0, <2>1, <2>3 DEF Lasts, Unsettled
  <2>4. CASE watch' = [watch EXCEPT ![d] =
               [status |-> IF types = <<>> THEN @.status ELSE "changed", last |-> answer[c].info]]
    <3> HIDE DEF types
    <3> QED BY <1>0, <2>1, <2>4 DEF Lasts, Unsettled
  <2> QED BY <1>4, <2>2, <2>3, <2>4 DEF Apply
<1> QED BY <1>1, <1>2, <1>3, <1>4, OwnerSteps

LEMMA RepeatsStep == TypeOK => Repeats
<1> SUFFICES ASSUME TypeOK, NEW c \in Checks, Apply(c), Unsettled(domain[c]),
                    answer[c].kind = "parsed", answer[c].info.expiry # "none"
             PROVE  /\ watch'[domain[c]].status = "changed"
                    /\ Len(alertChan) < AlertCap =>
                         /\ Len(alertChan') > Len(alertChan)
                         /\ alertChan'[Len(alertChan) + 1] = [domain |-> domain[c], type |-> "expiry"]
  BY DEF Repeats
<1> DEFINE d == domain[c]
           new == answer[c].info
           types == Alerts(d, new)
<1>1. d \in Domains /\ new \in Info /\ watch \in [Domains -> WatchState] /\ Watching(d)
  BY DEF TypeOK, Unsettled, Watching
<1>2. "expiry" \in Raised(d, new)
  BY <1>1, MonitorAssumption DEF Info, Unsettled, Raised
<1>3. types \in Seq(AlertType) /\ Len(types) >= 1 /\ types[1] = "expiry"
  BY <1>2, ExpiryFirst, AlertsTell
<1>4. types # <<>>
  BY <1>3
<1>5. /\ watch' = [watch EXCEPT ![d] =
           [status |-> IF types = <<>> THEN @.status ELSE "changed", last |-> new]]
      /\ Emit(d, types)
  BY <1>1 DEF Apply
<1> HIDE DEF d, types
<1>6. watch'[d].status = "changed"
  BY <1>1, <1>4, <1>5
<1>7. ChannelType
  BY DEF TypeOK, ChannelType, Alert
<1>8. Len(alertChan) < AlertCap =>
        /\ Len(alertChan') > Len(alertChan)
        /\ alertChan'[Len(alertChan) + 1] = [domain |-> d, type |-> types[1]]
  BY <1>1, <1>3, <1>5, <1>7, EmitFirst
<1> QED BY <1>3, <1>6, <1>8 DEF d

(* Once a check has alerted or failed, the status of the watch never is     *)
(* active, warning, critical or expired again, and each answer to a check   *)
(* raises one more expiry alert, though nothing has changed: checkDomain    *)
(* compares the class of the days remaining with the status, not with the   *)
(* class before.                                                            *)
THEOREM ChangedForGood == Spec => [][Lasts]_vars /\ [][Repeats]_vars
<1>1. TypeOK /\ [Next]_vars => [Lasts]_vars
  BY LastsStep
<1>2. TypeOK => [Repeats]_vars
  BY RepeatsStep
<1>3. Spec => [][Lasts]_vars
  BY <1>1, TypeCorrect, PTL DEF Spec
<1>4. Spec => [][Repeats]_vars
  BY <1>2, TypeCorrect, PTL DEF Spec
<1> QED BY <1>3, <1>4
=============================================================================
