---------------------------- MODULE DomainMonitor ----------------------------
(***************************************************************************)
(* The domain monitor of pkg/whois/monitor.go.  Start() runs rounds, and    *)
(* may be called while another Start runs: each round copies the watch      *)
(* list, spawns one goroutine per domain behind a semaphore of its own, and *)
(* waits for them.  A goroutine queries without the lock and then, under    *)
(* it, compares the answer with the last one and raises alerts.  CheckNow() *)
(* runs the same check in its caller's goroutine.                           *)
(*                                                                         *)
(* A registry record is abstracted to the revision at which each compared   *)
(* field last changed, and to the class of its days remaining.              *)
(***************************************************************************)
EXTENDS Integers, FiniteSets, SequencesExt

CONSTANTS
  Domains,
  Checks,               \* goroutines that run checkDomain
  Fields,               \* the fields the configuration compares
  Classes,              \* classes of days remaining that occur
  MaxConcurrentChecks,  \* capacity of a round's semaphore
  AlertCap,             \* capacity of alertChan (100 in the code)
  AnswerParts,          \* the parts a parsed answer may have
  CanRemove,            \* may the owner remove and add again?
  SaveOutcomes,         \* what becomes of a save; without a provider all are lost
  MaxNow,               \* bound: calls of CheckNow
  MaxStarts,            \* bound: calls of Start
  MaxCalls,             \* bound: calls of both
  MaxChanges            \* bound: once a record has changed that often, none changes

ASSUME MonitorAssumption ==
  /\ IsFiniteSet(Domains) /\ Domains # {} /\ IsFiniteSet(Checks)
  /\ Fields \subseteq {"status", "registrant", "ns"}
  /\ Classes \subseteq {"active", "warning", "critical", "expired"}
  /\ "active" \in Classes
  /\ MaxConcurrentChecks \in Nat \ {0} /\ AlertCap \in Nat
  /\ AnswerParts \subseteq SUBSET {"expiry", "registrant"} /\ AnswerParts # {}
  /\ CanRemove \in BOOLEAN /\ SaveOutcomes \subseteq {"saved", "lost"} /\ SaveOutcomes # {}
  /\ MaxNow \in Nat /\ MaxStarts \in Nat /\ MaxCalls \in Nat /\ MaxChanges \in Nat

VARIABLES
  registry,   \* the record of each domain at its registry
  watch,      \* watchlist
  stored,     \* the watch states the MonitorStateProvider keeps
  loop, todo, \* of each Start: where it is; the domains its round has still to spawn
  starts, cancelled,       \* contexts created so far; those cancelled
  pc, domain, ctx, answer, \* of each check
  late,       \* the checks of rounds before the present one of their Start
  alertChan,
  told,       \* history: what alerts, or the first record, said of each field
  unsaved,    \* history: the changed domains whose last SaveWatchState failed
  nows        \* calls of CheckNow so far

owner   == <<watch, stored, told, unsaved>>
looping == <<loop, todo, starts, cancelled>>
checks  == <<pc, domain, ctx, answer, late>>
vars    == <<registry, owner, looping, checks, alertChan, nows>>
-----------------------------------------------------------------------------
Parts   == {"expiry", "registrant"}   \* what a parsed answer may lack
Missing == -1

Record == [rev : Nat, expiry : Classes, field : [Fields -> Nat]]
FirstRecord == [rev |-> 0, expiry |-> "active", field |-> [f \in Fields |-> 0]]

(* What a check holds of an answer, and the watch as LastInfo.  The parser  *)
(* always finds a Domain, with its status and name servers; the registrant  *)
(* and the expiry date may be missing.  NoInfo is a nil LastInfo.           *)
Info   == [rev : Nat \cup {Missing}, expiry : Classes \cup {"none"},
           field : [Fields -> Nat \cup {Missing}]]
NoInfo == [rev |-> Missing, expiry |-> "none", field |-> [f \in Fields |-> Missing]]

View(r, parts) ==
  [rev    |-> r.rev,
   expiry |-> IF "expiry" \in parts THEN r.expiry ELSE "none",
   field  |-> [f \in Fields |-> IF f \in parts \cup {"status", "ns"} THEN r.field[f] ELSE Missing]]

Status   == {"active", "warning", "critical", "expired", "error", "changed"}
AlertType == {"expiry", "status", "registrant", "ns", "query_error"}

Unwatched == [status |-> "none", last |-> NoInfo]
Watching(d) == watch[d].status # "none"
-----------------------------------------------------------------------------
Starts == 1 .. MaxStarts
AnyDomain == CHOOSE d \in Domains : TRUE   \* what a free goroutine holds
NoAnswer == [kind |-> "none", info |-> NoInfo]

Init ==
  /\ registry = [d \in Domains |-> FirstRecord]
  /\ watch = [d \in Domains |-> Unwatched]
  /\ stored = [d \in Domains |-> Unwatched]
  /\ told = [d \in Domains |-> NoInfo.field] /\ unsaved = {}
  /\ loop = [n \in Starts |-> "off"] /\ todo = [n \in Starts |-> {}]
  /\ starts = 0 /\ cancelled = {}
  /\ pc = [c \in Checks |-> "free"]
  /\ domain = [c \in Checks |-> AnyDomain]
  /\ ctx = [c \in Checks |-> 0]
  /\ answer = [c \in Checks |-> NoAnswer] /\ late = {}
  /\ alertChan = <<>>
  /\ nows = 0

(* The registry changes a field, or days pass, or the domain is renewed. *)
Change(d) ==
  /\ \A e \in Domains : registry[e].rev < MaxChanges
  /\ LET n == registry[d].rev + 1
     IN  \/ \E f \in Fields :
              registry' = [registry EXCEPT ![d] =
                [rev |-> n, expiry |-> @.expiry, field |-> [@.field EXCEPT ![f] = n]]]
         \/ \E e \in Classes \ {registry[d].expiry} :
              registry' = [registry EXCEPT ![d] =
                [rev |-> n, expiry |-> e, field |-> @.field]]
  /\ UNCHANGED <<owner, looping, checks, alertChan, nows>>
-----------------------------------------------------------------------------
(* The owner of the watch list. *)

(* AddWatch(d, initialInfo): a new state even if d is watched already.      *)
AddWatch(d) ==
  /\ ~Watching(d) \/ CanRemove
  /\ \E info \in {NoInfo, View(registry[d], Parts)} :
       /\ watch' = [watch EXCEPT ![d] =
            [status |-> IF info = NoInfo THEN "active" ELSE info.expiry, last |-> info]]
       /\ told' = [told EXCEPT ![d] = info.field]
  /\ unsaved' = unsaved \ {d}
  /\ UNCHANGED <<registry, stored, looping, checks, alertChan, nows>>

RemoveWatch(d) ==
  /\ CanRemove /\ Watching(d)
  /\ watch' = [watch EXCEPT ![d] = Unwatched]
  /\ told' = [told EXCEPT ![d] = NoInfo.field] /\ unsaved' = unsaved \ {d}
  /\ UNCHANGED <<registry, stored, looping, checks, alertChan, nows>>

(* The consumer of Alerts().                                               *)
Collect ==
  /\ alertChan # <<>>
  /\ alertChan' = Tail(alertChan)
  /\ UNCHANGED <<registry, owner, looping, checks, nows>>
-----------------------------------------------------------------------------
(* The loops of Start, which may be called while others run.                *)

(* Mutation: a check is over with its answer, which another goroutine applies. *)
UnderWayUntilAnswer(c) == pc[c] \notin {"free", "apply"}
UnderWay(c) == pc[c] # "free"

(* The checks of the present round of the n-th Start.                       *)
Round(n) == {c \in Checks : UnderWay(c) /\ ctx[c] = n /\ c \notin late}

(* checkAll copies the watch list, and makes a semaphore; an empty list is  *)
(* no round.  Checks that are still under way are of an earlier round.      *)
BeginRound(n) ==
  LET watched == {d \in Domains : Watching(d)}
  IN  /\ todo' = [todo EXCEPT ![n] = watched]
      /\ loop' = [loop EXCEPT ![n] = IF watched = {} THEN "wait" ELSE "spawn"]
      /\ late' = late \cup Round(n)
      /\ UNCHANGED <<pc, domain, ctx, answer>>

(* Nothing keeps a Start from replacing the cancel function of another.     *)
Start ==
  /\ starts < MaxStarts /\ starts + nows < MaxCalls
  /\ starts' = starts + 1
  /\ BeginRound(starts + 1)
  /\ UNCHANGED <<registry, owner, cancelled, alertChan, nows>>

Stopped(n) == n \in cancelled

(* The select of checkAll: a cancelled round returns at once, and does not  *)
(* wait for the goroutines it has spawned.                                  *)
AbandonRound(n) ==
  /\ loop[n] = "spawn" /\ Stopped(n)
  /\ loop' = [loop EXCEPT ![n] = "wait"] /\ todo' = [todo EXCEPT ![n] = {}]
  /\ UNCHANGED <<registry, owner, starts, cancelled, checks, alertChan, nows>>

Spawn(n) ==
  /\ loop[n] = "spawn" /\ ~Stopped(n)
  /\ \E d \in todo[n], c \in Checks :
       /\ pc[c] = "free"
       /\ pc' = [pc EXCEPT ![c] = "queued"]
       /\ domain' = [domain EXCEPT ![c] = d]
       /\ ctx' = [ctx EXCEPT ![c] = n]
       /\ todo' = [todo EXCEPT ![n] = @ \ {d}]
       /\ loop' = [loop EXCEPT ![n] = IF todo[n] = {d} THEN "join" ELSE "spawn"]
  /\ UNCHANGED <<registry, owner, starts, cancelled, answer, late, alertChan, nows>>

(* wg.Wait().  Mutation: it is left out.                                    *)
JoinAtOnce(n) ==
  /\ loop[n] = "join"
  /\ loop' = [loop EXCEPT ![n] = "wait"]
  /\ UNCHANGED <<registry, owner, todo, starts, cancelled, checks, alertChan, nows>>
Join(n) ==
  /\ loop[n] = "join" /\ Round(n) = {}
  /\ loop' = [loop EXCEPT ![n] = "wait"]
  /\ UNCHANGED <<registry, owner, todo, starts, cancelled, checks, alertChan, nows>>

(* The ticker fires; the select may prefer it to a cancelled context.       *)
Tick(n) ==
  /\ loop[n] = "wait"
  /\ BeginRound(n)
  /\ UNCHANGED <<registry, owner, starts, cancelled, alertChan, nows>>

Return(n) ==
  /\ loop[n] = "wait" /\ Stopped(n)
  /\ loop' = [loop EXCEPT ![n] = "off"]
  /\ UNCHANGED <<registry, owner, todo, starts, cancelled, checks, alertChan, nows>>

(* Stop() cancels the context of the latest Start, if there was one; those  *)
(* before it end only when their callers cancel the context they gave.      *)
Cancel(n) ==
  /\ cancelled' = cancelled \cup {n}
  /\ UNCHANGED <<registry, owner, loop, todo, starts, checks, alertChan, nows>>
Stop == starts > 0 /\ Cancel(starts)
CallerCancels(n) == n \in 1 .. starts /\ Cancel(n)
-----------------------------------------------------------------------------
(* checkDomain. *)

(* The checks that hold a slot of c's semaphore, the one of its round.  Two *)
(* rounds of a Start that are over share one here: a Start abandons a round *)
(* only when it is cancelled, and then spawns no more.                      *)
Holders(c) ==
  {x \in Checks : /\ UnderWay(x) /\ pc[x] # "queued"
                  /\ ctx[x] = ctx[c] /\ (x \in late <=> c \in late)}

Acquire(c) ==
  /\ pc[c] = "queued"
  /\ Cardinality(Holders(c)) < MaxConcurrentChecks
  /\ pc' = [pc EXCEPT ![c] = "query"]
  /\ UNCHANGED <<registry, owner, looping, domain, ctx, answer, late, alertChan, nows>>

(* CheckNow(d): the watch list is read, then the check runs without a slot. *)
CheckNow(d) ==
  /\ Watching(d) /\ nows < MaxNow /\ starts + nows < MaxCalls
  /\ nows' = nows + 1
  /\ \E c \in Checks :
       /\ pc[c] = "free"
       /\ pc' = [pc EXCEPT ![c] = "query"]
       /\ domain' = [domain EXCEPT ![c] = d]
       /\ ctx' = [ctx EXCEPT ![c] = 0]
  /\ UNCHANGED <<registry, owner, looping, answer, late, alertChan>>

(* ExecuteQueryWithResultContext, outside the lock: a parsed answer or an   *)
(* error, which a cancelled context is.  Without an error Info is not nil.  *)
Answer(c, a) ==
  /\ pc[c] = "query"
  /\ pc' = [pc EXCEPT ![c] = "apply"]
  /\ answer' = [answer EXCEPT ![c] = a]
  /\ UNCHANGED <<registry, owner, looping, domain, ctx, late, alertChan, nows>>

Answered(c) == \E P \in AnswerParts :
                 Answer(c, [kind |-> "parsed", info |-> View(registry[domain[c]], P)])
Failed(c)   == Answer(c, [kind |-> "error", info |-> NoInfo])

(* The fields whose value is known before and now, and differs.  Mutation:  *)
(* only the status is compared.                                             *)
DifferingStatus(old, new) ==
  {f \in Fields \cap {"status"} : old.field[f] # new.field[f]}
Differing(old, new) ==
  {f \in Fields : Missing \notin {old.field[f], new.field[f]} /\ old.field[f] # new.field[f]}

(* The alerts of a parsed answer, in the order they are raised: the class   *)
(* of the days remaining is compared with the status of the watch.          *)
Raised(d, new) ==
  Differing(watch[d].last, new)
    \cup IF new.expiry \in {"none", watch[d].status} THEN {} ELSE {"expiry"}
Raise(type, raised) == IF type \in raised THEN <<type>> ELSE <<>>
Alerts(d, new) ==
  LET raised == Raised(d, new)
  IN  Raise("expiry", raised) \o Raise("status", raised)
        \o Raise("registrant", raised) \o Raise("ns", raised)

(* emitAlert: a full channel drops the alert.  Mutations: it blocks; it     *)
(* grows.                                                                   *)
Alarm(d, types) == [i \in DOMAIN types |-> [domain |-> d, type |-> types[i]]]
EmitBlocks(d, types) ==
  /\ Len(alertChan) + Len(types) <= AlertCap
  /\ alertChan' = alertChan \o Alarm(d, types)
EmitAll(d, types) == alertChan' = alertChan \o Alarm(d, types)
Emit(d, types) ==
  LET room == AlertCap - Len(alertChan)
  IN  alertChan' = alertChan \o
        SubSeq(Alarm(d, types), 1, IF Len(types) <= room THEN Len(types) ELSE room)

(* What the listeners know: the first record, and what alerts say, as long  *)
(* as no answer lacks the field: a value that follows a missing one is      *)
(* compared with nothing, and not alerted.                                  *)
Tell(d, new, types) ==
  LET heard == IF watch[d].last = NoInfo THEN Fields ELSE ToSet(types) \cap Fields
  IN  told' = [told EXCEPT ![d] = [f \in Fields |->
        IF f \in heard \/ new.field[f] = Missing THEN new.field[f] ELSE @[f]]]

(* SaveWatchState(state), whose error is only logged.  Mutation: it is      *)
(* called before the status changes.                                        *)
SavedEarly(d, state) == [state EXCEPT !.status = watch[d].status]
Saved(d, state) == state
Save(d, state) ==
  \/ /\ "saved" \in SaveOutcomes
     /\ stored' = [stored EXCEPT ![d] = Saved(d, state)] /\ unsaved' = unsaved \ {d}
  \/ /\ "lost" \in SaveOutcomes /\ UNCHANGED stored
     /\ unsaved' = IF state.status = "changed" THEN unsaved \cup {d} ELSE unsaved \ {d}

Apply(c) ==
  /\ pc[c] = "apply"
  /\ LET d   == domain[c]
         new == answer[c].info
         types == Alerts(d, new)
     IN  \/ /\ ~Watching(d)
            /\ UNCHANGED <<owner, alertChan>>
         \/ /\ Watching(d) /\ answer[c].kind = "error"
            /\ watch' = [watch EXCEPT ![d] = [status |-> "error", last |-> @.last]]
            /\ Emit(d, <<"query_error">>)
            /\ unsaved' = unsaved \ {d} /\ UNCHANGED <<stored, told>>
         \/ /\ Watching(d) /\ answer[c].kind = "parsed"
            /\ watch' = [watch EXCEPT ![d] =
                 [status |-> IF types = <<>> THEN @.status ELSE "changed", last |-> new]]
            /\ Save(d, watch'[d])
            /\ Emit(d, types)
            /\ Tell(d, new, types)
  /\ pc' = [pc EXCEPT ![c] = "free"]
  /\ answer' = [answer EXCEPT ![c] = NoAnswer]
  /\ domain' = [domain EXCEPT ![c] = AnyDomain]
  /\ ctx' = [ctx EXCEPT ![c] = 0] /\ late' = late \ {c}
  /\ UNCHANGED <<registry, looping, nows>>
-----------------------------------------------------------------------------
Check(c) == Acquire(c) \/ Answered(c) \/ Failed(c) \/ Apply(c)

Next ==
  \/ \E d \in Domains : Change(d) \/ AddWatch(d) \/ RemoveWatch(d) \/ CheckNow(d)
  \/ Start \/ Stop
  \/ \E n \in Starts : \/ AbandonRound(n) \/ Spawn(n) \/ Join(n) \/ Tick(n) \/ Return(n)
                      \/ CallerCancels(n)
  \/ \E c \in Checks : Check(c)
  \/ Collect

Spec == Init /\ [][Next]_vars

(* The loops and their goroutines are scheduled, a query ends, and not      *)
(* always with an error; the ticker keeps firing, and a select does not     *)
(* neglect a ready case for ever.  Nobody has to read the alerts.           *)
Fairness ==
  /\ \A n \in Starts : /\ WF_vars(AbandonRound(n)) /\ WF_vars(Spawn(n)) /\ WF_vars(Join(n))
                        /\ WF_vars(Tick(n)) /\ SF_vars(Return(n))
  /\ \A c \in Checks : SF_vars(Acquire(c)) /\ SF_vars(Answered(c)) /\ WF_vars(Apply(c))

FairSpec == Spec /\ Fairness
-----------------------------------------------------------------------------
(* Properties. *)

WatchState == [status : Status \cup {"none"}, last : Info]

TypeOK ==
  /\ registry \in [Domains -> Record]
  /\ watch \in [Domains -> WatchState] /\ stored \in [Domains -> WatchState]
  /\ told \in [Domains -> [Fields -> Nat \cup {Missing}]]
  /\ unsaved \subseteq Domains
  /\ loop \in [Starts -> {"off", "spawn", "join", "wait"}] /\ todo \in [Starts -> SUBSET Domains]
  /\ \A n \in Starts : loop[n] # "off" => n <= starts
  /\ starts \in 0 .. MaxStarts /\ cancelled \subseteq 1 .. starts
  /\ pc \in [Checks -> {"free", "queued", "query", "apply"}]
  /\ domain \in [Checks -> Domains] /\ ctx \in [Checks -> 0 .. starts]
  /\ answer \in [Checks -> [kind : {"none", "parsed", "error"}, info : Info]]
  /\ late \subseteq Checks
  /\ alertChan \in Seq([domain : Domains, type : AlertType]) /\ Len(alertChan) <= AlertCap
  /\ nows \in 0 .. MaxNow

(* Rounds do not overlap, so the recorded information never goes back to an *)
(* older state of the registry (checked without CheckNow, a second Start or *)
(* a renewed watch, which each bring a second check of the domain).         *)
RecordedInOrder ==
  [][\A d \in Domains : Watching(d) => watch'[d].last.rev >= watch[d].last.rev]_vars

(* What the monitor records of a field is what its listeners were told of   *)
(* it last, by the first record or by a change alert, however rounds,       *)
(* CheckNow and renewed watches overlap: a change goes untold only across   *)
(* an answer that lacked the field, from which on nothing is told of it.    *)
ChangesTold ==
  \A d \in Domains : Watching(d) =>
    \A f \in Fields : told[d][f] \in {Missing, watch[d].last.field[f]}

(* All the rounds of one Start together never have more than                *)
(* MaxConcurrentChecks checks under way, although each makes a semaphore of *)
(* its own and an abandoned one leaves its checks behind.  Two Starts may   *)
(* have twice as many.                                                      *)
StartBounded ==
  \A n \in 1 .. starts :
    Cardinality({c \in Checks : pc[c] \in {"query", "apply"} /\ ctx[c] = n})
      <= MaxConcurrentChecks

(* A check that finds what is recorded already ends the status "changed".   *)
QuietCheckSettles ==
  [][\A c \in Checks :
       /\ Apply(c) /\ Watching(domain[c])
       /\ answer[c].kind = "parsed" /\ answer[c].info = watch[domain[c]].last
       => watch'[domain[c]].status # "changed"]_vars

(* A change that was alerted is stored, unless the save of that very check  *)
(* failed: a process that restarts from the stored state does not alert it  *)
(* a second time.                                                           *)
AlertedIsStored ==
  \A d \in Domains : watch[d].status = "changed" /\ d \notin unsaved => stored[d] = watch[d]

(* A monitor one Start of which keeps running records, in the end, what the *)
(* registry says of each domain that stays watched and is not added over    *)
(* and over, even if nobody reads the alerts.                               *)
CatchesUp ==
  \A d \in Domains :
    <>[](Watching(d) /\ \E n \in Starts : loop[n] # "off" /\ ~Stopped(n)) /\ <>[][~AddWatch(d)]_vars
      => <>[](watch[d].last.rev = registry[d].rev)

(* A Start whose context is cancelled returns, whatever it is at, and       *)
(* whatever other Starts run.  (Stop cancels only the latest.)              *)
StopReturns == \A n \in Starts : Stopped(n) ~> loop[n] = "off"
=============================================================================
