------------------------------- MODULE McpProofs -------------------------------
(***************************************************************************)
(* The proofs about McpTasks, for any number of requests, tasks and         *)
(* callers.  The invariant says what a call that has passed its checks can  *)
(* still rely on, unless another call for the same request is one of those  *)
(* that "met" counts as a race.                                             *)
(***************************************************************************)
EXTENDS McpTasks, TLAPS

(* The steps that are about one task.                                       *)
OneTask == {"mark", "approve", "edit", "delete", "unlist", "unmap"}

(* The tasks that a call is about, or may list again.                       *)
About(c) ==
  ToSet(call[c].saw) \cup (IF call[c].step \in OneTask THEN {call[c].tasks[1]} ELSE {})

(* A call is for a request that exists; its tasks existed when it saw them, *)
(* in the list of that request, so no other list has them, and no call for  *)
(* another request.                                                         *)
Owns(c) ==
  /\ Exists(call[c].request)
  /\ call[c].step \in {"delete", "unlist"} => call[c].index >= 1
  /\ call[c].step = "unlist" => call[c].index <= Len(call[c].saw)
  /\ call[c].step \in OneTask => Len(call[c].tasks) = 1
  /\ \A t \in About(c) :
       /\ task[t] # "new"
       /\ \A q \in Requests : t \in Listed(q) => q = call[c].request
       /\ \A d \in Callers : ~Idle(d) /\ t \in About(d) => call[d].request = call[c].request

CallsOwn == \A c \in Callers : ~Idle(c) => Owns(c)

(* A task is in the list of one request, and exists.                        *)
ListsApart ==
  /\ \A r \in Requests : \A t \in Listed(r) :
       task[t] # "new" /\ \A q \in Requests : t \in Listed(q) => q = r
  /\ \A r \in Requests : ~Exists(r) => list[r] = <<>>
  /\ \A t \in known : task[t] # "new"

(* Two calls for a request that race are known to.                          *)
RacesMet ==
  \A c, d \in Callers :
    c # d /\ ~Idle(c) /\ ~Idle(d) /\ call[c].request = call[d].request
      => Race(call[c].step, call[d].step) \subseteq met

(* What the checks have found still holds.                                  *)
ApprovedOnce ==
  \A c \in Callers : call[c].step = "approve" => task[call[c].tasks[1]] \in {"done", "approved"}

FinishHolds ==
  ListsKept /\ "approval" \notin met =>
    \A c \in Callers :
      /\ call[c].step = "finish" => AllApproved(list[call[c].request], task)
      /\ call[c].step = "add" => request[call[c].request] # "done"

DeleteHolds ==
  ListsKept =>
    \A c \in Callers :
      /\ call[c].step \in {"delete", "unlist"} =>
           /\ call[c].index \in 1 .. Len(list[call[c].request])
           /\ list[call[c].request][call[c].index] = call[c].tasks[1]
      /\ call[c].step = "unlist" => call[c].saw = list[call[c].request]
      /\ call[c].step = "unmap" => \A r \in Requests : call[c].tasks[1] \notin Listed(r)

ChangeHolds ==
  "finished" \notin met =>
    \A c \in Callers :
      call[c].step \in {"edit", "delete", "unlist"} => Changeable(call[c].tasks[1])

McpInv ==
  /\ TypeOK /\ CallsOwn /\ ListsApart /\ RacesMet
  /\ ApprovedOnce /\ FinishHolds /\ DeleteHolds /\ ChangeHolds
  /\ DoneUnlessRaced /\ TablesAgree
-----------------------------------------------------------------------------
LEMMA ListedAt ==
  ASSUME TypeOK, NEW r \in Requests, NEW t
  PROVE  t \in Listed(r) <=> \E i \in 1 .. Len(list[r]) : list[r][i] = t
  BY DEF TypeOK, Listed, ToSet

LEMMA ListedNext ==
  ASSUME TypeOK', NEW r \in Requests, NEW t
  PROVE  (t \in Listed(r))' <=> \E i \in 1 .. Len(list'[r]) : list'[r][i] = t
  BY DEF TypeOK, Listed, ToSet

LEMMA IdleAs ==
  ASSUME TypeOK, NEW c \in Callers
  PROVE  /\ Idle(c) <=> call[c].step = "none"
         /\ ~Idle(c) <=> call[c] \in Call
  BY DEF TypeOK, Idle, Call, NoCall, Steps

LEMMA IdleNext ==
  ASSUME TypeOK', NEW c \in Callers
  PROVE  /\ Idle(c)' <=> call'[c].step = "none"
         /\ ~Idle(c)' <=> call'[c] \in Call
<1>1. call'[c] \in Call \cup {NoCall}
  BY DEF TypeOK
<1>2. ASSUME call'[c] \in Call PROVE call'[c].step # "none" /\ call'[c] # NoCall
  BY <1>2 DEF Call, NoCall, Steps
<1> QED BY <1>1, <1>2 DEF Idle, NoCall

(* A call that is about one task names a task.                              *)
LEMMA CallTask ==
  ASSUME TypeOK, CallsOwn, NEW c \in Callers, call[c].step \in OneTask
  PROVE  /\ call[c] \in Call /\ call[c].request \in Requests
         /\ call[c].tasks[1] \in Tasks /\ task[call[c].tasks[1]] # "new"
<1>1. ~Idle(c) /\ call[c] \in Call
  BY IdleAs DEF OneTask
<1>2. Len(call[c].tasks) = 1 /\ task[call[c].tasks[1]] # "new" /\ call[c].tasks \in Seq(Tasks)
  BY <1>1 DEF CallsOwn, Owns, About, Call
<1> QED BY <1>1, <1>2 DEF Call

LEMMA AboutTasks ==
  ASSUME TypeOK, CallsOwn, NEW c \in Callers, ~Idle(c)
  PROVE  About(c) \subseteq Tasks
<1>1. call[c].saw \in Seq(Tasks)
  BY IdleAs DEF Call
<1>2. ToSet(call[c].saw) \subseteq Tasks
  BY <1>1 DEF ToSet
<1> QED BY <1>2, CallTask DEF About

(* Races are symmetric.                                                     *)
LEMMA RaceSymmetric == ASSUME NEW a, NEW b PROVE Race(a, b) = Race(b, a)
<1>1. {a, b} = {b, a}
  OBVIOUS
<1> QED BY <1>1 DEF Race

LEMMA RaceNames ==
  ASSUME NEW a, NEW b PROVE Race(a, b) \subseteq {"deletes", "finished", "approval"}
  BY DEF Race

(* The races that matter.                                                   *)
LEMMA RacesNamed ==
  /\ \A a, b \in {"delete", "unlist", "unmap"} : "deletes" \in Race(a, b)
  /\ \A b \in {"delete", "unlist", "edit"} : "finished" \in Race("mark", b)
  /\ "approval" \in Race("finish", "add") /\ "approval" \in Race("finish", "mark")
  /\ "approval" \in Race("approve", "add")
  BY DEF Race

(* Tasks that are approved stay so as long as their statuses do.            *)
LEMMA ApprovedStays ==
  ASSUME NEW s \in Seq(Tasks), NEW f, NEW g, AllApproved(s, f),
         \A t \in Tasks : f[t] = "approved" => g[t] = "approved"
  PROVE  AllApproved(s, g)
  BY DEF AllApproved

(* What the end of a call leaves of the calls.                              *)
LEMMA Ended ==
  ASSUME TypeOK, NEW c \in Callers, End(c)
  PROVE  /\ call' \in [Callers -> Call \cup {NoCall}]
         /\ call'[c] = NoCall /\ call'[c].step = "none"
         /\ \A d \in Callers : d # c => call'[d] = call[d]
  BY DEF TypeOK, End, NoCall

(* So every part about calls only has to be shown for those that go on.     *)
LEMMA RacesAfterEnd ==
  ASSUME TypeOK, TypeOK', RacesMet, NEW c \in Callers, End(c), met \subseteq met'
  PROVE  RacesMet'
<1>1. /\ Idle(c)'
      /\ \A d \in Callers : d # c => call'[d] = call[d]
  BY Ended DEF Idle
<1> QED BY <1>1 DEF RacesMet, Idle
-----------------------------------------------------------------------------
LEMMA InitMcpInv == Init => McpInv
<1> SUFFICES ASSUME Init PROVE McpInv
  OBVIOUS
<1>1. TypeOK
  BY DEF Init, TypeOK
<1>2. \A c \in Callers : Idle(c) /\ call[c].step = "none"
  BY DEF Init, Idle, NoCall
<1>3. \A r \in Requests : Listed(r) = {} /\ ~Exists(r) /\ list[r] = <<>>
  BY DEF Init, Listed, ToSet, Exists
<1>4. CallsOwn /\ RacesMet
  BY <1>2 DEF CallsOwn, RacesMet
<1>5. ListsApart
  BY <1>3 DEF Init, ListsApart
<1>6. ApprovedOnce /\ FinishHolds /\ DeleteHolds /\ ChangeHolds
  BY <1>2 DEF ApprovedOnce, FinishHolds, DeleteHolds, ChangeHolds, ListsKept
<1>7. DoneUnlessRaced
  BY DEF Init, DoneUnlessRaced, DoneMeansApproved, ListsKept
<1>8. TablesAgree
  <2>1. known = {}
    BY DEF Init
  <2> QED BY <1>3, <2>1 DEF TablesAgree, IsInjective, ListsKept
<1> QED BY <1>1, <1>4, <1>5, <1>6, <1>7, <1>8 DEF McpInv
-----------------------------------------------------------------------------
(* The checks: what a handler has found is what the invariant says of the   *)
(* call it begins.                                                          *)
LEMMA BeginKeeps ==
  ASSUME McpInv, NEW c \in Callers, NEW r \in Requests, NEW step \in Steps \ {"unlist", "unmap"},
         NEW tasks \in Seq(Tasks), NEW index \in Nat,
         Begin(c, step, r, tasks, index), Exists(r),
         step \in OneTask => Len(tasks) = 1 /\ tasks[1] \in Listed(r),
         step = "approve" => task[tasks[1]] = "done",
         step = "finish" => AllApproved(list[r], task),
         step = "add" => request[r] # "done",
         step = "delete" => index \in 1 .. Len(list[r]) /\ list[r][index] = tasks[1],
         step \in {"edit", "delete"} => Changeable(tasks[1])
  PROVE  McpInv'
<1> DEFINE n == [step |-> step, request |-> r, tasks |-> tasks, index |-> index, saw |-> <<>>]
<1>1. /\ TypeOK /\ CallsOwn /\ ListsApart /\ RacesMet
      /\ ApprovedOnce /\ FinishHolds /\ DeleteHolds /\ ChangeHolds
      /\ DoneUnlessRaced /\ TablesAgree
  BY DEF McpInv
<1>2. /\ Idle(c) /\ UNCHANGED <<request, list, known, task, edited>>
      /\ call' = [call EXCEPT ![c] = n]
      /\ met' = met \cup UNION {Race(step, call[d].step) :
                                  d \in {x \in Callers : ~Idle(x) /\ call[x].request = r}}
  BY DEF Begin, store
<1>3. /\ n \in Call /\ n.step = step /\ n.request = r /\ n.tasks = tasks /\ n.index = index
      /\ n.saw = <<>>
  BY DEF Call
<1> HIDE DEF n
<1>4. /\ call'[c] = n /\ call[c].step = "none"
      /\ \A d \in Callers : d # c => call'[d] = call[d]
  BY <1>1, <1>2, IdleAs DEF TypeOK
<1>5. met \subseteq met'
  BY <1>2
<1>6. TypeOK'
  <2>1. met' \subseteq {"deletes", "lists", "finished", "approval"}
    <3> SUFFICES ASSUME NEW m \in met' PROVE m \in {"deletes", "lists", "finished", "approval"}
      OBVIOUS
    <3>1. m \in met \/ \E d \in Callers : m \in Race(step, call[d].step)
      BY <1>2
    <3> QED BY <1>1, <3>1, RaceNames DEF TypeOK
  <2>2. call' \in [Callers -> Call \cup {NoCall}]
    BY <1>1, <1>2, <1>3 DEF TypeOK
  <2> QED BY <1>1, <1>2, <2>1, <2>2 DEF TypeOK
<1>7. /\ \A d \in Callers : d # c => (Idle(d)' <=> Idle(d))
      /\ ~Idle(c)'
      /\ \A q \in Requests : Listed(q)' = Listed(q) /\ (Exists(q)' <=> Exists(q))
  <2>1. ~Idle(c)'
    BY <1>3, <1>4 DEF Idle, NoCall, Call
  <2> QED BY <1>2, <1>4, <2>1 DEF Idle, Listed, Exists
<1>8. CallsOwn'
  <2>1. \A d \in Callers : d # c => About(d)' = About(d)
    BY <1>4 DEF About
  <2>2. About(c)' = IF step \in OneTask THEN {tasks[1]} ELSE {}
    BY <1>3, <1>4 DEF About, ToSet
  <2>3. \A t \in About(c)' : t \in Listed(r)
    BY <2>2
  <2>4. \A t \in Listed(r) :
          /\ task[t] # "new"
          /\ \A q \in Requests : t \in Listed(q) => q = r
          /\ \A d \in Callers : ~Idle(d) /\ t \in About(d) => call[d].request = r
    BY <1>1 DEF ListsApart, CallsOwn, Owns
  <2> SUFFICES ASSUME NEW d \in Callers, ~Idle(d)' PROVE Owns(d)'
    BY DEF CallsOwn
  <2>5. ASSUME d = c PROVE Owns(d)'
    <3>1. \A t \in About(c)', e \in Callers : ~Idle(e)' /\ t \in About(e)' => call'[e].request = r
      BY <1>3, <1>4, <1>7, <2>1, <2>3, <2>4
    <3>2. \A t \in About(c)' : task[t] # "new" /\ \A q \in Requests : t \in Listed(q) => q = r
      BY <2>3, <2>4
    <3> QED BY <1>2, <1>3, <1>4, <1>7, <2>5, <3>1, <3>2 DEF Owns, Exists
  <2>6. ASSUME d # c PROVE Owns(d)'
    <3>1. Owns(d) /\ call'[d] = call[d] /\ About(d)' = About(d) /\ ~Idle(d)
      BY <1>1, <1>4, <1>7, <2>1, <2>6 DEF CallsOwn
    <3>2. \A t \in About(d), e \in Callers :
            ~Idle(e)' /\ t \in About(e)' => call'[e].request = call[d].request
      <4> TAKE t \in About(d), e \in Callers
      <4>1. CASE e = c
        BY <1>3, <1>4, <2>3, <2>4, <3>1, <4>1
      <4>2. CASE e # c
        BY <1>4, <1>7, <2>1, <3>1, <4>2 DEF Owns
      <4> QED BY <4>1, <4>2
    <3> QED BY <1>2, <1>7, <3>1, <3>2 DEF Owns, Exists
  <2> QED BY <2>5, <2>6
<1>9. ListsApart'
  BY <1>1, <1>2, <1>7 DEF ListsApart
<1>10. RacesMet'
  <2> SUFFICES ASSUME NEW d \in Callers, NEW e \in Callers, d # e, ~Idle(d)', ~Idle(e)',
                      call'[d].request = call'[e].request
               PROVE  Race(call'[d].step, call'[e].step) \subseteq met'
    BY DEF RacesMet
  <2>1. \A x \in Callers : x # c /\ ~Idle(x) /\ call[x].request = r
          => Race(step, call[x].step) \subseteq met'
    BY <1>2
  <2>2. CASE d = c
    BY <1>3, <1>4, <1>7, <2>1, <2>2
  <2>3. CASE e = c
    BY <1>3, <1>4, <1>7, <2>1, <2>3, RaceSymmetric
  <2>4. CASE d # c /\ e # c
    BY <1>1, <1>4, <1>5, <1>7, <2>4 DEF RacesMet
  <2> QED BY <2>2, <2>3, <2>4
<1>11. ApprovedOnce'
  BY <1>1, <1>2, <1>3, <1>4 DEF ApprovedOnce
<1>12. FinishHolds'
  <2> SUFFICES ASSUME ListsKept, "approval" \notin met, NEW d \in Callers
               PROVE  /\ call'[d].step = "finish" => AllApproved(list[call'[d].request], task)
                      /\ call'[d].step = "add" => request[call'[d].request] # "done"
    BY <1>2, <1>5 DEF FinishHolds, AllApproved, ListsKept
  <2> QED BY <1>1, <1>3, <1>4 DEF FinishHolds, ListsKept
<1>13. DeleteHolds'
  BY <1>1, <1>2, <1>3, <1>4, <1>5, <1>7 DEF DeleteHolds, ListsKept
<1>14. ChangeHolds'
  BY <1>1, <1>2, <1>3, <1>4, <1>5 DEF ChangeHolds, Changeable
<1>15. DoneUnlessRaced'
  BY <1>1, <1>2, <1>5 DEF DoneUnlessRaced, DoneMeansApproved, AllApproved, ListsKept
<1>16. TablesAgree'
  <2> SUFFICES ASSUME ListsKept
               PROVE  /\ \A q \in Requests : IsInjective(list[q]) /\ Listed(q) \subseteq known
                      /\ \A t \in known : \/ \E q \in Requests : t \in Listed(q)
                                          \/ \E d \in Callers : ~Idle(d)' /\ call'[d].step = "unmap"
                                                                /\ t = call'[d].tasks[1]
    BY <1>2, <1>5, <1>7 DEF TablesAgree, IsInjective, ListsKept
  <2>1. \A d \in Callers : call[d].step = "unmap" => call'[d] = call[d] /\ (Idle(d)' <=> Idle(d))
    BY <1>4, <1>7
  <2> QED BY <1>1, <2>1 DEF TablesAgree, ListsKept
<1> QED BY <1>6, <1>8, <1>9, <1>10, <1>11, <1>12, <1>13, <1>14, <1>15, <1>16 DEF McpInv

(* Tasks that are created are in no list, and no call is about them.        *)
LEMMA FreshApart ==
  ASSUME TypeOK, CallsOwn, ListsApart, NEW tasks \in NewTasks
  PROVE  /\ tasks \in Seq(Tasks) /\ IsInjective(tasks) /\ ToSet(tasks) \subseteq Tasks
         /\ ToSet(tasks) = {tasks[i] : i \in 1 .. Len(tasks)}
         /\ \A t \in ToSet(tasks) :
              /\ task[t] = "new" /\ t \notin known
              /\ \A r \in Requests : t \notin Listed(r)
              /\ \A c \in Callers : call[c].step \in OneTask => call[c].tasks[1] # t
              /\ \A c \in Callers : ~Idle(c) => t \notin About(c)
<1>1. PICK m \in 0 .. MaxPlan : tasks \in [1 .. m -> Fresh]
  BY DEF NewTasks, SeqOf
<1>2. m \in Nat /\ DOMAIN tasks = 1 .. m /\ Len(tasks) = m
  BY <1>1, McpAssumption
<1>3. tasks \in Seq(Tasks) /\ \A i \in 1 .. m : tasks[i] \in Fresh
  BY <1>1, <1>2 DEF Fresh
<1>4. \A t \in ToSet(tasks) : t \in Tasks /\ task[t] = "new"
  BY <1>2, <1>3 DEF ToSet, Fresh
<1>5. ToSet(tasks) = {tasks[i] : i \in 1 .. Len(tasks)} /\ IsInjective(tasks)
  BY <1>2 DEF ToSet, NewTasks
<1>6. \A t \in ToSet(tasks) : t \notin known /\ \A r \in Requests : t \notin Listed(r)
  BY <1>4 DEF ListsApart
<1>7. \A c \in Callers : call[c].step \in OneTask => task[call[c].tasks[1]] # "new"
  BY CallTask
<1>8. \A c \in Callers : ~Idle(c) => \A t \in About(c) : task[t] # "new"
  BY DEF CallsOwn, Owns
<1> QED BY <1>3, <1>4, <1>5, <1>6, <1>7, <1>8

(* PlanRequest: a request and its tasks begin together.                     *)
LEMMA PlanKeeps ==
  ASSUME McpInv, NEW r \in Requests, PlanRequest(r)
  PROVE  McpInv'
<1>1. /\ TypeOK /\ CallsOwn /\ ListsApart /\ RacesMet
      /\ ApprovedOnce /\ FinishHolds /\ DeleteHolds /\ ChangeHolds
      /\ DoneUnlessRaced /\ TablesAgree
  BY DEF McpInv
<1>2. PICK new \in NewTasks :
        /\ request' = [request EXCEPT ![r] = "pending"]
        /\ list' = [list EXCEPT ![r] = new]
        /\ Create(new)
  BY DEF PlanRequest
<1>3. ~Exists(r) /\ UNCHANGED <<edited, call, met>>
  BY DEF PlanRequest
<1>4. /\ task' = [t \in Tasks |-> IF t \in ToSet(new) THEN "pending" ELSE task[t]]
      /\ known' = known \cup ToSet(new)
  BY <1>2 DEF Create
<1>5. /\ new \in Seq(Tasks) /\ IsInjective(new) /\ ToSet(new) \subseteq Tasks
      /\ ToSet(new) = {new[i] : i \in 1 .. Len(new)}
      /\ \A t \in ToSet(new) :
           /\ task[t] = "new" /\ t \notin known
           /\ \A q \in Requests : t \notin Listed(q)
           /\ \A c \in Callers : call[c].step \in OneTask => call[c].tasks[1] # t
  BY <1>1, FreshApart
<1>6. TypeOK'
  <2>1. list' \in [Requests -> Seq(Tasks)]
    BY <1>1, <1>2, <1>5 DEF TypeOK
  <2>2. task' \in [Tasks -> TaskStatus \cup {"new"}]
    BY <1>1, <1>4 DEF TypeOK, TaskStatus
  <2>3. request' \in [Requests -> RequestStatus \cup {"none"}]
    BY <1>1, <1>2 DEF TypeOK, RequestStatus
  <2> QED BY <1>1, <1>3, <1>4, <1>5, <2>1, <2>2, <2>3 DEF TypeOK
<1>7. /\ Listed(r)' = ToSet(new) /\ Listed(r) = {} /\ Exists(r)' /\ list'[r] = new
      /\ \A q \in Requests : q # r =>
           /\ list'[q] = list[q] /\ request'[q] = request[q]
           /\ Listed(q)' = Listed(q) /\ (Exists(q)' <=> Exists(q))
  BY <1>1, <1>2, <1>3 DEF TypeOK, Listed, Exists, ListsApart, ToSet
<1>8. \A c \in Callers : /\ Idle(c)' <=> Idle(c)
                         /\ ~Idle(c) => call[c].request \in Requests /\ call[c].request # r
  BY <1>1, <1>3, IdleAs DEF Idle, CallsOwn, Owns, Call
<1>9. \A t \in Tasks : task[t] # "new" => task'[t] = task[t]
  BY <1>4, <1>5
<1>10. ListsApart'
  <2>1. \A q \in Requests : \A t \in Listed(q)' :
          task'[t] # "new" /\ \A x \in Requests : t \in Listed(x)' => x = q
    <3> SUFFICES ASSUME NEW q \in Requests, NEW t \in Listed(q)'
                 PROVE  task'[t] # "new" /\ \A x \in Requests : t \in Listed(x)' => x = q
      OBVIOUS
    <3>1. CASE q = r
      <4>1. t \in ToSet(new)
        BY <1>7, <3>1
      <4>2. task'[t] = "pending"
        BY <1>4, <1>5, <4>1
      <4>3. \A x \in Requests : x # r => t \notin Listed(x)'
        BY <1>5, <1>7, <4>1
      <4> QED BY <3>1, <4>2, <4>3
    <3>2. CASE q # r
      <4>1. t \in Listed(q) /\ t \notin ToSet(new)
        BY <1>5, <1>7, <3>2
      <4>2. t \in Tasks
        BY <1>1, <4>1, ListedAt DEF TypeOK
      <4>3. task'[t] = task[t] /\ task[t] # "new"
        BY <1>1, <1>4, <4>1, <4>2 DEF ListsApart
      <4>4. \A x \in Requests : t \in Listed(x)' => x = q
        BY <1>1, <1>7, <4>1 DEF ListsApart
      <4> QED BY <4>3, <4>4
    <3> QED BY <3>1, <3>2
  <2> QED BY <1>1, <1>2, <1>4, <1>5, <1>7, <2>1 DEF ListsApart, TypeOK
<1>11. CallsOwn'
  <2> SUFFICES ASSUME NEW c \in Callers, ~Idle(c) PROVE Owns(c)'
    BY <1>8 DEF CallsOwn
  <2>1. Owns(c)
    BY <1>1 DEF CallsOwn
  <2>2. \A t \in About(c) : t \in Tasks /\ t \notin ToSet(new)
    BY <1>1, <1>5, AboutTasks, FreshApart
  <2>3. \A d \in Callers : About(d)' = About(d)
    BY <1>3 DEF About
  <2> QED BY <1>3, <1>7, <1>8, <1>9, <2>1, <2>2, <2>3 DEF Owns, Exists
<1>12. RacesMet'
  BY <1>1, <1>3 DEF RacesMet, Idle
<1>13. ApprovedOnce' /\ ChangeHolds'
  <2>1. \A c \in Callers : call[c].step \in OneTask =>
          task'[call[c].tasks[1]] = task[call[c].tasks[1]]
    BY <1>1, <1>9, CallTask
  <2> QED BY <1>1, <1>3, <2>1 DEF ApprovedOnce, ChangeHolds, Changeable, OneTask
<1>14. \A q \in Requests : q # r => (AllApproved(list[q], task) => AllApproved(list'[q], task'))
  <2> SUFFICES ASSUME NEW q \in Requests, q # r, AllApproved(list[q], task)
               PROVE  AllApproved(list'[q], task')
    OBVIOUS
  <2>1. list[q] \in Seq(Tasks) /\ list'[q] = list[q]
    BY <1>1, <1>7 DEF TypeOK
  <2>2. \A t \in Tasks : task[t] = "approved" => task'[t] = "approved"
    BY <1>9
  <2>3. AllApproved(list[q], task')
    BY <2>1, <2>2, ApprovedStays
  <2> QED BY <2>1, <2>3
<1>15. FinishHolds'
  <2> SUFFICES ASSUME ListsKept, "approval" \notin met, NEW c \in Callers, ~Idle(c)
               PROVE  /\ call[c].step = "finish" => AllApproved(list'[call[c].request], task')
                      /\ call[c].step = "add" => request'[call[c].request] # "done"
    BY <1>1, <1>3, IdleAs DEF FinishHolds, AllApproved, ListsKept
  <2> QED BY <1>1, <1>7, <1>8, <1>14 DEF FinishHolds, ListsKept
<1>16. DeleteHolds'
  <2> SUFFICES ASSUME ListsKept, NEW c \in Callers, ~Idle(c)
               PROVE  /\ call[c].step \in {"delete", "unlist"} =>
                           /\ call[c].index \in 1 .. Len(list'[call[c].request])
                           /\ list'[call[c].request][call[c].index] = call[c].tasks[1]
                      /\ call[c].step = "unlist" => call[c].saw = list'[call[c].request]
                      /\ call[c].step = "unmap" => \A q \in Requests : call[c].tasks[1] \notin Listed(q)'
    BY <1>1, <1>3, IdleAs DEF DeleteHolds, ListsKept
  <2>1. call[c].request \in Requests /\ list'[call[c].request] = list[call[c].request]
    BY <1>7, <1>8
  <2>2. ASSUME call[c].step = "unmap", NEW q \in Requests PROVE call[c].tasks[1] \notin Listed(q)'
    <3>1. call[c].tasks[1] \notin ToSet(new)
      BY <1>5, <2>2 DEF OneTask
    <3>2. call[c].tasks[1] \notin Listed(q)
      BY <1>1, <2>2 DEF DeleteHolds, ListsKept
    <3> QED BY <1>7, <3>1, <3>2
  <2> QED BY <1>1, <2>1, <2>2 DEF DeleteHolds, ListsKept
<1>17. DoneUnlessRaced'
  <2> SUFFICES ASSUME ListsKept, "approval" \notin met, NEW q \in Requests, request'[q] = "done"
               PROVE  AllApproved(list'[q], task')
    BY <1>3 DEF DoneUnlessRaced, DoneMeansApproved, AllApproved, ListsKept
  <2>1. q # r
    BY <1>1, <1>2 DEF TypeOK
  <2> QED BY <1>1, <1>7, <1>14, <2>1 DEF DoneUnlessRaced, DoneMeansApproved, ListsKept
<1>18. TablesAgree'
  <2> SUFFICES ASSUME ListsKept
               PROVE  /\ \A q \in Requests : IsInjective(list'[q]) /\ Listed(q)' \subseteq known'
                      /\ \A t \in known' : \/ \E q \in Requests : t \in Listed(q)'
                                           \/ \E c \in Callers : ~Idle(c)' /\ call'[c].step = "unmap"
                                                                 /\ t = call'[c].tasks[1]
    BY <1>3 DEF TablesAgree, IsInjective, ListsKept
  <2>1. \A q \in Requests : IsInjective(list'[q]) /\ Listed(q)' \subseteq known'
    BY <1>1, <1>4, <1>5, <1>7 DEF TablesAgree, ListsKept
  <2>2. ASSUME NEW t \in known'
        PROVE  \/ \E q \in Requests : t \in Listed(q)'
               \/ \E c \in Callers : ~Idle(c)' /\ call'[c].step = "unmap" /\ t = call'[c].tasks[1]
    <3>1. CASE t \in ToSet(new)
      BY <1>7, <3>1
    <3>2. CASE t \in known
      BY <1>1, <1>3, <1>7, <1>8, <3>2 DEF TablesAgree, ListsKept
    <3> QED BY <1>4, <2>2, <3>1, <3>2
  <2> QED BY <2>1, <2>2
<1> QED BY <1>6, <1>10, <1>11, <1>12, <1>13, <1>15, <1>16, <1>17, <1>18 DEF McpInv
-----------------------------------------------------------------------------
(* The second steps.  The calls that go on own what they did, as long as no *)
(* request goes, no task becomes new, and only new tasks are listed.        *)
LEMMA CallsAfterEnd ==
  ASSUME McpInv, NEW c \in Callers, End(c),
         \A t \in Tasks : task[t] # "new" => task'[t] # "new",
         \A r \in Requests : Exists(r) => Exists(r)',
         \A r \in Requests : \A t \in Listed(r)' : t \in Listed(r) \/ task[t] = "new"
  PROVE  CallsOwn'
<1>1. /\ TypeOK /\ CallsOwn /\ ListsApart /\ RacesMet
      /\ ApprovedOnce /\ FinishHolds /\ DeleteHolds /\ ChangeHolds
      /\ DoneUnlessRaced /\ TablesAgree
  BY DEF McpInv
<1>2. /\ call'[c] = NoCall /\ call'[c].step = "none" /\ Idle(c)'
      /\ \A d \in Callers : d # c => call'[d] = call[d] /\ (Idle(d)' <=> Idle(d))
  BY <1>1, Ended DEF Idle
<1> SUFFICES ASSUME NEW d \in Callers, ~Idle(d)' PROVE Owns(d)'
  BY DEF CallsOwn
<1>3. d # c /\ call'[d] = call[d] /\ ~Idle(d) /\ Owns(d)
  BY <1>1, <1>2 DEF CallsOwn
<1>4. call[d].request \in Requests
  BY <1>1, <1>3, IdleAs DEF Call
<1>5. request'[call'[d].request] # "none"
  BY <1>3, <1>4 DEF Owns, Exists
<1>6. \A e \in Callers : ~Idle(e)' => call'[e] = call[e] /\ ~Idle(e) /\ About(e)' = About(e)
  BY <1>2 DEF About
<1>7. ASSUME NEW t \in About(d)
      PROVE  /\ task'[t] # "new"
             /\ \A q \in Requests : t \in Listed(q)' => q = call'[d].request
             /\ \A e \in Callers : ~Idle(e)' /\ t \in About(e)' => call'[e].request = call'[d].request
  <2>1. t \in Tasks /\ task[t] # "new"
    BY <1>1, <1>3, AboutTasks DEF Owns
  <2>2. \A q \in Requests : t \in Listed(q)' => q = call[d].request
    BY <1>3, <2>1 DEF Owns
  <2> QED BY <1>3, <1>6, <2>1, <2>2 DEF Owns
<1>8. About(d)' = About(d)
  BY <1>3 DEF About
<1> QED BY <1>3, <1>5, <1>7, <1>8 DEF Owns, Exists

(* A call that ends without a change of the store: an edit, or an error.    *)
LEMMA EndedKeeps ==
  ASSUME McpInv, NEW c \in Callers, End(c), UNCHANGED <<store, met>>,
         edited' \subseteq Tasks, call[c].step # "unmap"
  PROVE  McpInv'
<1>1. /\ TypeOK /\ CallsOwn /\ ListsApart /\ RacesMet
      /\ ApprovedOnce /\ FinishHolds /\ DeleteHolds /\ ChangeHolds
      /\ DoneUnlessRaced /\ TablesAgree
  BY DEF McpInv
<1>2. /\ call' \in [Callers -> Call \cup {NoCall}] /\ met' = met
      /\ call'[c] = NoCall /\ call'[c].step = "none" /\ Idle(c)'
      /\ \A d \in Callers : d # c => call'[d] = call[d] /\ (Idle(d)' <=> Idle(d))
  BY <1>1, Ended DEF Idle
<1>3. UNCHANGED <<request, list, known, task>>
  BY DEF store
<1>4. /\ \A r \in Requests : Listed(r)' = Listed(r) /\ (Exists(r)' <=> Exists(r))
      /\ \A s, f : AllApproved(s, f)' <=> AllApproved(s, f)
  BY <1>3 DEF Listed, Exists, AllApproved
<1>5. TypeOK'
  BY <1>1, <1>2, <1>3 DEF TypeOK
<1>6. CallsOwn'
  BY <1>3, <1>4, CallsAfterEnd
<1>7. ListsApart'
  BY <1>1, <1>3, <1>4 DEF ListsApart
<1>8. RacesMet'
  BY <1>1, <1>5, RacesAfterEnd
<1>9. ApprovedOnce' /\ ChangeHolds'
  BY <1>1, <1>2, <1>3 DEF ApprovedOnce, ChangeHolds, Changeable
<1>10. FinishHolds'
  BY <1>1, <1>2, <1>3 DEF FinishHolds, AllApproved, ListsKept
<1>11. DeleteHolds'
  BY <1>1, <1>2, <1>3, <1>4 DEF DeleteHolds, ListsKept
<1>12. DoneUnlessRaced'
  BY <1>1, <1>2, <1>3 DEF DoneUnlessRaced, DoneMeansApproved, AllApproved, ListsKept
<1>13. TablesAgree'
  <2>1. \A d \in Callers : ~Idle(d) /\ call[d].step = "unmap" => call'[d] = call[d] /\ ~Idle(d)'
    BY <1>2
  <2> QED BY <1>1, <1>2, <1>3, <1>4, <2>1 DEF TablesAgree, IsInjective, ListsKept
<1> QED BY <1>5, <1>6, <1>7, <1>8, <1>9, <1>10, <1>11, <1>12, <1>13 DEF McpInv

(* A task is marked done, or approved, with its request.                    *)
LEMMA SetTaskKeeps ==
  ASSUME McpInv, NEW c \in Callers, NEW step, NEW s, SetTask(c, step, s),
         \/ step = "mark" /\ s = "done"
         \/ step = "approve" /\ s = "approved"
  PROVE  McpInv'
<1> DEFINE t == call[c].tasks[1]  r0 == call[c].request
<1>1. /\ TypeOK /\ CallsOwn /\ ListsApart /\ RacesMet
      /\ ApprovedOnce /\ FinishHolds /\ DeleteHolds /\ ChangeHolds
      /\ DoneUnlessRaced /\ TablesAgree
  BY DEF McpInv
<1>2. /\ call' \in [Callers -> Call \cup {NoCall}] /\ met' = met
      /\ call'[c] = NoCall /\ call'[c].step = "none" /\ Idle(c)'
      /\ \A d \in Callers : d # c => call'[d] = call[d] /\ (Idle(d)' <=> Idle(d))
  BY <1>1, Ended DEF Idle, SetTask
<1>3. call[c].step = step /\ End(c) /\ UNCHANGED <<edited, met>>
  BY DEF SetTask
<1>4. /\ t \in Tasks /\ r0 \in Requests /\ task[t] # "new" /\ ~Idle(c)
      /\ \A q \in Requests : t \in Listed(q) => q = r0
  <2>1. call[c].step \in OneTask
    BY <1>3 DEF OneTask
  <2>2. ~Idle(c)
    BY <1>1, <2>1, IdleAs DEF OneTask
  <2>3. t \in About(c)
    BY <2>1 DEF About
  <2> QED BY <1>1, <2>1, <2>2, <2>3, CallTask DEF CallsOwn, Owns
<1>5. ASSUME UNCHANGED store PROVE McpInv'
  <2>1. edited' \subseteq Tasks /\ call[c].step # "unmap"
    BY <1>1, <1>3 DEF TypeOK
  <2> QED BY <1>3, <1>5, <2>1, EndedKeeps
<1>6. ASSUME /\ t \in known
             /\ task' = [task EXCEPT ![t] = s]
             /\ request' = [q \in Requests |->
                  IF t \in Listed(q) THEN StatusAfter(q, task') ELSE request[q]]
             /\ UNCHANGED <<list, known>>
      PROVE  McpInv'
  <2> HIDE DEF t, r0
  <2>1. /\ \A q \in Requests : Listed(q)' = Listed(q) /\ list[q] \in Seq(Tasks)
        /\ UNCHANGED <<list, known, edited>> /\ met' = met
    BY <1>1, <1>2, <1>3, <1>6 DEF Listed, TypeOK
  <2>2. \A q \in Requests :
          request'[q] = IF t \in Listed(q) THEN StatusAfter(q, task') ELSE request[q]
    BY <1>6
  <2>3. s \in {"done", "approved"} /\ \A u \in Tasks : task'[u] = IF u = t THEN s ELSE task[u]
    BY <1>1, <1>6 DEF TypeOK
  <2>4. TypeOK'
    <3>1. task' \in [Tasks -> TaskStatus \cup {"new"}]
      BY <1>1, <1>6, <2>3 DEF TypeOK, TaskStatus
    <3>2. request' \in [Requests -> RequestStatus \cup {"none"}]
      BY <1>1, <1>6 DEF TypeOK, RequestStatus, StatusAfter
    <3> QED BY <1>1, <1>2, <2>1, <3>1, <3>2 DEF TypeOK
  <2>5. \A q \in Requests : Exists(q)' <=> Exists(q)
    <3> SUFFICES ASSUME NEW q \in Requests PROVE Exists(q)' <=> Exists(q)
      OBVIOUS
    <3>1. ASSUME t \in Listed(q) PROVE Exists(q) /\ Exists(q)'
      <4>1. Exists(q)
        BY <1>1, <3>1 DEF ListsApart, Listed, ToSet
      <4>2. request'[q] \in {"done", "in_progress"}
        BY <2>2, <3>1 DEF StatusAfter
      <4> QED BY <4>1, <4>2 DEF Exists
    <3> QED BY <2>2, <3>1 DEF Exists
  <2>6. CallsOwn'
    BY <1>3, <2>1, <2>3, <2>5, CallsAfterEnd
  <2>7. ListsApart'
    <3>1. \A q \in Requests : \A u \in Listed(q) :
            task'[u] # "new" /\ \A x \in Requests : u \in Listed(x) => x = q
      BY <1>1, <2>3, ListedAt DEF ListsApart, TypeOK
    <3>2. \A q \in Requests : ~Exists(q)' => list'[q] = <<>>
      BY <1>1, <2>1, <2>5 DEF ListsApart
    <3>3. \A u \in known' : task'[u] # "new"
      BY <1>1, <2>1, <2>3 DEF ListsApart, TypeOK
    <3> QED BY <2>1, <3>1, <3>2, <3>3 DEF ListsApart
  <2>8. RacesMet'
    BY <1>1, <1>3, <2>4, RacesAfterEnd
  <2>9. ApprovedOnce'
    <3> SUFFICES ASSUME NEW d \in Callers, call'[d].step = "approve"
                 PROVE  task'[call'[d].tasks[1]] \in {"done", "approved"}
      BY DEF ApprovedOnce
    <3>1. d # c /\ call'[d] = call[d] /\ call[d].tasks[1] \in Tasks
      BY <1>1, <1>2, CallTask DEF OneTask
    <3> QED BY <1>1, <2>3, <3>1 DEF ApprovedOnce
  <2>10. ChangeHolds'
    <3> SUFFICES ASSUME "finished" \notin met, NEW d \in Callers,
                        call'[d].step \in {"edit", "delete", "unlist"}
                 PROVE  task'[call'[d].tasks[1]] \notin {"done", "approved"}
      BY <2>1 DEF ChangeHolds, Changeable
    <3>1. d # c /\ call'[d] = call[d] /\ call[d].tasks[1] \in Tasks /\ ~Idle(d)
      BY <1>1, <1>2, CallTask, IdleAs DEF OneTask
    <3>2. task[call[d].tasks[1]] \notin {"done", "approved"}
      BY <1>1, <3>1 DEF ChangeHolds, Changeable
    <3>3. call[d].tasks[1] # t
      <4> SUFFICES ASSUME call[d].tasks[1] = t PROVE FALSE
        OBVIOUS
      <4>0. call[d].tasks[1] = t /\ call[d].step \in {"edit", "delete", "unlist"}
        BY <3>1
      <4>1. call[d].request = r0
        <5>1. Owns(c) /\ t \in About(c)
          BY <1>1, <1>3, <1>4 DEF CallsOwn, OneTask, About, t
        <5>2. t \in About(d)
          BY <3>1, <4>0 DEF OneTask, About
        <5> QED BY <3>1, <5>1, <5>2 DEF Owns, r0
      <4>2. CASE step = "mark"
        <5>1. Race("mark", call[d].step) \subseteq met
          BY <1>1, <1>3, <1>4, <3>1, <4>1, <4>2 DEF RacesMet, r0
        <5> QED BY <3>1, <5>1, RacesNamed
      <4>3. CASE step = "approve"
        <5>1. task[t] \in {"done", "approved"}
          BY <1>1, <1>3, <4>3 DEF ApprovedOnce, t
        <5> QED BY <3>2, <5>1
      <4> QED BY <4>2, <4>3
    <3> QED BY <2>3, <3>1, <3>2, <3>3
  <2>11. step = "mark" => \A q \in Requests : t \in Listed(q) => request'[q] = "in_progress"
    <3> SUFFICES ASSUME step = "mark", NEW q \in Requests, t \in Listed(q)
                 PROVE  ~AllApproved(list[q], task')
      BY <2>2 DEF StatusAfter
    <3>1. task'[t] = "done"
      BY <1>4, <2>3
    <3> QED BY <3>1 DEF AllApproved, Listed, ToSet
  <2>12. FinishHolds'
    <3> SUFFICES ASSUME ListsKept, "approval" \notin met, NEW d \in Callers, ~Idle(d)'
                 PROVE  /\ call'[d].step = "finish" => AllApproved(list[call'[d].request], task')
                        /\ call'[d].step = "add" => request'[call'[d].request] # "done"
      BY <2>1, <2>4, IdleNext DEF FinishHolds, AllApproved, ListsKept
    <3>1. d # c /\ call'[d] = call[d] /\ ~Idle(d) /\ call[d].request \in Requests
      BY <1>1, <1>2, IdleAs DEF Call
    <3>2. call[d].request = r0 => Race(step, call[d].step) \subseteq met
      BY <1>1, <1>3, <1>4, <3>1 DEF RacesMet, r0
    <3>3. ASSUME call[d].step = "finish" PROVE AllApproved(list[call[d].request], task')
      <4>1. AllApproved(list[call[d].request], task)
        BY <1>1, <3>1, <3>3 DEF FinishHolds, ListsKept
      <4>2. CASE step = "approve"
        <5>1. \A u \in Tasks : task[u] = "approved" => task'[u] = "approved"
          BY <2>3, <4>2
        <5> QED BY <2>1, <3>1, <4>1, <5>1, ApprovedStays
      <4>3. CASE step = "mark"
        <5>1. call[d].request # r0
          BY <3>2, <3>3, <4>3, RacesNamed, RaceSymmetric
        <5>2. t \notin Listed(call[d].request)
          BY <1>4, <3>1, <5>1
        <5>3. \A i \in DOMAIN list[call[d].request] : list[call[d].request][i] # t
          BY <5>2 DEF Listed, ToSet
        <5>4. \A i \in DOMAIN list[call[d].request] : list[call[d].request][i] \in Tasks
          BY <2>1, <3>1
        <5> QED BY <2>3, <4>1, <5>3, <5>4 DEF AllApproved
      <4> QED BY <4>2, <4>3
    <3>4. ASSUME call[d].step = "add" PROVE request'[call[d].request] # "done"
      <4>1. request[call[d].request] # "done"
        BY <1>1, <3>1, <3>4 DEF FinishHolds, ListsKept
      <4>2. CASE step = "approve"
        <5>1. call[d].request # r0
          BY <3>2, <3>4, <4>2, RacesNamed
        <5> QED BY <1>4, <2>2, <3>1, <4>1, <5>1
      <4>3. CASE step = "mark"
        BY <2>2, <2>11, <3>1, <4>1, <4>3
      <4> QED BY <4>2, <4>3
    <3> QED BY <3>1, <3>3, <3>4
  <2>13. DeleteHolds'
    BY <1>1, <1>2, <2>1 DEF DeleteHolds, ListsKept
  <2>14. DoneUnlessRaced'
    <3> SUFFICES ASSUME ListsKept, "approval" \notin met, NEW q \in Requests, request'[q] = "done"
                 PROVE  AllApproved(list[q], task')
      BY <2>1 DEF DoneUnlessRaced, DoneMeansApproved, AllApproved, ListsKept
    <3>1. CASE t \in Listed(q)
      BY <2>2, <3>1 DEF StatusAfter
    <3>2. CASE t \notin Listed(q)
      <4>1. AllApproved(list[q], task)
        BY <1>1, <2>2, <3>2 DEF DoneUnlessRaced, DoneMeansApproved, ListsKept
      <4>2. \A i \in DOMAIN list[q] : list[q][i] # t /\ list[q][i] \in Tasks
        BY <2>1, <3>2 DEF Listed, ToSet
      <4> QED BY <2>3, <4>1, <4>2 DEF AllApproved
    <3> QED BY <3>1, <3>2
  <2>15. TablesAgree'
    <3>1. \A d \in Callers : ~Idle(d) /\ call[d].step = "unmap" => call'[d] = call[d] /\ ~Idle(d)'
      BY <1>2, <1>3
    <3> QED BY <1>1, <2>1, <3>1 DEF TablesAgree, IsInjective, ListsKept
  <2> QED BY <2>4, <2>6, <2>7, <2>8, <2>9, <2>10, <2>12, <2>13, <2>14, <2>15 DEF McpInv
<1> QED BY <1>3, <1>5, <1>6 DEF SetTask

(* A request is finished with all its tasks.                                *)
LEMMA FinishKeeps ==
  ASSUME McpInv, NEW c \in Callers, FinishRequest(c)
  PROVE  McpInv'
<1> DEFINE r0 == call[c].request
<1>1. /\ TypeOK /\ CallsOwn /\ ListsApart /\ RacesMet
      /\ ApprovedOnce /\ FinishHolds /\ DeleteHolds /\ ChangeHolds
      /\ DoneUnlessRaced /\ TablesAgree
  BY DEF McpInv
<1>2. /\ call' \in [Callers -> Call \cup {NoCall}] /\ met' = met
      /\ call'[c] = NoCall /\ call'[c].step = "none" /\ Idle(c)'
      /\ \A d \in Callers : d # c => call'[d] = call[d] /\ (Idle(d)' <=> Idle(d))
  BY <1>1, Ended DEF Idle, FinishRequest
<1>3. /\ call[c].step = "finish" /\ End(c) /\ UNCHANGED <<list, known, task, edited>>
      /\ request' = [request EXCEPT ![r0] = "done"]
  BY DEF FinishRequest
<1>4. ~Idle(c) /\ r0 \in Requests /\ Exists(r0)
  BY <1>1, <1>3, IdleAs DEF CallsOwn, Owns, Call
<1> HIDE DEF r0
<1>5. TypeOK'
  <2>1. request' \in [Requests -> RequestStatus \cup {"none"}]
    BY <1>1, <1>3 DEF TypeOK, RequestStatus
  <2> QED BY <1>1, <1>2, <1>3, <2>1 DEF TypeOK
<1>6. \A q \in Requests : /\ Listed(q)' = Listed(q) /\ (Exists(q)' <=> Exists(q))
                          /\ request'[q] = IF q = r0 THEN "done" ELSE request[q]
  BY <1>1, <1>3, <1>4 DEF TypeOK, Listed, Exists
<1>7. CallsOwn'
  BY <1>3, <1>6, CallsAfterEnd
<1>8. ListsApart'
  BY <1>1, <1>3, <1>6 DEF ListsApart
<1>9. RacesMet'
  BY <1>1, <1>2, <1>3, <1>5, RacesAfterEnd
<1>10. ApprovedOnce' /\ ChangeHolds' /\ DeleteHolds'
  BY <1>1, <1>2, <1>3, <1>6 DEF ApprovedOnce, ChangeHolds, Changeable, DeleteHolds, ListsKept
<1>11. ListsKept /\ "approval" \notin met => AllApproved(list[r0], task)
  BY <1>1, <1>3 DEF FinishHolds, r0, ListsKept
<1>12. FinishHolds'
  <2> SUFFICES ASSUME ListsKept, "approval" \notin met, NEW d \in Callers, ~Idle(d)'
               PROVE  /\ call'[d].step = "finish" => AllApproved(list[call'[d].request], task)
                      /\ call'[d].step = "add" => request'[call'[d].request] # "done"
    BY <1>2, <1>3, <1>5, IdleNext DEF FinishHolds, AllApproved, ListsKept
  <2>1. d # c /\ call'[d] = call[d] /\ ~Idle(d) /\ call[d].request \in Requests
    BY <1>1, <1>2, IdleAs DEF Call
  <2>2. call[d].request = r0 => Race("finish", call[d].step) \subseteq met
    BY <1>1, <1>3, <1>4, <2>1 DEF RacesMet, r0
  <2>3. call[d].step = "add" => call[d].request # r0
    BY <2>2, RacesNamed
  <2> QED BY <1>1, <1>6, <2>1, <2>3 DEF FinishHolds, ListsKept
<1>13. DoneUnlessRaced'
  <2> SUFFICES ASSUME ListsKept, "approval" \notin met, NEW q \in Requests, request'[q] = "done"
               PROVE  AllApproved(list[q], task)
    BY <1>2, <1>3 DEF DoneUnlessRaced, DoneMeansApproved, AllApproved, ListsKept
  <2> QED BY <1>1, <1>6, <1>11 DEF DoneUnlessRaced, DoneMeansApproved, ListsKept
<1>14. TablesAgree'
  <2>1. \A d \in Callers : ~Idle(d) /\ call[d].step = "unmap" => call'[d] = call[d] /\ ~Idle(d)'
    BY <1>2, <1>3
  <2> QED BY <1>1, <1>2, <1>3, <1>6, <2>1 DEF TablesAgree, IsInjective, ListsKept
<1> QED BY <1>5, <1>7, <1>8, <1>9, <1>10, <1>12, <1>13, <1>14 DEF McpInv

LEMMA Concatenated ==
  ASSUME NEW a \in Seq(Tasks), NEW b \in Seq(Tasks)
  PROVE  /\ a \o b \in Seq(Tasks) /\ Len(a) \in Nat /\ Len(b) \in Nat
         /\ Len(a \o b) = Len(a) + Len(b)
         /\ \A i \in 1 .. Len(a) + Len(b) :
              (a \o b)[i] = IF i <= Len(a) THEN a[i] ELSE b[i - Len(a)]
  OBVIOUS

(* Two lists without a common element, one after the other.                 *)
LEMMA Joined ==
  ASSUME NEW a \in Seq(Tasks), NEW b \in Seq(Tasks)
  PROVE  /\ a \o b \in Seq(Tasks) /\ ToSet(a \o b) = ToSet(a) \cup ToSet(b)
         /\ \A i \in 1 .. Len(a) : i \in 1 .. Len(a \o b) /\ (a \o b)[i] = a[i]
         /\ IsInjective(a) /\ IsInjective(b) /\ ToSet(a) \cap ToSet(b) = {} => IsInjective(a \o b)
<1>1. /\ a \o b \in Seq(Tasks) /\ Len(a) \in Nat /\ Len(b) \in Nat
      /\ Len(a \o b) = Len(a) + Len(b)
      /\ \A i \in 1 .. Len(a) + Len(b) :
           (a \o b)[i] = IF i <= Len(a) THEN a[i] ELSE b[i - Len(a)]
  BY Concatenated
<1>2. /\ ToSet(a) = {a[i] : i \in 1 .. Len(a)} /\ ToSet(b) = {b[i] : i \in 1 .. Len(b)}
      /\ ToSet(a \o b) = {(a \o b)[i] : i \in 1 .. Len(a) + Len(b)}
  BY <1>1 DEF ToSet
<1>3. ToSet(a \o b) \subseteq ToSet(a) \cup ToSet(b)
  BY <1>1, <1>2
<1>4. ToSet(a) \subseteq ToSet(a \o b)
  <2> SUFFICES ASSUME NEW i \in 1 .. Len(a) PROVE a[i] \in ToSet(a \o b)
    BY <1>2
  <2>1. i \in 1 .. Len(a) + Len(b) /\ (a \o b)[i] = a[i]
    BY <1>1
  <2> QED BY <1>2, <2>1
<1>5. ToSet(b) \subseteq ToSet(a \o b)
  <2> SUFFICES ASSUME NEW i \in 1 .. Len(b) PROVE b[i] \in ToSet(a \o b)
    BY <1>2
  <2>1. i + Len(a) \in 1 .. Len(a) + Len(b) /\ (a \o b)[i + Len(a)] = b[i]
    BY <1>1
  <2> QED BY <1>2, <2>1
<1>6. ASSUME IsInjective(a), IsInjective(b), ToSet(a) \cap ToSet(b) = {} PROVE IsInjective(a \o b)
  <2> SUFFICES ASSUME NEW i \in 1 .. Len(a) + Len(b), NEW j \in 1 .. Len(a) + Len(b),
                      (a \o b)[i] = (a \o b)[j]
               PROVE  i = j
    BY <1>1 DEF IsInjective
  <2>1. \A x \in 1 .. Len(a), y \in 1 .. Len(b) : a[x] # b[y]
    BY <1>2, <1>6
  <2>2. CASE i <= Len(a) /\ j <= Len(a)
    BY <1>1, <1>6, <2>2 DEF IsInjective
  <2>3. CASE i > Len(a) /\ j > Len(a)
    <3>1. i - Len(a) \in 1 .. Len(b) /\ j - Len(a) \in 1 .. Len(b)
      BY <1>1, <2>3
    <3>2. b[i - Len(a)] = b[j - Len(a)]
      BY <1>1, <2>3
    <3>3. i - Len(a) = j - Len(a)
      BY <1>1, <1>6, <3>1, <3>2 DEF IsInjective
    <3> QED BY <1>1, <3>3
  <2>4. CASE i <= Len(a) /\ j > Len(a)
    <3>1. j - Len(a) \in 1 .. Len(b) /\ i \in 1 .. Len(a)
      BY <1>1, <2>4
    <3> QED BY <1>1, <2>1, <2>4, <3>1
  <2>5. CASE i > Len(a) /\ j <= Len(a)
    <3>1. i - Len(a) \in 1 .. Len(b) /\ j \in 1 .. Len(a)
      BY <1>1, <2>5
    <3> QED BY <1>1, <2>1, <2>5, <3>1
  <2> QED BY <1>1, <2>2, <2>3, <2>4, <2>5
<1> QED BY <1>1, <1>3, <1>4, <1>5, <1>6

(* Tasks are added to a request that is not done.                           *)
LEMMA AppendKeeps ==
  ASSUME McpInv, NEW c \in Callers, AppendTasks(c)
  PROVE  McpInv'
<1>1. /\ TypeOK /\ CallsOwn /\ ListsApart /\ RacesMet
      /\ ApprovedOnce /\ FinishHolds /\ DeleteHolds /\ ChangeHolds
      /\ DoneUnlessRaced /\ TablesAgree
  BY DEF McpInv
<1>2. /\ call' \in [Callers -> Call \cup {NoCall}] /\ met \subseteq met'
      /\ call'[c] = NoCall /\ call'[c].step = "none" /\ Idle(c)'
      /\ \A d \in Callers : d # c => call'[d] = call[d] /\ (Idle(d)' <=> Idle(d))
  BY <1>1, Ended DEF Idle, AppendTasks
<1>3. call[c].step = "add" /\ End(c) /\ UNCHANGED <<request, edited>>
  BY DEF AppendTasks
<1>4. ~Idle(c) /\ call[c].request \in Requests /\ Exists(call[c].request)
  BY <1>1, <1>3, IdleAs DEF CallsOwn, Owns, Call
<1>5. PICK r0 \in Requests : r0 = call[c].request
  BY <1>4
<1>6. PICK new \in NewTasks : list' = [list EXCEPT ![r0] = @ \o new] /\ Create(new)
  BY <1>5 DEF AppendTasks, Lengthened
<1>7. /\ task' = [t \in Tasks |-> IF t \in ToSet(new) THEN "pending" ELSE task[t]]
      /\ known' = known \cup ToSet(new)
  BY <1>6 DEF Create
<1>8. /\ new \in Seq(Tasks) /\ IsInjective(new) /\ ToSet(new) \subseteq Tasks
      /\ \A t \in ToSet(new) :
           /\ task[t] = "new" /\ t \notin known
           /\ \A q \in Requests : t \notin Listed(q)
           /\ \A d \in Callers : call[d].step \in OneTask => call[d].tasks[1] # t
  BY <1>1, FreshApart
<1>9. /\ list[r0] \in Seq(Tasks) /\ list'[r0] = list[r0] \o new /\ list'[r0] \in Seq(Tasks)
      /\ Listed(r0)' = Listed(r0) \cup ToSet(new)
      /\ \A i \in 1 .. Len(list[r0]) : i \in 1 .. Len(list'[r0]) /\ list'[r0][i] = list[r0][i]
      /\ IsInjective(list[r0]) => IsInjective(list'[r0])
      /\ \A q \in Requests : q # r0 => list'[q] = list[q] /\ Listed(q)' = Listed(q)
  <2>1. list[r0] \in Seq(Tasks) /\ list'[r0] = list[r0] \o new
    BY <1>1, <1>6, <1>4, <1>5 DEF TypeOK
  <2>2. \A q \in Requests : q # r0 => list'[q] = list[q] /\ Listed(q)' = Listed(q)
    BY <1>1, <1>6 DEF TypeOK, Listed
  <2>3. ToSet(list[r0]) \cap ToSet(new) = {}
    BY <1>4, <1>5, <1>8 DEF Listed
  <2> QED BY <1>8, <2>1, <2>2, <2>3, Joined DEF Listed
<1>10. \A t \in Tasks : task[t] # "new" => task'[t] = task[t]
  BY <1>7, <1>8
<1>11. \A q \in Requests : list[q] \in Seq(Tasks) /\ \A t \in Listed(q) : t \in Tasks
  BY <1>1, ListedAt DEF TypeOK
<1>12. TypeOK'
  <2>1. list' \in [Requests -> Seq(Tasks)]
    BY <1>1, <1>6, <1>9 DEF TypeOK
  <2>2. task' \in [Tasks -> TaskStatus \cup {"new"}]
    BY <1>1, <1>7 DEF TypeOK, TaskStatus
  <2>3. met' \subseteq {"deletes", "lists", "finished", "approval"}
    BY <1>1 DEF AppendTasks, TypeOK
  <2> QED BY <1>1, <1>2, <1>3, <1>7, <1>8, <2>1, <2>2, <2>3 DEF TypeOK
<1>13. CallsOwn'
  <2>1. \A q \in Requests : Exists(q) => Exists(q)'
    BY <1>3 DEF Exists
  <2>2. \A q \in Requests : \A t \in Listed(q)' : t \in Listed(q) \/ task[t] = "new"
    BY <1>8, <1>9
  <2>3. \A t \in Tasks : task[t] # "new" => task'[t] # "new"
    BY <1>10
  <2> QED BY <1>3, <2>1, <2>2, <2>3, CallsAfterEnd
<1>14. ListsApart'
  <2>1. ASSUME NEW q \in Requests, NEW t \in Listed(q)'
        PROVE  task'[t] # "new" /\ \A x \in Requests : t \in Listed(x)' => x = q
    <3>1. CASE t \in ToSet(new)
      <4>1. task'[t] = "pending"
        BY <1>7, <1>8, <3>1
      <4>2. \A x \in Requests : t \in Listed(x)' => x = r0
        BY <1>8, <1>9, <3>1
      <4> QED BY <2>1, <4>1, <4>2
    <3>2. CASE t \notin ToSet(new)
      <4>1. \A x \in Requests : t \in Listed(x)' => t \in Listed(x)
        BY <1>9, <3>2
      <4>2. task'[t] = task[t]
        BY <1>7, <1>11, <2>1, <3>2, <4>1
      <4> QED BY <1>1, <2>1, <4>1, <4>2 DEF ListsApart
    <3> QED BY <3>1, <3>2
  <2>2. \A q \in Requests : ~Exists(q)' => list'[q] = <<>>
    BY <1>1, <1>3, <1>4, <1>5, <1>9 DEF ListsApart, Exists
  <2>3. \A t \in known' : task'[t] # "new"
    BY <1>1, <1>7, <1>8 DEF ListsApart, TypeOK
  <2> QED BY <2>1, <2>2, <2>3 DEF ListsApart
<1>15. RacesMet'
  BY <1>1, <1>2, <1>3, <1>12, RacesAfterEnd
<1>16. ApprovedOnce' /\ ChangeHolds'
  <2>1. \A d \in Callers : call'[d].step \in OneTask =>
          call'[d] = call[d] /\ task'[call[d].tasks[1]] = task[call[d].tasks[1]]
    BY <1>1, <1>2, <1>10, CallTask DEF OneTask
  <2> QED BY <1>1, <1>2, <2>1 DEF ApprovedOnce, ChangeHolds, Changeable, OneTask
<1>17. \A q \in Requests : AllApproved(list[q], task) => AllApproved(list[q], task')
  <2> SUFFICES ASSUME NEW q \in Requests, AllApproved(list[q], task)
               PROVE  AllApproved(list[q], task')
    OBVIOUS
  <2>1. \A t \in Tasks : task[t] = "approved" => task'[t] = "approved"
    BY <1>10
  <2> QED BY <1>11, <2>1, ApprovedStays
<1>18. FinishHolds'
  <2> SUFFICES ASSUME ListsKept, "approval" \notin met, NEW d \in Callers, ~Idle(d)'
               PROVE  /\ call'[d].step = "finish" => AllApproved(list'[call'[d].request], task')
                      /\ call'[d].step = "add" => request[call'[d].request] # "done"
    BY <1>2, <1>3, <1>12, IdleNext DEF FinishHolds, AllApproved, ListsKept
  <2>1. d # c /\ call'[d] = call[d] /\ ~Idle(d) /\ call[d].request \in Requests
    BY <1>1, <1>2, IdleAs DEF Call
  <2>2. call[d].request = r0 => Race("add", call[d].step) \subseteq met
    BY <1>1, <1>3, <1>4, <1>5, <2>1, <1>5 DEF RacesMet
  <2>3. call[d].step = "finish" => call[d].request # r0
    BY <2>2, RacesNamed, RaceSymmetric
  <2> QED BY <1>1, <1>9, <1>17, <2>1, <2>3 DEF FinishHolds, ListsKept
<1>19. DeleteHolds'
  <2> SUFFICES ASSUME ListsKept, ListsKept', NEW d \in Callers, ~Idle(d)'
               PROVE  /\ call'[d].step \in {"delete", "unlist"} =>
                           /\ call'[d].index \in 1 .. Len(list'[call'[d].request])
                           /\ list'[call'[d].request][call'[d].index] = call'[d].tasks[1]
                      /\ call'[d].step = "unlist" => call'[d].saw = list'[call'[d].request]
                      /\ call'[d].step = "unmap" => \A q \in Requests : call'[d].tasks[1] \notin Listed(q)'
    BY <1>2, <1>12, IdleNext DEF DeleteHolds, ListsKept
  <2>1. d # c /\ call'[d] = call[d] /\ call[d].request \in Requests
    BY <1>1, <1>2, IdleAs DEF Call
  <2>2. ASSUME call[d].step = "unmap", NEW q \in Requests PROVE call[d].tasks[1] \notin Listed(q)'
    <3>1. call[d].tasks[1] \notin ToSet(new) /\ call[d].tasks[1] \notin Listed(q)
      BY <1>1, <1>8, <2>2 DEF DeleteHolds, OneTask, ListsKept
    <3> QED BY <1>9, <3>1
  <2>3. ASSUME call[d].step \in {"delete", "unlist"}
        PROVE  /\ call[d].index \in 1 .. Len(list'[call[d].request])
               /\ list'[call[d].request][call[d].index] = call[d].tasks[1]
    <3>1. /\ call[d].index \in 1 .. Len(list[call[d].request])
          /\ list[call[d].request][call[d].index] = call[d].tasks[1]
      BY <1>1, <2>3 DEF DeleteHolds, ListsKept
    <3> QED BY <1>9, <2>1, <3>1
  <2>4. ASSUME call[d].step = "unlist" PROVE call[d].saw = list'[call[d].request]
    <3>1. call[d].request # r0
      <4> SUFFICES ASSUME call[d].request = r0 PROVE FALSE
        OBVIOUS
      <4>1. "lists" \in met'
        BY <1>5, <2>4 DEF AppendTasks, Unlisting
      <4> QED BY <4>1 DEF ListsKept
    <3> QED BY <1>1, <1>9, <2>1, <2>4, <3>1 DEF DeleteHolds
  <2> QED BY <2>1, <2>2, <2>3, <2>4
<1>20. DoneUnlessRaced'
  <2> SUFFICES ASSUME ListsKept, "approval" \notin met, NEW q \in Requests, request[q] = "done"
               PROVE  AllApproved(list'[q], task')
    BY <1>2, <1>3 DEF DoneUnlessRaced, DoneMeansApproved, AllApproved, ListsKept
  <2>1. q # r0
    BY <1>1, <1>3, <1>5 DEF FinishHolds, ListsKept
  <2> QED BY <1>1, <1>9, <1>17, <2>1 DEF DoneUnlessRaced, DoneMeansApproved, ListsKept
<1>21. TablesAgree'
  <2> SUFFICES ASSUME ListsKept
               PROVE  /\ \A q \in Requests : IsInjective(list'[q]) /\ Listed(q)' \subseteq known'
                      /\ \A t \in known' : \/ \E q \in Requests : t \in Listed(q)'
                                           \/ \E d \in Callers : ~Idle(d)' /\ call'[d].step = "unmap"
                                                                 /\ t = call'[d].tasks[1]
    BY <1>2 DEF TablesAgree, IsInjective, ListsKept
  <2>1. \A q \in Requests : IsInjective(list'[q]) /\ Listed(q)' \subseteq known'
    BY <1>1, <1>7, <1>9 DEF TablesAgree, ListsKept
  <2>2. \A d \in Callers : ~Idle(d) /\ call[d].step = "unmap" => call'[d] = call[d] /\ ~Idle(d)'
    BY <1>2, <1>3
  <2>3. \A q \in Requests : Listed(q) \subseteq Listed(q)'
    BY <1>9
  <2>4. ASSUME NEW t \in known'
        PROVE  \/ \E q \in Requests : t \in Listed(q)'
               \/ \E d \in Callers : ~Idle(d)' /\ call'[d].step = "unmap" /\ t = call'[d].tasks[1]
    <3>1. CASE t \in ToSet(new)
      BY <1>4, <1>5, <1>9, <3>1
    <3>2. CASE t \in known
      BY <1>1, <2>2, <2>3, <3>2 DEF TablesAgree, ListsKept
    <3> QED BY <1>7, <2>4, <3>1, <3>2
  <2> QED BY <2>1, <2>4
<1> QED BY <1>12, <1>13, <1>14, <1>15, <1>16, <1>18, <1>19, <1>20, <1>21 DEF McpInv

(* A list without the element at an index.                                  *)
LEMMA Removed ==
  ASSUME NEW s \in Seq(Tasks), NEW i \in 1 .. Len(s)
  PROVE  /\ RemoveAt(s, i) \in Seq(Tasks) /\ ToSet(RemoveAt(s, i)) \subseteq ToSet(s)
         /\ \A t \in ToSet(s) : t # s[i] => t \in ToSet(RemoveAt(s, i))
         /\ IsInjective(s) => IsInjective(RemoveAt(s, i)) /\ s[i] \notin ToSet(RemoveAt(s, i))
<1> DEFINE u == RemoveAt(s, i)
<1>1. /\ u \in Seq(Tasks) /\ Len(s) \in Nat /\ Len(u) = Len(s) - 1
      /\ \A j \in 1 .. Len(u) : u[j] = IF j < i THEN s[j] ELSE s[j + 1]
  <2> DEFINE a == SubSeq(s, 1, i - 1)  b == SubSeq(s, i + 1, Len(s))
  <2>1. /\ Len(s) \in Nat /\ a \in Seq(Tasks) /\ Len(a) = i - 1
        /\ \A j \in 1 .. i - 1 : a[j] = s[j]
    OBVIOUS
  <2>2. /\ b \in Seq(Tasks) /\ Len(b) = Len(s) - i
        /\ \A j \in 1 .. Len(s) - i : b[j] = s[j + i]
    OBVIOUS
  <2>3. u = a \o b
    BY DEF RemoveAt
  <2> HIDE DEF a, b, u
  <2>4. /\ u \in Seq(Tasks) /\ Len(u) = Len(a) + Len(b)
        /\ \A j \in 1 .. Len(a) + Len(b) : u[j] = IF j <= Len(a) THEN a[j] ELSE b[j - Len(a)]
    BY <2>1, <2>2, <2>3, Concatenated
  <2>5. Len(u) = Len(s) - 1
    BY <2>1, <2>2, <2>4
  <2>6. ASSUME NEW j \in 1 .. Len(u) PROVE u[j] = IF j < i THEN s[j] ELSE s[j + 1]
    <3>1. CASE j < i
      BY <2>1, <2>2, <2>4, <2>5, <3>1
    <3>2. CASE j >= i
      <4>1. u[j] = b[j - Len(a)] /\ j - Len(a) = j + 1 - i /\ j + 1 - i \in 1 .. Len(s) - i
        BY <2>1, <2>2, <2>4, <2>5, <3>2
      <4>2. b[j + 1 - i] = s[j + 1 - i + i] /\ j + 1 - i + i = j + 1
        BY <2>2, <4>1
      <4> QED BY <3>2, <4>1, <4>2
    <3> QED BY <2>5, <3>1, <3>2
  <2> QED BY <2>1, <2>4, <2>5, <2>6
<1>2. DOMAIN s = 1 .. Len(s) /\ DOMAIN u = 1 .. Len(u)
  BY <1>1
<1>3. ToSet(s) = {s[j] : j \in 1 .. Len(s)} /\ ToSet(u) = {u[j] : j \in 1 .. Len(u)}
  BY <1>2 DEF ToSet
<1> HIDE DEF u
<1>4. ASSUME NEW j \in 1 .. Len(u)
      PROVE  \E k \in 1 .. Len(s) : k # i /\ u[j] = s[k] /\ k = IF j < i THEN j ELSE j + 1
  BY <1>1
<1>5. ASSUME NEW k \in 1 .. Len(s), k # i PROVE \E j \in 1 .. Len(u) : u[j] = s[k]
  <2>1. CASE k < i
    <3>1. k \in 1 .. Len(u) /\ u[k] = s[k]
      BY <1>1, <2>1
    <3> QED BY <3>1
  <2>2. CASE k > i
    <3>1. k - 1 \in 1 .. Len(u) /\ u[k - 1] = s[k]
      BY <1>1, <2>2
    <3> QED BY <3>1
  <2> QED BY <1>5, <2>1, <2>2
<1>6. ToSet(u) \subseteq ToSet(s)
  BY <1>3, <1>4
<1>7. \A t \in ToSet(s) : t # s[i] => t \in ToSet(u)
  BY <1>3, <1>5
<1>8. ASSUME IsInjective(s) PROVE IsInjective(u) /\ s[i] \notin ToSet(u)
  <2>1. \A a, b \in 1 .. Len(s) : s[a] = s[b] => a = b
    BY <1>2, <1>8 DEF IsInjective
  <2>2. \A a, b \in 1 .. Len(u) : u[a] = u[b] => a = b
    BY <1>4, <2>1
  <2>3. IsInjective(u)
    BY <1>2, <2>2 DEF IsInjective
  <2>4. s[i] \notin ToSet(u)
    BY <1>3, <1>4, <2>1
  <2> QED BY <2>3, <2>4
<1> QED BY <1>1, <1>6, <1>7, <1>8 DEF u

(* What a deletion that saw one list and finds another may store is made of *)
(* the two.                                                                 *)
LEMMA UnlistedOver ==
  ASSUME NEW T, NEW saw \in Seq(T), NEW now \in Seq(T), NEW i \in 1 .. Len(saw)
  PROVE  Unlisted(saw, now, i) \subseteq Seq(T)
<1> DEFINE rest == SubSeq(saw, Len(now) + 1, Len(saw))
           array == SubSeq(now \o rest, 1, Len(saw))
           added == SubSeq(now, Len(saw) + 1, Len(now))
<1>1. ASSUME NEW s \in Seq(T), NEW j \in 1 .. Len(s)
      PROVE  RemoveAt(s, j) \in Seq(T)
  <2>1. SubSeq(s, 1, j - 1) \in Seq(T) /\ SubSeq(s, j + 1, Len(s)) \in Seq(T)
    OBVIOUS
  <2> QED BY <2>1 DEF RemoveAt
<1>2. Len(now) \in Nat /\ Len(saw) \in Nat
  OBVIOUS
<1>3. /\ rest \in Seq(T) /\ added \in Seq(T)
      /\ Len(rest) = IF Len(now) < Len(saw) THEN Len(saw) - Len(now) ELSE 0
  BY <1>2
<1> HIDE DEF rest, added
<1>4. now \o rest \in Seq(T) /\ Len(now \o rest) >= Len(saw)
  BY <1>2, <1>3
<1>5. array \in Seq(T) /\ Len(array) = Len(saw)
  BY <1>2, <1>4
<1> HIDE DEF array
<1>6. RemoveAt(array, i) \in Seq(T) /\ RemoveAt(saw, i) \in Seq(T) /\ <<array[Len(saw)]>> \in Seq(T)
  BY <1>1, <1>2, <1>5
<1>7. RemoveAt(array, i) \o <<array[Len(saw)]>> \o added \in Seq(T)
  BY <1>3, <1>6
<1> QED BY <1>6, <1>7 DEF Unlisted, array, rest, added

LEMMA UnlistedTasks ==
  ASSUME NEW saw \in Seq(Tasks), NEW now \in Seq(Tasks), NEW i \in 1 .. Len(saw),
         NEW tasks \in Unlisted(saw, now, i)
  PROVE  tasks \in Seq(Tasks) /\ ToSet(tasks) \subseteq ToSet(saw) \cup ToSet(now)
<1> DEFINE T == ToSet(saw) \cup ToSet(now)
<1>1. saw \in Seq(T) /\ now \in Seq(T)
  BY DEF ToSet
<1>2. tasks \in Seq(Tasks)
  BY UnlistedOver
<1> HIDE DEF T
<1>3. tasks \in Seq(T)
  BY <1>1, UnlistedOver
<1>4. ToSet(tasks) \subseteq T
  BY <1>3 DEF ToSet
<1> QED BY <1>2, <1>4 DEF T

(* If nothing happened to the list, that is the list without the task.      *)
LEMMA UnlistedAlone ==
  ASSUME NEW s \in Seq(Tasks), NEW i \in 1 .. Len(s), NEW tasks \in Unlisted(s, s, i)
  PROVE  tasks = RemoveAt(s, i)
<1>1. SubSeq(s, Len(s) + 1, Len(s)) = <<>>
  OBVIOUS
<1>2. s \o <<>> = s /\ SubSeq(s, 1, Len(s)) = s
  OBVIOUS
<1> QED BY <1>1, <1>2 DEF Unlisted

(* A deletion races with the same calls at each of its steps, or with fewer.*)
LEMMA RaceUnlist ==
  ASSUME NEW a
  PROVE  Race("unlist", a) \subseteq Race("delete", a) /\ Race("unmap", a) \subseteq Race("unlist", a)
  BY DEF Race

(* A deletion has seen the list.                                            *)
LEMMA ReadKeeps ==
  ASSUME McpInv, NEW c \in Callers, ReadList(c)
  PROVE  McpInv'
<1>1. /\ TypeOK /\ CallsOwn /\ ListsApart /\ RacesMet
      /\ ApprovedOnce /\ FinishHolds /\ DeleteHolds /\ ChangeHolds
      /\ DoneUnlessRaced /\ TablesAgree
  BY DEF McpInv
<1>2. call[c].step = "delete" /\ UNCHANGED <<request, list, known, task, edited, met>>
  BY DEF ReadList, store
<1>3. /\ ~Idle(c) /\ call[c] \in Call /\ call[c].request \in Requests
      /\ call[c].index \in Nat /\ call[c].index >= 1 /\ Owns(c)
  <2>1. ~Idle(c) /\ call[c] \in Call
    BY <1>1, <1>2, IdleAs
  <2> QED BY <1>1, <1>2, <2>1 DEF CallsOwn, Owns, Call
<1>4. PICK r0 \in Requests, s \in Seq(Tasks) : r0 = call[c].request /\ s = list[r0]
  BY <1>1, <1>3 DEF TypeOK
<1>5. ASSUME End(c) PROVE McpInv'
  <2>1. UNCHANGED <<store, met>> /\ edited' \subseteq Tasks /\ call[c].step # "unmap"
    BY <1>1, <1>2 DEF store, TypeOK
  <2> QED BY <1>5, <2>1, EndedKeeps
<1>6. ASSUME call[c].index <= Len(s),
             call' = [call EXCEPT ![c].step = "unlist", ![c].saw = s]
      PROVE  McpInv'
  <2>1. /\ call'[c].step = "unlist" /\ call'[c].request = r0 /\ call'[c].tasks = call[c].tasks
        /\ call'[c].index = call[c].index /\ call'[c].saw = s
        /\ call'[c] \in Call /\ call' \in [Callers -> Call \cup {NoCall}]
        /\ \A d \in Callers : d # c => call'[d] = call[d]
    BY <1>1, <1>3, <1>4, <1>6 DEF TypeOK, Call, Steps
  <2>2. TypeOK'
    BY <1>1, <1>2, <2>1 DEF TypeOK
  <2>3. /\ \A d \in Callers : Idle(d)' <=> Idle(d)
        /\ \A q \in Requests : Listed(q)' = Listed(q) /\ (Exists(q)' <=> Exists(q))
        /\ ListsKept' <=> ListsKept
    BY <1>1, <1>2, <2>1, <2>2, IdleAs, IdleNext DEF Listed, Exists, ListsKept
  <2>4. /\ \A d \in Callers : d # c => About(d)' = About(d)
        /\ About(c)' \subseteq About(c) \cup Listed(r0)
    BY <1>2, <1>4, <2>1 DEF About, OneTask, Listed
  <2>5. \A u \in About(c) \cup Listed(r0) :
          /\ task[u] # "new"
          /\ \A q \in Requests : u \in Listed(q) => q = r0
          /\ \A d \in Callers : ~Idle(d) /\ u \in About(d) => call[d].request = r0
    BY <1>1, <1>3, <1>4 DEF ListsApart, CallsOwn, Owns
  <2>6. CallsOwn'
    <3> SUFFICES ASSUME NEW d \in Callers, ~Idle(d) PROVE Owns(d)'
      BY <2>3 DEF CallsOwn
    <3>1. CASE d = c
      <4>1. \A u \in About(c)', e \in Callers : ~Idle(e)' /\ u \in About(e)' => call'[e].request = r0
        BY <2>1, <2>3, <2>4, <2>5
      <4> QED BY <1>2, <1>3, <1>4, <1>6, <2>1, <2>3, <2>4, <2>5, <3>1, <4>1 DEF Owns, Exists, OneTask
    <3>2. CASE d # c
      <4>1. Owns(d) /\ call'[d] = call[d] /\ About(d)' = About(d)
        BY <1>1, <2>1, <2>4, <3>2 DEF CallsOwn
      <4>2. \A u \in About(d), e \in Callers : ~Idle(e)' /\ u \in About(e)'
              => call'[e].request = call[d].request
        <5> TAKE u \in About(d), e \in Callers
        <5>1. CASE e = c
          BY <2>1, <2>4, <2>5, <5>1
        <5>2. CASE e # c
          BY <2>1, <2>3, <2>4, <4>1, <5>2 DEF Owns
        <5> QED BY <5>1, <5>2
      <4> QED BY <1>2, <2>3, <4>1, <4>2 DEF Owns, Exists
    <3> QED BY <3>1, <3>2
  <2>7. ListsApart'
    BY <1>1, <1>2, <2>3 DEF ListsApart
  <2>8. RacesMet'
    <3> SUFFICES ASSUME NEW d \in Callers, NEW e \in Callers, d # e, ~Idle(d), ~Idle(e),
                        call[d].request = call[e].request
                 PROVE  Race(call'[d].step, call'[e].step) \subseteq met
      BY <1>2, <1>4, <2>1, <2>3 DEF RacesMet
    <3>1. Race(call[d].step, call[e].step) \subseteq met
      BY <1>1 DEF RacesMet
    <3>2. CASE d = c
      BY <1>2, <2>1, <3>1, <3>2, RaceUnlist
    <3>3. CASE e = c
      BY <1>2, <2>1, <3>1, <3>3, RaceUnlist, RaceSymmetric
    <3>4. CASE d # c /\ e # c
      BY <2>1, <3>1, <3>4
    <3> QED BY <3>2, <3>3, <3>4
  <2>9. ApprovedOnce' /\ ChangeHolds'
    BY <1>1, <1>2, <2>1 DEF ApprovedOnce, ChangeHolds, Changeable
  <2>10. FinishHolds'
    <3> SUFFICES ASSUME ListsKept, "approval" \notin met, NEW d \in Callers
                 PROVE  /\ call'[d].step = "finish" => AllApproved(list[call'[d].request], task)
                        /\ call'[d].step = "add" => request[call'[d].request] # "done"
      BY <1>2, <2>3 DEF FinishHolds, AllApproved
    <3> QED BY <1>1, <2>1 DEF FinishHolds
  <2>11. DeleteHolds'
    BY <1>1, <1>2, <1>4, <2>1, <2>3 DEF DeleteHolds
  <2>12. DoneUnlessRaced'
    BY <1>1, <1>2, <2>3 DEF DoneUnlessRaced, DoneMeansApproved, AllApproved
  <2>13. TablesAgree'
    <3>1. \A d \in Callers : call[d].step = "unmap" => call'[d] = call[d]
      BY <1>2, <2>1
    <3> QED BY <1>1, <1>2, <2>3, <3>1 DEF TablesAgree, IsInjective
  <2> QED BY <2>2, <2>6, <2>7, <2>8, <2>9, <2>10, <2>11, <2>12, <2>13 DEF McpInv
<1> QED BY <1>4, <1>5, <1>6 DEF ReadList

(* A list is stored by a deletion; without a race, it is the list without   *)
(* the task of the call, and no other deletion looks at it.                 *)
LEMMA UnlistKeeps ==
  ASSUME McpInv, NEW c \in Callers, UnlistTask(c)
  PROVE  McpInv'
<1>1. /\ TypeOK /\ CallsOwn /\ ListsApart /\ RacesMet
      /\ ApprovedOnce /\ FinishHolds /\ DeleteHolds /\ ChangeHolds
      /\ DoneUnlessRaced /\ TablesAgree
  BY DEF McpInv
<1>2. /\ call[c].step = "unlist" /\ UNCHANGED <<request, known, task, edited, met>>
      /\ call' = [call EXCEPT ![c].step = "unmap", ![c].saw = <<>>]
  BY DEF UnlistTask
<1>3. /\ ~Idle(c) /\ call[c] \in Call /\ call[c].request \in Requests
      /\ call[c].index \in Nat /\ call[c].index >= 1 /\ call[c].saw \in Seq(Tasks)
      /\ call[c].index <= Len(call[c].saw) /\ Owns(c)
  <2>1. ~Idle(c) /\ call[c] \in Call
    BY <1>1, <1>2, IdleAs
  <2> QED BY <1>1, <1>2, <2>1 DEF CallsOwn, Owns, Call
<1>4. PICK r0 \in Requests, s \in Seq(Tasks), i \in Nat :
        r0 = call[c].request /\ s = call[c].saw /\ i = call[c].index /\ i \in 1 .. Len(s)
  BY <1>3
<1>5. PICK t \in Tasks : t = call[c].tasks[1]
  BY <1>1, <1>2, CallTask DEF OneTask
<1>6. PICK stored \in Unlisted(s, list[r0], i) : list' = [list EXCEPT ![r0] = stored]
  BY <1>4 DEF UnlistTask
<1>7. /\ list[r0] \in Seq(Tasks) /\ stored \in Seq(Tasks) /\ list'[r0] = stored
      /\ Listed(r0)' \subseteq ToSet(s) \cup Listed(r0)
      /\ \A q \in Requests : q # r0 => list'[q] = list[q] /\ Listed(q)' = Listed(q)
  <2>1. list[r0] \in Seq(Tasks) /\ list'[r0] = stored
    BY <1>1, <1>6 DEF TypeOK
  <2>2. stored \in Seq(Tasks) /\ ToSet(stored) \subseteq ToSet(s) \cup ToSet(list[r0])
    BY <1>4, <1>6, <2>1, UnlistedTasks
  <2> QED BY <1>1, <1>6, <2>1, <2>2 DEF TypeOK, Listed
<1>8. ASSUME ListsKept
      PROVE  /\ s = list[r0] /\ list[r0][i] = t /\ IsInjective(list[r0])
             /\ Listed(r0)' \subseteq Listed(r0)
             /\ \A u \in Listed(r0) : u # t => u \in Listed(r0)'
             /\ IsInjective(list'[r0]) /\ t \notin Listed(r0)'
  <2>1. s = list[r0] /\ list[r0][i] = t /\ IsInjective(list[r0])
    BY <1>1, <1>2, <1>4, <1>5, <1>8 DEF DeleteHolds, TablesAgree
  <2>2. stored = RemoveAt(list[r0], i)
    BY <1>4, <1>6, <2>1, UnlistedAlone
  <2> QED BY <1>4, <1>7, <2>1, <2>2, Removed DEF Listed
<1>9. \A q \in Requests : Listed(q)' \subseteq Listed(q) \cup (IF q = r0 THEN ToSet(s) ELSE {})
  BY <1>7
<1>10. /\ call'[c].step = "unmap" /\ call'[c].request = r0 /\ call'[c].tasks = call[c].tasks
      /\ call'[c].saw = <<>>
      /\ call'[c] \in Call /\ call' \in [Callers -> Call \cup {NoCall}]
      /\ \A d \in Callers : d # c => call'[d] = call[d]
  BY <1>1, <1>2, <1>3, <1>4 DEF TypeOK, Call, Steps
<1>11. TypeOK'
  <2>1. list' \in [Requests -> Seq(Tasks)]
    BY <1>1, <1>6, <1>7 DEF TypeOK
  <2> QED BY <1>1, <1>2, <1>10, <2>1 DEF TypeOK
<1>12. \A d \in Callers : Idle(d)' <=> Idle(d)
  BY <1>1, <1>2, <1>10, <1>11, IdleAs, IdleNext
<1>13. \A d \in Callers : About(d)' \subseteq About(d)
  <2>1. About(c)' \subseteq About(c)
    BY <1>2, <1>10 DEF About, OneTask, ToSet
  <2> QED BY <1>10, <2>1 DEF About
<1>14. \A d \in Callers : call'[d].request = call[d].request /\ call'[d].tasks = call[d].tasks
  BY <1>4, <1>10
<1>15. \A u \in ToSet(s) \cup Listed(r0) :
         /\ task[u] # "new"
         /\ \A q \in Requests : u \in Listed(q) => q = r0
         /\ \A d \in Callers : ~Idle(d) /\ u \in About(d) => call[d].request = r0
  BY <1>1, <1>3, <1>4 DEF ListsApart, CallsOwn, Owns, About
<1>16. CallsOwn'
  <2> SUFFICES ASSUME NEW d \in Callers, ~Idle(d) PROVE Owns(d)'
    BY <1>12 DEF CallsOwn
  <2>1. Owns(d)
    BY <1>1 DEF CallsOwn
  <2>2. ASSUME NEW u \in About(d)'
        PROVE  /\ task[u] # "new"
               /\ \A q \in Requests : u \in Listed(q)' => q = call[d].request
               /\ \A e \in Callers : ~Idle(e) /\ u \in About(e)' => call[e].request = call[d].request
    <3>1. u \in About(d)
      BY <1>13, <2>2
    <3>2. ASSUME NEW q \in Requests, u \in Listed(q)' PROVE q = call[d].request
      <4>1. u \in Listed(q) \/ (q = r0 /\ u \in ToSet(s))
        BY <1>9, <3>2
      <4> QED BY <1>15, <2>1, <3>1, <4>1 DEF Owns
    <3>3. \A e \in Callers : ~Idle(e) /\ u \in About(e)' => call[e].request = call[d].request
      BY <1>13, <2>1, <3>1 DEF Owns
    <3> QED BY <2>1, <3>1, <3>2, <3>3 DEF Owns
  <2>3. CASE d = c
    BY <1>2, <1>3, <1>4, <1>10, <1>12, <1>14, <2>1, <2>2, <2>3 DEF Owns, Exists, OneTask
  <2>4. CASE d # c
    BY <1>2, <1>10, <1>12, <1>14, <2>1, <2>2, <2>4 DEF Owns, Exists
  <2> QED BY <2>3, <2>4
<1>17. ListsApart'
  <2>1. \A q \in Requests : ~Exists(q)' => list'[q] = <<>>
    <3>1. Exists(r0)
      BY <1>1, <1>3, <1>4 DEF CallsOwn, Owns
    <3> QED BY <1>1, <1>2, <1>7, <3>1 DEF ListsApart, Exists
  <2>2. ASSUME NEW q \in Requests, NEW u \in Listed(q)'
        PROVE  task[u] # "new" /\ \A x \in Requests : u \in Listed(x)' => x = q
    <3>1. CASE u \in ToSet(s) \cup Listed(r0)
      BY <1>9, <1>15, <2>2, <3>1
    <3>2. CASE u \notin ToSet(s) \cup Listed(r0)
      BY <1>1, <1>9, <2>2, <3>2 DEF ListsApart
    <3> QED BY <3>1, <3>2
  <2> QED BY <1>1, <1>2, <2>1, <2>2 DEF ListsApart
<1>18. RacesMet'
  <2> SUFFICES ASSUME NEW d \in Callers, NEW e \in Callers, d # e, ~Idle(d), ~Idle(e),
                      call[d].request = call[e].request
               PROVE  Race(call'[d].step, call'[e].step) \subseteq met
    BY <1>2, <1>12, <1>14 DEF RacesMet
  <2>1. Race(call[d].step, call[e].step) \subseteq met
    BY <1>1 DEF RacesMet
  <2>2. CASE d = c
    BY <1>2, <1>10, <2>1, <2>2, RaceUnlist
  <2>3. CASE e = c
    BY <1>2, <1>10, <2>1, <2>3, RaceUnlist, RaceSymmetric
  <2>4. CASE d # c /\ e # c
    BY <1>10, <2>1, <2>4
  <2> QED BY <2>2, <2>3, <2>4
<1>19. ApprovedOnce' /\ ChangeHolds'
  BY <1>1, <1>2, <1>10 DEF ApprovedOnce, ChangeHolds, Changeable
<1>20. ASSUME ListsKept, NEW q \in Requests, AllApproved(list[q], task)
       PROVE  AllApproved(list'[q], task')
  <2>1. Listed(q)' \subseteq Listed(q)
    BY <1>7, <1>8, <1>20
  <2>2. list[q] \in Seq(Tasks) /\ list'[q] \in Seq(Tasks)
    BY <1>1, <1>11 DEF TypeOK
  <2>3. ASSUME NEW k \in DOMAIN list'[q] PROVE task[list'[q][k]] = "approved"
    <3>1. list'[q][k] \in Listed(q)'
      BY <2>2 DEF Listed, ToSet
    <3>2. \E j \in DOMAIN list[q] : list[q][j] = list'[q][k]
      BY <2>1, <2>2, <3>1 DEF Listed, ToSet
    <3> QED BY <1>20, <3>2 DEF AllApproved
  <2> QED BY <1>2, <2>3 DEF AllApproved
<1>21. FinishHolds'
  <2> SUFFICES ASSUME ListsKept, "approval" \notin met, NEW d \in Callers
               PROVE  /\ call'[d].step = "finish" => AllApproved(list'[call'[d].request], task')
                      /\ call'[d].step = "add" => request[call'[d].request] # "done"
    BY <1>2 DEF FinishHolds, AllApproved, ListsKept
  <2>1. CASE d = c
    BY <1>10, <2>1
  <2>2. CASE d # c
    <3>1. call'[d] = call[d]
      BY <1>10, <2>2
    <3>2. call[d].step \in {"finish", "add"} => call[d].request \in Requests
      BY <1>1, IdleAs DEF Call
    <3> QED BY <1>1, <1>20, <3>1, <3>2 DEF FinishHolds
  <2> QED BY <2>1, <2>2
<1>22. ASSUME ListsKept, NEW d \in Callers, d # c, call[d].step \in {"delete", "unlist"}
       PROVE  call[d].request # r0
  <2>1. ~Idle(d)
    BY <1>1, <1>22, IdleAs
  <2>2. call[d].request = r0 => Race("unlist", call[d].step) \subseteq met
    BY <1>1, <1>2, <1>3, <1>4, <1>22, <2>1 DEF RacesMet
  <2> QED BY <1>22, <2>2, RacesNamed DEF ListsKept
<1>23. ASSUME ListsKept, NEW q \in Requests
       PROVE  t \notin Listed(q)'
  <2>1. t \in Listed(q) => q = r0
    BY <1>2, <1>3, <1>4, <1>5 DEF Owns, About, OneTask
  <2> QED BY <1>7, <1>8, <1>23, <2>1
<1>24. DeleteHolds'
  <2> SUFFICES ASSUME ListsKept, NEW d \in Callers
               PROVE  /\ call'[d].step \in {"delete", "unlist"} =>
                           /\ call'[d].index \in 1 .. Len(list'[call'[d].request])
                           /\ list'[call'[d].request][call'[d].index] = call'[d].tasks[1]
                      /\ call'[d].step = "unlist" => call'[d].saw = list'[call'[d].request]
                      /\ call'[d].step = "unmap" => \A q \in Requests : call'[d].tasks[1] \notin Listed(q)'
    BY <1>2 DEF DeleteHolds, ListsKept
  <2>1. CASE d = c
    BY <1>5, <1>10, <1>23, <2>1
  <2>2. CASE d # c
    <3>1. call'[d] = call[d]
      BY <1>10, <2>2
    <3>2. call[d].step \in {"delete", "unlist"} => call[d].request \in Requests /\ call[d].request # r0
      BY <1>1, <1>22, <2>2, CallTask DEF OneTask
    <3>3. \A q \in Requests : Listed(q)' \subseteq Listed(q)
      BY <1>7, <1>8
    <3>4. /\ call[d].step \in {"delete", "unlist"} =>
                /\ call[d].index \in 1 .. Len(list'[call[d].request])
                /\ list'[call[d].request][call[d].index] = call[d].tasks[1]
          /\ call[d].step = "unlist" => call[d].saw = list'[call[d].request]
      BY <1>1, <1>7, <3>2 DEF DeleteHolds
    <3>5. call[d].step = "unmap" => \A q \in Requests : call[d].tasks[1] \notin Listed(q)'
      BY <1>1, <3>3 DEF DeleteHolds
    <3> QED BY <3>1, <3>4, <3>5
  <2> QED BY <2>1, <2>2
<1>25. DoneUnlessRaced'
  <2> SUFFICES ASSUME ListsKept, "approval" \notin met, NEW q \in Requests, request[q] = "done"
               PROVE  AllApproved(list'[q], task')
    BY <1>2 DEF DoneUnlessRaced, DoneMeansApproved, AllApproved, ListsKept
  <2> QED BY <1>1, <1>20 DEF DoneUnlessRaced, DoneMeansApproved, ListsKept
<1>26. TablesAgree'
  <2> SUFFICES ASSUME ListsKept
               PROVE  /\ \A q \in Requests : IsInjective(list'[q]) /\ Listed(q)' \subseteq known
                      /\ \A u \in known : \/ \E q \in Requests : u \in Listed(q)'
                                          \/ \E d \in Callers : ~Idle(d)' /\ call'[d].step = "unmap"
                                                                /\ u = call'[d].tasks[1]
    BY <1>2 DEF TablesAgree, IsInjective, ListsKept
  <2>1. \A q \in Requests : IsInjective(list'[q]) /\ Listed(q)' \subseteq known
    BY <1>1, <1>7, <1>8 DEF TablesAgree
  <2>2. ASSUME NEW u \in known
        PROVE  \/ \E q \in Requests : u \in Listed(q)'
               \/ \E d \in Callers : ~Idle(d)' /\ call'[d].step = "unmap" /\ u = call'[d].tasks[1]
    <3>1. CASE u = t
      BY <1>3, <1>5, <1>10, <1>12, <3>1
    <3>2. ASSUME u # t, NEW q \in Requests, u \in Listed(q) PROVE u \in Listed(q)'
      BY <1>7, <1>8, <3>2
    <3>3. ASSUME NEW d \in Callers, ~Idle(d), call[d].step = "unmap", u = call[d].tasks[1]
          PROVE  ~Idle(d)' /\ call'[d].step = "unmap" /\ u = call'[d].tasks[1]
      BY <1>2, <1>10, <1>12, <3>3
    <3> QED BY <1>1, <3>1, <3>2, <3>3 DEF TablesAgree, ListsKept
  <2> QED BY <2>1, <2>2
<1> QED BY <1>11, <1>16, <1>17, <1>18, <1>19, <1>21, <1>24, <1>25, <1>26 DEF McpInv

(* The task leaves the table after it has left its list.                    *)
LEMMA UnmapKeeps ==
  ASSUME McpInv, NEW c \in Callers, UnmapTask(c)
  PROVE  McpInv'
<1>1. /\ TypeOK /\ CallsOwn /\ ListsApart /\ RacesMet
      /\ ApprovedOnce /\ FinishHolds /\ DeleteHolds /\ ChangeHolds
      /\ DoneUnlessRaced /\ TablesAgree
  BY DEF McpInv
<1>2. /\ call' \in [Callers -> Call \cup {NoCall}] /\ met' = met
      /\ call'[c] = NoCall /\ call'[c].step = "none" /\ Idle(c)'
      /\ \A d \in Callers : d # c => call'[d] = call[d] /\ (Idle(d)' <=> Idle(d))
  BY <1>1, Ended DEF Idle, UnmapTask
<1>3. /\ call[c].step = "unmap" /\ End(c) /\ UNCHANGED <<request, list, task, edited>>
      /\ known' = known \ {call[c].tasks[1]}
  BY DEF UnmapTask, TableWithout
<1>4. PICK t \in Tasks : t = call[c].tasks[1]
  BY <1>1, <1>3, CallTask DEF OneTask
<1>5. \A q \in Requests : Listed(q)' = Listed(q) /\ (Exists(q)' <=> Exists(q))
  BY <1>3 DEF Listed, Exists
<1>6. TypeOK'
  BY <1>1, <1>2, <1>3 DEF TypeOK
<1>7. CallsOwn'
  BY <1>3, <1>5, CallsAfterEnd
<1>8. ListsApart'
  BY <1>1, <1>3, <1>5 DEF ListsApart
<1>9. RacesMet'
  BY <1>1, <1>2, <1>3, <1>6, RacesAfterEnd
<1>10. ApprovedOnce' /\ ChangeHolds' /\ DeleteHolds'
  BY <1>1, <1>2, <1>3, <1>5 DEF ApprovedOnce, ChangeHolds, Changeable, DeleteHolds, ListsKept
<1>11. FinishHolds' /\ DoneUnlessRaced'
  BY <1>1, <1>2, <1>3 DEF FinishHolds, AllApproved, DoneUnlessRaced, DoneMeansApproved, ListsKept
<1>12. TablesAgree'
  <2> SUFFICES ASSUME ListsKept
               PROVE  /\ \A q \in Requests : IsInjective(list[q]) /\ Listed(q) \subseteq known'
                      /\ \A u \in known' : \/ \E q \in Requests : u \in Listed(q)
                                           \/ \E d \in Callers : ~Idle(d)' /\ call'[d].step = "unmap"
                                                                 /\ u = call'[d].tasks[1]
    BY <1>2, <1>3, <1>5 DEF TablesAgree, IsInjective, ListsKept
  <2>1. \A q \in Requests : t \notin Listed(q)
    BY <1>1, <1>3, <1>4 DEF DeleteHolds, ListsKept
  <2>2. \A q \in Requests : IsInjective(list[q]) /\ Listed(q) \subseteq known'
    BY <1>1, <1>3, <1>4, <2>1 DEF TablesAgree, ListsKept
  <2>3. ASSUME NEW d \in Callers, ~Idle(d), call[d].step = "unmap", call[d].tasks[1] # t
        PROVE  ~Idle(d)' /\ call'[d] = call[d]
    BY <1>2, <1>4, <2>3
  <2> QED BY <1>1, <1>3, <1>4, <2>2, <2>3 DEF TablesAgree, ListsKept
<1> QED BY <1>6, <1>7, <1>8, <1>9, <1>10, <1>11, <1>12 DEF McpInv

(* EditTask changes nothing that the invariant is about.                    *)
LEMMA EditKeeps ==
  ASSUME McpInv, NEW c \in Callers, EditTask(c)
  PROVE  McpInv'
<1>1. TypeOK /\ CallsOwn
  BY DEF McpInv
<1>2. /\ call[c].step = "edit" /\ End(c) /\ UNCHANGED <<store, met>>
      /\ edited' = edited \cup ToSet(call[c].tasks)
  BY DEF EditTask
<1>3. call[c] \in Call
  BY <1>1, <1>2, CallTask DEF OneTask
<1>4. call[c].tasks \in Seq(Tasks)
  BY <1>3 DEF Call
<1>5. edited' \subseteq Tasks
  BY <1>1, <1>2, <1>4 DEF TypeOK, ToSet
<1> QED BY <1>2, <1>5, EndedKeeps

(* The handlers begin what their checks allow.                              *)
LEMMA CheckKeeps ==
  ASSUME McpInv, NEW c \in Callers, NEW r \in Requests, Check(c, r)
  PROVE  McpInv'
<1>1. /\ <<>> \in Seq(Tasks) /\ Steps = OneTask \cup {"finish", "add"} /\ TypeOK
      /\ \A t \in Tasks : <<t>> \in Seq(Tasks) /\ Len(<<t>>) = 1 /\ <<t>>[1] = t
  BY DEF Steps, OneTask, McpInv
<1>2. ASSUME ApproveRequestCompletion(c, r) PROVE McpInv'
  BY <1>1, <1>2, BeginKeeps DEF ApproveRequestCompletion, OneTask
<1>3. ASSUME AddTasksToRequest(c, r) PROVE McpInv'
  BY <1>1, <1>3, BeginKeeps DEF AddTasksToRequest, OneTask
<1>4. ASSUME NEW t \in Tasks, MarkTaskDone(c, r, t) PROVE McpInv'
  <2>1. Exists(r) /\ t \in Listed(r) /\ Begin(c, "mark", r, <<t>>, 0)
    BY <1>4 DEF MarkTaskDone, Belongs
  <2> QED BY <1>1, <2>1, BeginKeeps DEF OneTask
<1>5. ASSUME NEW t \in Tasks, ApproveTaskCompletion(c, r, t) PROVE McpInv'
  <2>1. Exists(r) /\ t \in Listed(r) /\ task[t] = "done" /\ Begin(c, "approve", r, <<t>>, 0)
    BY <1>5 DEF ApproveTaskCompletion, Approvable, Belongs
  <2> QED BY <1>1, <2>1, BeginKeeps DEF OneTask
<1>6. ASSUME NEW t \in Tasks, UpdateTask(c, r, t) PROVE McpInv'
  <2>1. Exists(r) /\ t \in Listed(r) /\ Changeable(t) /\ Begin(c, "edit", r, <<t>>, 0)
    BY <1>6 DEF UpdateTask, Belongs
  <2> QED BY <1>1, <2>1, BeginKeeps DEF OneTask
<1>7. ASSUME NEW t \in Tasks, DeleteTask(c, r, t) PROVE McpInv'
  <2>1. PICK i \in DOMAIN list[r] : list[r][i] = t /\ Begin(c, "delete", r, <<t>>, i)
    BY <1>7 DEF DeleteTask
  <2>2. Exists(r) /\ Changeable(t)
    BY <1>7 DEF DeleteTask
  <2>3. i \in 1 .. Len(list[r]) /\ i \in Nat /\ t \in Listed(r)
    BY <1>1, <2>1 DEF TypeOK, Listed, ToSet
  <2> QED BY <1>1, <2>1, <2>2, <2>3, BeginKeeps DEF OneTask
<1> QED BY <1>2, <1>3, <1>4, <1>5, <1>6, <1>7 DEF Check
-----------------------------------------------------------------------------
LEMMA NextMcpInv == McpInv /\ [Next]_vars => McpInv'
<1> SUFFICES ASSUME McpInv, [Next]_vars PROVE McpInv'
  OBVIOUS
<1>1. ASSUME NEW r \in Requests, PlanRequest(r) PROVE McpInv'
  BY <1>1, PlanKeeps
<1>2. ASSUME NEW c \in Callers, NEW r \in Requests, Check(c, r) PROVE McpInv'
  BY <1>2, CheckKeeps
<1>3. ASSUME NEW c \in Callers, Act(c) PROVE McpInv'
  BY <1>3, SetTaskKeeps, FinishKeeps, AppendKeeps, EditKeeps, ReadKeeps, UnlistKeeps, UnmapKeeps DEF Act
<1>4. ASSUME UNCHANGED vars PROVE McpInv'
  <2>1. UNCHANGED <<request, list, known, task, edited, call, met>>
    BY <1>4 DEF vars, store
  <2>2. /\ \A c \in Callers : (Idle(c)' <=> Idle(c)) /\ (Owns(c)' <=> Owns(c))
        /\ \A r \in Requests : Listed(r)' = Listed(r) /\ (Exists(r)' <=> Exists(r))
    BY <2>1 DEF Idle, Owns, About, Listed, Exists
  <2> QED BY <2>1, <2>2 DEF McpInv, TypeOK, CallsOwn, ListsApart, RacesMet, ApprovedOnce,
            FinishHolds, DeleteHolds, ChangeHolds, Changeable, AllApproved,
            DoneUnlessRaced, DoneMeansApproved, TablesAgree, IsInjective, ListsKept
<1> QED BY <1>1, <1>2, <1>3, <1>4 DEF Next
-----------------------------------------------------------------------------
LEMMA McpInvAlways == Spec => []McpInv
  BY InitMcpInv, NextMcpInv, PTL DEF Spec

(* The store of the handlers keeps its types.                               *)
THEOREM McpTyped == Spec => []TypeOK
<1>1. McpInv => TypeOK
  BY DEF McpInv
<1> QED BY <1>1, McpInvAlways, PTL

(* A request is done with all its tasks approved, unless tasks were added,  *)
(* or marked done again, while an approval was under way.                   *)
THEOREM DoneIsApproved == Spec => []DoneUnlessRaced
<1>1. McpInv => DoneUnlessRaced
  BY DEF McpInv
<1> QED BY <1>1, McpInvAlways, PTL

(* The lists of the requests and the table of tasks agree, unless two       *)
(* deletions for one request overlapped.                                    *)
THEOREM TablesTogether == Spec => []TablesAgree
<1>1. McpInv => TablesAgree
  BY DEF McpInv
<1> QED BY <1>1, McpInvAlways, PTL
-----------------------------------------------------------------------------
(* What FinishedKept says of a step.                                        *)
Kept ==
  \A t \in Tasks :
    /\ task'[t] = "approved" => task[t] \in {"done", "approved"}
    /\ task[t] \in {"done", "approved"} /\ ListsKept /\ "finished" \notin met
       => /\ t \in edited' => t \in edited
          /\ \A r \in Requests : t \in Listed(r) => t \in ToSet(list'[r])

(* Where no status changes but to pending, nothing is edited and the lists  *)
(* keep what they have, there is nothing to show.                           *)
LEMMA KeptWhere ==
  ASSUME TypeOK, edited' \subseteq edited,
         \A t \in Tasks : task'[t] = "approved" => task[t] = "approved",
         \A r \in Requests : ToSet(list[r]) \subseteq ToSet(list'[r])
  PROVE  Kept
  BY DEF Kept, Listed

LEMMA NextKept == McpInv /\ [Next]_vars => Kept
<1> SUFFICES ASSUME McpInv, [Next]_vars PROVE Kept
  OBVIOUS
<1>1. TypeOK /\ CallsOwn /\ ListsApart /\ ApprovedOnce /\ DeleteHolds /\ ChangeHolds
  BY DEF McpInv
<1>2. ASSUME UNCHANGED <<list, task, edited>> PROVE Kept
  BY <1>1, <1>2, KeptWhere
<1>3. ASSUME NEW r \in Requests, PlanRequest(r) PROVE Kept
  <2>1. PICK new \in NewTasks : list' = [list EXCEPT ![r] = new] /\ Create(new)
    BY <1>3 DEF PlanRequest
  <2>2. list[r] = <<>> /\ UNCHANGED edited
    BY <1>1, <1>3 DEF PlanRequest, ListsApart
  <2>3. \A q \in Requests : ToSet(list[q]) \subseteq ToSet(list'[q])
    BY <1>1, <2>1, <2>2 DEF TypeOK, ToSet
  <2>4. \A t \in Tasks : task'[t] = "approved" => task[t] = "approved"
    BY <2>1 DEF Create
  <2> QED BY <1>1, <2>2, <2>3, <2>4, KeptWhere
<1>4. ASSUME NEW c \in Callers, NEW step, NEW s, SetTask(c, step, s),
             \/ step = "mark" /\ s = "done"
             \/ step = "approve" /\ s = "approved"
      PROVE  Kept
  <2>1. UNCHANGED <<list, edited>>
    BY <1>4 DEF SetTask, store
  <2>2. ASSUME NEW t \in Tasks, task'[t] = "approved" PROVE task[t] \in {"done", "approved"}
    <3>1. CASE UNCHANGED task
      BY <2>2, <3>1
    <3>2. CASE task' = [task EXCEPT ![call[c].tasks[1]] = s]
      <4>1. CASE t = call[c].tasks[1]
        <5>1. step = "approve" /\ call[c].step = "approve"
          BY <1>1, <1>4, <2>2, <3>2, <4>1 DEF TypeOK, SetTask
        <5> QED BY <1>1, <4>1, <5>1 DEF ApprovedOnce
      <4>2. CASE t # call[c].tasks[1]
        BY <1>1, <2>2, <3>2, <4>2 DEF TypeOK
      <4> QED BY <4>1, <4>2
    <3> QED BY <1>4, <3>1, <3>2 DEF SetTask, store
  <2> QED BY <2>1, <2>2 DEF Kept, Listed
<1>5. ASSUME NEW c \in Callers, AppendTasks(c) PROVE Kept
  <2>1. PICK r \in Requests : r = call[c].request
    <3>1. call[c].step = "add"
      BY <1>5 DEF AppendTasks
    <3> QED BY <1>1, <3>1, IdleAs DEF Call
  <2>2. PICK new \in NewTasks : list' = [list EXCEPT ![r] = @ \o new] /\ Create(new)
    BY <1>5, <2>1 DEF AppendTasks, Lengthened
  <2>3. new \in Seq(Tasks) /\ list[r] \in Seq(Tasks) /\ list'[r] = list[r] \o new
    BY <1>1, <2>2, FreshApart DEF TypeOK
  <2>4. \A q \in Requests : ToSet(list[q]) \subseteq ToSet(list'[q])
    <3> TAKE q \in Requests
    <3>1. CASE q = r
      <4>1. ToSet(list[r] \o new) = ToSet(list[r]) \cup ToSet(new)
        BY <2>3, Joined
      <4> QED BY <2>3, <3>1, <4>1
    <3>2. CASE q # r
      BY <1>1, <2>2, <3>2 DEF TypeOK
    <3> QED BY <3>1, <3>2
  <2>5. \A t \in Tasks : task'[t] = "approved" => task[t] = "approved"
    BY <2>2 DEF Create
  <2>6. UNCHANGED edited
    BY <1>5 DEF AppendTasks
  <2> QED BY <1>1, <2>4, <2>5, <2>6, KeptWhere
<1>6. ASSUME NEW c \in Callers, EditTask(c) PROVE Kept
  <2>1. /\ call[c].step = "edit" /\ UNCHANGED <<list, task>>
        /\ edited' = edited \cup ToSet(call[c].tasks)
    BY <1>6 DEF EditTask, store
  <2>2. ~Idle(c) /\ call[c] \in Call /\ Len(call[c].tasks) = 1
    <3>1. ~Idle(c) /\ call[c] \in Call
      BY <1>1, <2>1, IdleAs
    <3> QED BY <1>1, <2>1, <3>1 DEF CallsOwn, Owns, OneTask
  <2>3. \A t \in ToSet(call[c].tasks) : t = call[c].tasks[1]
    BY <2>2 DEF Call, ToSet
  <2>4. "finished" \notin met => \A t \in ToSet(call[c].tasks) : task[t] \notin {"done", "approved"}
    BY <1>1, <2>1, <2>3 DEF ChangeHolds, Changeable
  <2> QED BY <2>1, <2>4 DEF Kept, Listed
<1>7. ASSUME NEW c \in Callers, UnlistTask(c) PROVE Kept
  <2>1. call[c].step = "unlist" /\ UNCHANGED <<task, edited>>
    BY <1>7 DEF UnlistTask
  <2>2. PICK r \in Requests : r = call[c].request
    BY <1>1, <2>1, CallTask DEF OneTask
  <2>3. PICK tasks \in Unlisted(call[c].saw, list[r], call[c].index) :
          list' = [list EXCEPT ![r] = tasks]
    BY <1>7, <2>2 DEF UnlistTask
  <2> SUFFICES ASSUME ListsKept, "finished" \notin met, NEW t \in Tasks,
                      task[t] \in {"done", "approved"}, NEW q \in Requests, t \in ToSet(list[q])
               PROVE  t \in ToSet(list'[q])
    BY <2>1 DEF Kept, Listed
  <2>4. t # call[c].tasks[1]
    BY <1>1, <2>1 DEF ChangeHolds, Changeable
  <2>5. /\ call[c].index \in 1 .. Len(list[r]) /\ list[r][call[c].index] = call[c].tasks[1]
        /\ call[c].saw = list[r] /\ list[r] \in Seq(Tasks)
    BY <1>1, <2>1, <2>2 DEF DeleteHolds, TypeOK
  <2>6. list'[r] = RemoveAt(list[r], call[c].index)
    BY <1>1, <2>3, <2>5, UnlistedAlone DEF TypeOK
  <2>7. CASE q = r
    BY <2>4, <2>5, <2>6, <2>7, Removed
  <2>8. CASE q # r
    BY <1>1, <2>3, <2>8 DEF TypeOK
  <2> QED BY <2>7, <2>8
<1>8. ASSUME NEW c \in Callers, FinishRequest(c) \/ UnmapTask(c) \/ ReadList(c) PROVE Kept
  BY <1>2, <1>8 DEF FinishRequest, UnmapTask, ReadList, store
<1>9. ASSUME NEW c \in Callers, NEW r \in Requests, Check(c, r) PROVE Kept
  <2>1. UNCHANGED <<list, task, edited>>
    BY <1>9 DEF Check, ApproveRequestCompletion, AddTasksToRequest, MarkTaskDone,
                ApproveTaskCompletion, UpdateTask, DeleteTask, Begin, store
  <2> QED BY <1>2, <2>1
<1>10. ASSUME UNCHANGED vars PROVE Kept
  BY <1>2, <1>10 DEF vars, store
<1> QED BY <1>3, <1>4, <1>5, <1>6, <1>7, <1>8, <1>9, <1>10 DEF Next, Act

(* A task is approved only once it was marked done, and a finished one is   *)
(* neither changed nor taken from its request, but for the named races.     *)
THEOREM FinishedStays == Spec => FinishedKept
<1>1. McpInv /\ [Next]_vars => [Kept]_vars
  BY NextKept
<1>2. Spec => [][Kept]_vars
  BY <1>1, McpInvAlways, PTL DEF Spec
<1> QED BY <1>2 DEF FinishedKept, Kept
-----------------------------------------------------------------------------
(* No request has two calls under way: what a lock per request, held from   *)
(* the check of a handler to its act, would give.                           *)
OneCallPerRequest ==
  \A c, d \in Callers :
    c # d /\ ~Idle(c) /\ ~Idle(d) => call[c].request # call[d].request

(* A call that is alone with its request meets no race.                     *)
LEMMA NoRace ==
  ASSUME TypeOK, met = {}, OneCallPerRequest, OneCallPerRequest', [Next]_vars PROVE met' = {}
<1>1. ASSUME NEW c \in Callers, NEW step \in Steps, NEW r, NEW tasks, NEW index,
             Begin(c, step, r, tasks, index)
      PROVE  met' = {}
  <2>1. Idle(c) /\ call' = [call EXCEPT ![c] =
          [step |-> step, request |-> r, tasks |-> tasks, index |-> index, saw |-> <<>>]]
    BY <1>1 DEF Begin
  <2>2. ~Idle(c)' /\ call'[c].request = r
    <3>1. call'[c] = [step |-> step, request |-> r, tasks |-> tasks, index |-> index, saw |-> <<>>]
      BY <2>1 DEF TypeOK
    <3>2. call'[c].step # "none" /\ call'[c].request = r
      BY <3>1 DEF Steps
    <3> QED BY <3>2 DEF Idle, NoCall
  <2>3. ASSUME NEW d \in Callers, ~Idle(d) PROVE call[d].request # r
    <3>1. d # c /\ call'[d] = call[d]
      BY <2>1, <2>3 DEF TypeOK
    <3> QED BY <2>2, <2>3, <3>1 DEF OneCallPerRequest, Idle
  <2>4. met' = met \cup UNION {Race(step, call[d].step) :
          d \in {x \in Callers : ~Idle(x) /\ call[x].request = r}}
    BY <1>1 DEF Begin
  <2>5. {x \in Callers : ~Idle(x) /\ call[x].request = r} = {}
    BY <2>3
  <2> QED BY <2>4, <2>5
<1>2. ASSUME NEW c \in Callers, NEW r \in Requests, Check(c, r) PROVE met' = {}
  BY <1>1, <1>2 DEF Check, ApproveRequestCompletion, AddTasksToRequest, MarkTaskDone,
                    ApproveTaskCompletion, UpdateTask, DeleteTask, Steps
<1>3. ASSUME NEW c \in Callers, AppendTasks(c) PROVE met' = {}
  <2>1. call[c].step = "add" /\ ~Idle(c)
    BY <1>3, IdleAs DEF AppendTasks
  <2>2. \A d \in Callers : call[d].step = "unlist" => d # c /\ ~Idle(d)
    BY <2>1, IdleAs
  <2>3. ~Unlisting(call[c].request)
    BY <2>1, <2>2 DEF OneCallPerRequest, Unlisting
  <2> QED BY <1>3, <2>3 DEF AppendTasks
<1>4. ASSUME NEW c \in Callers, Act(c), ~AppendTasks(c) PROVE met' = {}
  BY <1>4 DEF Act, SetTask, FinishRequest, EditTask, ReadList, UnlistTask, UnmapTask
<1> QED BY <1>2, <1>3, <1>4 DEF Next, PlanRequest, vars

(* A lock per request would do: where no two calls for one request overlap, *)
(* no race is met, a request that is done has only approved tasks, as the   *)
(* code's own texts have it, and what the other theorems except does not    *)
(* arise.                                                                   *)
THEOREM RequestLockSuffices == Spec /\ []OneCallPerRequest => [](met = {} /\ DoneMeansApproved)
<1>1. Init => met = {}
  BY DEF Init
<1>2. met = {} /\ DoneUnlessRaced => DoneMeansApproved
  BY DEF DoneUnlessRaced, ListsKept
<1>3. TypeOK /\ met = {} /\ OneCallPerRequest /\ OneCallPerRequest' /\ [Next]_vars => (met = {})'
  BY NoRace
<1> QED BY <1>1, <1>2, <1>3, McpTyped, DoneIsApproved, PTL DEF Spec
================================================================================
