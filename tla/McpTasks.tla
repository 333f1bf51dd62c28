------------------------------- MODULE McpTasks -------------------------------
(***************************************************************************)
(* The task workflow of pkg/mcp: the handlers of controller.go over the     *)
(* RequestStore of models.go.  Every HTTP call runs in a goroutine of its   *)
(* own.  The store locks each of its methods, but a handler reads what it    *)
(* checks (request.Tasks, the statuses) through pointers, without the lock, *)
(* and acts on it in a later step; DeleteTask and UpdateTask write so too,  *)
(* and DeleteTask reads the list before it stores it anew.  A call that     *)
(* returns an error has changed nothing and is left out.                    *)
(***************************************************************************)
EXTENDS Integers, FiniteSets, SequencesExt

CONSTANTS
  Requests, Tasks,   \* the identifiers uuid may give
  Callers,           \* goroutines that run a handler
  MaxPlan            \* bound: the tasks a call may bring

ASSUME McpAssumption ==
  /\ IsFiniteSet(Requests) /\ IsFiniteSet(Tasks) /\ IsFiniteSet(Callers)
  /\ MaxPlan \in Nat \ {0}

VARIABLES
  request,   \* Request.Status, "none" before it is planned
  list,      \* Request.Tasks
  known,     \* the keys of RequestStore.tasks
  task,      \* Task.Status, "new" before the task exists
  edited,    \* the tasks whose title or description was changed
  call,      \* what each caller is about to do
  met        \* history: the races that have had an occasion

store == <<request, list, known, task>>
vars  == <<store, edited, call, met>>
-----------------------------------------------------------------------------
RequestStatus == {"pending", "in_progress", "done"}
TaskStatus    == {"pending", "done", "approved"}

(* A call that has passed its checks, and the step that is next.  After     *)
(* "delete" a DeleteTask has "unlist" and "unmap", and with "unlist" the    *)
(* list it saw.                                                             *)
Steps  == {"mark", "approve", "finish", "add", "edit", "delete", "unlist", "unmap"}
Call   == [step : Steps, request : Requests, tasks : Seq(Tasks), index : Nat, saw : Seq(Tasks)]
NoCall == [step |-> "none"]
Idle(c) == call[c] = NoCall

Exists(r) == request[r] # "none"
Listed(r) == ToSet(list[r])
Fresh == {t \in Tasks : task[t] = "new"}

(* Tasks that a call creates, in their order.                               *)
NewTasks == {s \in SeqOf(Fresh, MaxPlan) : s # <<>> /\ IsInjective(s)}

Init ==
  /\ request = [r \in Requests |-> "none"] /\ list = [r \in Requests |-> <<>>]
  /\ known = {} /\ task = [t \in Tasks |-> "new"] /\ edited = {}
  /\ call = [c \in Callers |-> NoCall]
  /\ met = {}

(* What goes wrong when two calls for one request overlap.                  *)
Race(a, b) ==
  CASE {a, b} \subseteq {"delete", "unlist", "unmap"} -> {"deletes"}
    [] "mark" \in {a, b} /\ {a, b} \cap {"delete", "unlist", "edit"} # {} -> {"finished"}
    [] {a, b} \in {{"finish", "add"}, {"finish", "mark"}, {"approve", "add"}} -> {"approval"}
    [] OTHER -> {}

(* Caller c has passed the checks of a handler.                             *)
Begin(c, step, r, tasks, index) ==
  /\ Idle(c)
  /\ call' = [call EXCEPT ![c] =
       [step |-> step, request |-> r, tasks |-> tasks, index |-> index, saw |-> <<>>]]
  /\ met' = met \cup UNION {Race(step, call[d].step) :
       d \in {x \in Callers : ~Idle(x) /\ call[x].request = r}}
  /\ UNCHANGED <<store, edited>>

End(c) == call' = [call EXCEPT ![c] = NoCall]
-----------------------------------------------------------------------------
(* The checks of the handlers. *)

(* A new task is in its request and in the task table.                      *)
Create(tasks) ==
  /\ task' = [t \in Tasks |-> IF t \in ToSet(tasks) THEN "pending" ELSE task[t]]
  /\ known' = known \cup ToSet(tasks)

PlanRequest(r) ==
  /\ ~Exists(r)
  /\ \E tasks \in NewTasks :
       /\ request' = [request EXCEPT ![r] = "pending"]
       /\ list' = [list EXCEPT ![r] = tasks]
       /\ Create(tasks)
  /\ UNCHANGED <<edited, call, met>>

Belongs(r, t) == Exists(r) /\ t \in known /\ t \in Listed(r)

(* Mutation: a finished task may be changed.                                *)
Approvable(t) == task[t] = "done"
ChangeableAny(t) == TRUE
Changeable(t) == task[t] \notin {"done", "approved"}

MarkTaskDone(c, r, t) == Belongs(r, t) /\ Begin(c, "mark", r, <<t>>, 0)

ApproveTaskCompletion(c, r, t) ==
  Belongs(r, t) /\ Approvable(t) /\ Begin(c, "approve", r, <<t>>, 0)

AllApproved(tasks, status) == \A i \in DOMAIN tasks : status[tasks[i]] = "approved"

ApproveRequestCompletion(c, r) ==
  Exists(r) /\ AllApproved(list[r], task) /\ Begin(c, "finish", r, <<>>, 0)

AddTasksToRequest(c, r) ==
  /\ Exists(r) /\ request[r] # "done"
  /\ Begin(c, "add", r, <<>>, 0)

UpdateTask(c, r, t) ==
  Belongs(r, t) /\ Changeable(t) /\ Begin(c, "edit", r, <<t>>, 0)

(* DeleteTask keeps the index at which it found the task; it does not ask   *)
(* the task table.                                                          *)
DeleteTask(c, r, t) ==
  /\ Exists(r) /\ Changeable(t)
  /\ \E i \in DOMAIN list[r] : /\ list[r][i] = t /\ \A j \in 1 .. i - 1 : list[r][j] # t
                               /\ Begin(c, "delete", r, <<t>>, i)
-----------------------------------------------------------------------------
(* Their second steps. *)

(* The request of an updated task.  Mutation: it is finished, but never     *)
(* opened again.                                                            *)
StatusAfterNoReopen(r, status) ==
  IF AllApproved(list[r], status) THEN "done" ELSE request[r]
StatusAfter(r, status) ==
  IF AllApproved(list[r], status) THEN "done" ELSE "in_progress"

(* RequestStore.UpdateTask; a task that is gone is an error.                *)
SetTask(c, step, s) ==
  /\ call[c].step = step
  /\ LET t == call[c].tasks[1]
     IN  \/ t \notin known /\ UNCHANGED store
         \/ /\ t \in known
            /\ task' = [task EXCEPT ![t] = s]
            /\ request' = [r \in Requests |->
                 IF t \in Listed(r) THEN StatusAfter(r, task') ELSE request[r]]
            /\ UNCHANGED <<list, known>>
  /\ End(c) /\ UNCHANGED <<edited, met>>

(* RequestStore.UpdateRequestStatus.                                        *)
FinishRequest(c) ==
  /\ call[c].step = "finish"
  /\ request' = [request EXCEPT ![call[c].request] = "done"]
  /\ End(c) /\ UNCHANGED <<list, known, task, edited, met>>

(* Mutation: the new tasks are appended to a slice made with their number,  *)
(* so that as many nil tasks come first.                                    *)
LengthenedNil(s, tasks) == s \o [i \in DOMAIN tasks |-> "nil"] \o tasks
Lengthened(s, tasks) == s \o tasks

(* A deletion for r that has read the list and not yet stored it.           *)
Unlisting(r) == \E d \in Callers : call[d].step = "unlist" /\ call[d].request = r

(* RequestStore.AddTasksToRequest, with the tasks the handler has created.  *)
AppendTasks(c) ==
  /\ call[c].step = "add"
  /\ \E tasks \in NewTasks :
       /\ list' = [list EXCEPT ![call[c].request] = Lengthened(@, tasks)]
       /\ Create(tasks)
  /\ met' = met \cup (IF Unlisting(call[c].request) THEN {"lists"} ELSE {})
  /\ End(c) /\ UNCHANGED <<request, edited>>

EditTask(c) ==
  /\ call[c].step = "edit"
  /\ edited' = edited \cup ToSet(call[c].tasks)
  /\ End(c) /\ UNCHANGED <<store, met>>

(* The append that leaves out the index reads the list; it panics, and ends *)
(* the call, if the list has become shorter than the index.                 *)
ReadList(c) ==
  /\ call[c].step = "delete"
  /\ LET now == list[call[c].request]
     IN  \/ call[c].index > Len(now) /\ End(c)
         \/ /\ call[c].index <= Len(now)
            /\ call' = [call EXCEPT ![c].step = "unlist", ![c].saw = now]
  /\ UNCHANGED <<store, edited, met>>

(* Without its element i, the array that held the list when it was read: by *)
(* now another deletion may have moved its elements.  If tasks were added   *)
(* meanwhile, the list may have left that array, and the addition may have  *)
(* read the list before the deletion stored it, and store it after.         *)
Unlisted(saw, now, i) ==
  LET array == SubSeq(now \o SubSeq(saw, Len(now) + 1, Len(saw)), 1, Len(saw))
      added == SubSeq(now, Len(saw) + 1, Len(now))
  IN  {RemoveAt(array, i)} \cup
      IF ToSet(now) \subseteq ToSet(saw) THEN {}
      ELSE {RemoveAt(saw, i), now, RemoveAt(array, i) \o <<array[Len(saw)]>> \o added}

UnlistTask(c) ==
  /\ call[c].step = "unlist"
  /\ \E tasks \in Unlisted(call[c].saw, list[call[c].request], call[c].index) :
       list' = [list EXCEPT ![call[c].request] = tasks]
  /\ call' = [call EXCEPT ![c].step = "unmap", ![c].saw = <<>>]
  /\ UNCHANGED <<request, known, task, edited, met>>

(* Mutation: the task stays in the table.                                   *)
TableWithAll(t) == known
TableWithout(t) == known \ {t}

UnmapTask(c) ==
  /\ call[c].step = "unmap"
  /\ known' = TableWithout(call[c].tasks[1])
  /\ End(c) /\ UNCHANGED <<request, list, task, edited, met>>
-----------------------------------------------------------------------------
Check(c, r) ==
  \/ ApproveRequestCompletion(c, r) \/ AddTasksToRequest(c, r)
  \/ \E t \in Tasks : \/ MarkTaskDone(c, r, t) \/ ApproveTaskCompletion(c, r, t)
                      \/ UpdateTask(c, r, t) \/ DeleteTask(c, r, t)

Act(c) ==
  \/ SetTask(c, "mark", "done") \/ SetTask(c, "approve", "approved")
  \/ FinishRequest(c) \/ AppendTasks(c) \/ EditTask(c)
  \/ ReadList(c) \/ UnlistTask(c) \/ UnmapTask(c)

Next ==
  \/ \E r \in Requests : PlanRequest(r)
  \/ \E c \in Callers : Act(c) \/ \E r \in Requests : Check(c, r)

Spec == Init /\ [][Next]_vars
-----------------------------------------------------------------------------
(* Properties. *)

TypeOK ==
  /\ request \in [Requests -> RequestStatus \cup {"none"}]
  /\ list \in [Requests -> Seq(Tasks)]
  /\ task \in [Tasks -> TaskStatus \cup {"new"}]
  /\ known \subseteq Tasks /\ edited \subseteq Tasks
  /\ call \in [Callers -> Call \cup {NoCall}]
  /\ met \subseteq {"deletes", "lists", "finished", "approval"}

(* A request that is done has only approved tasks: "done: all tasks         *)
(* approved".                                                               *)
DoneMeansApproved ==
  \A r \in Requests : request[r] = "done" => AllApproved(list[r], task)

(* No two deletions for one request overlapped, and no task was added       *)
(* between the read and the store of a list by a deletion.                  *)
ListsKept == met \cap {"deletes", "lists"} = {}

(* It does, unless lists were lost or restored so, or tasks were added, or  *)
(* one marked done again, while the approval that finished the request was  *)
(* between its check and its update.                                        *)
DoneUnlessRaced == ListsKept /\ "approval" \notin met => DoneMeansApproved

(* Unless a deletion met another one, or an addition, for its request, each *)
(* task of a request is there once and is in the task table, and a task of  *)
(* the table that no request lists is being deleted.                        *)
TablesAgree ==
  ListsKept =>
    /\ \A r \in Requests : IsInjective(list[r]) /\ Listed(r) \subseteq known
    /\ \A t \in known : \/ \E r \in Requests : t \in Listed(r)
                        \/ \E c \in Callers : ~Idle(c) /\ call[c].step = "unmap"
                                              /\ t = call[c].tasks[1]

(* A task is approved only once it was marked done, whatever interleaves    *)
(* with the approval, whose check is not repeated under the lock; and one   *)
(* that is finished is neither changed nor taken from its request, unless   *)
(* it was marked done between the check and the change, or a deletion met   *)
(* another one or an addition.                                              *)
FinishedKept ==
  [][\A t \in Tasks :
       /\ task'[t] = "approved" => task[t] \in {"done", "approved"}
       /\ task[t] \in {"done", "approved"} /\ ListsKept /\ "finished" \notin met
          => /\ t \in edited' => t \in edited
             /\ \A r \in Requests : t \in Listed(r) => t \in ToSet(list'[r])]_vars
=============================================================================
