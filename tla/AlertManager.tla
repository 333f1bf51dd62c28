---------------------------- MODULE AlertManager ----------------------------
(***************************************************************************)
(* The alert manager of pkg/metrics/alert.go: a ticker checks the rules     *)
(* under the read lock of one RWMutex, users read the history and change    *)
(* the rules under the same lock.                                           *)
(*                                                                         *)
(* Times are abstracted to what the check compares: whether a rule has been *)
(* alerting for its Duration, and whether its last alert is less than its   *)
(* Interval ago.                                                            *)
(***************************************************************************)
EXTENDS Integers, SequencesExt

CONSTANTS
  Rules,       \* the rules there may be
  FirstRules,  \* those of registerDefaultRules, in Seq(Rules)
  Users,
  MaxHistory   \* maxHistorySize, at least 1

VARIABLES
  rules,     \* AlertManager.rules
  history,   \*   and history
  readers,   \* the RWMutex: who has the read lock,
  waiting,   \*   who has called Lock and waits,
  writer,    \*   who has the lock
  alerting,  \* the rules whose status IsAlerting,
  lasted,    \*   those whose StartTime is at least Duration ago,
  recent,    \*   those whose lastAlertTime is less than Interval ago
  breached,  \* the rules whose Condition the metrics meet
  check,     \* the ticker's goroutine
  task,      \* what each user is doing
  sent       \* history: the rules of which an alert has reached the notifiers

lock  == <<readers, waiting, writer>>
rule  == <<alerting, lasted, recent, breached>>
vars  == <<rules, history, lock, rule, check, task, sent>>
-----------------------------------------------------------------------------
None == "none"
Checker == "checker"
Procs == Users \cup {Checker}

Idle == [pc |-> "idle", i |-> 0]

Init ==
  /\ rules = FirstRules /\ history = <<>>
  /\ readers = {} /\ waiting = {} /\ writer = None
  /\ alerting = {} /\ lasted = {} /\ recent = {}
  /\ breached \in SUBSET Rules
  /\ check = Idle
  /\ task = [u \in Users |-> "idle"]
  /\ sent = {}
-----------------------------------------------------------------------------
(* sync.RWMutex: a waiting Lock keeps new readers out.                      *)

RLock(p)   == /\ writer = None /\ waiting = {}
              /\ readers' = readers \cup {p}
              /\ UNCHANGED <<waiting, writer>>
RUnlock(p) == readers' = readers \ {p} /\ UNCHANGED <<waiting, writer>>
Wait(p)    == waiting' = waiting \cup {p} /\ UNCHANGED <<readers, writer>>
Lock(p)    == /\ p \in waiting /\ writer = None /\ readers = {}
              /\ waiting' = waiting \ {p} /\ writer' = p
              /\ UNCHANGED readers
Unlock(p)  == writer = p /\ writer' = None /\ UNCHANGED <<readers, waiting>>
-----------------------------------------------------------------------------
(* Metrics and clock. *)

Measure ==
  /\ breached' \in SUBSET Rules
  /\ UNCHANGED <<rules, history, lock, alerting, lasted, recent, check, task, sent>>

TimePasses ==
  /\ \E r \in Rules : \/ lasted' = lasted \cup ({r} \cap alerting) /\ UNCHANGED recent
                      \/ recent' = recent \ {r} /\ UNCHANGED lasted
  /\ UNCHANGED <<rules, history, lock, alerting, breached, check, task, sent>>
-----------------------------------------------------------------------------
(* CheckRules. *)

Goto(pc, i) == check' = [pc |-> pc, i |-> i]
Checked == rules[check.i]

Tick ==
  /\ check.pc = "idle" /\ RLock(Checker) /\ Goto("rule", 1)
  /\ UNCHANGED <<rules, history, rule, task, sent>>

Finish ==
  /\ check.pc = "rule" /\ check.i > Len(rules)
  /\ RUnlock(Checker) /\ check' = Idle
  /\ UNCHANGED <<rules, history, rule, task, sent>>

(* A rule that has not just alerted: a first breach starts its status, one  *)
(* that has lasted fires, and without a breach the status ends.             *)
CheckRule ==
  /\ check.pc = "rule" /\ check.i <= Len(rules)
  /\ \/ Checked \in recent /\ Goto("rule", check.i + 1) /\ UNCHANGED rule
     \/ /\ Checked \notin recent \cup breached
        /\ alerting' = alerting \ {Checked}
        /\ Goto("rule", check.i + 1) /\ UNCHANGED <<lasted, recent, breached>>
     \/ /\ Checked \in breached \ (recent \cup alerting)
        /\ alerting' = alerting \cup {Checked} /\ lasted' = lasted \ {Checked}
        /\ Goto("rule", check.i + 1) /\ UNCHANGED <<recent, breached>>
     \/ /\ Checked \in (breached \cap alerting) \ (recent \cup lasted)
        /\ Goto("rule", check.i + 1) /\ UNCHANGED rule
     \/ /\ Checked \in (breached \cap alerting \cap lasted) \ recent
        /\ Goto("fire", check.i) /\ UNCHANGED rule
  /\ UNCHANGED <<rules, history, lock, task, sent>>

(* triggerAlert calls addToHistory, which takes the lock.                   *)
Fire ==
  /\ check.pc = "fire" /\ Wait(Checker) /\ Goto("record", check.i)
  /\ UNCHANGED <<rules, history, rule, task, sent>>

Record ==
  /\ check.pc = "record" /\ Lock(Checker)
  /\ history' = IF Len(history) >= MaxHistory THEN Append(Tail(history), Checked)
                ELSE Append(history, Checked)
  /\ Goto("notify", check.i)
  /\ UNCHANGED <<rules, rule, task, sent>>

Notify ==
  /\ check.pc = "notify" /\ Unlock(Checker)
  /\ sent' = sent \cup {Checked} /\ recent' = recent \cup {Checked}
  /\ Goto("rule", check.i + 1)
  /\ UNCHANGED <<rules, history, alerting, lasted, breached, task>>

Check == Tick \/ Finish \/ CheckRule \/ Fire \/ Record \/ Notify
-----------------------------------------------------------------------------
(* Users: GetHistory, AddRule and RemoveRule. *)

DoTask(u, from, to) == task[u] = from /\ task' = [task EXCEPT ![u] = to]

ReadHistory(u) ==
  /\ \/ DoTask(u, "idle", "reading") /\ RLock(u)
     \/ DoTask(u, "reading", "idle") /\ RUnlock(u)
  /\ UNCHANGED <<rules, history, rule, check, sent>>

CallLock(u) ==
  /\ DoTask(u, "idle", "changing") /\ Wait(u)
  /\ UNCHANGED <<rules, history, rule, check, sent>>

GetLock(u) ==
  /\ DoTask(u, "changing", "changes") /\ Lock(u)
  /\ UNCHANGED <<rules, history, rule, check, sent>>

ChangeRules(u) ==
  /\ DoTask(u, "changes", "idle") /\ Unlock(u)
  /\ \/ \E r \in Rules \ ToSet(rules) : rules' = Append(rules, r)
     \/ \E i \in DOMAIN rules : rules' = RemoveAt(rules, i)
  /\ UNCHANGED <<history, rule, check, sent>>

User(u) == ReadHistory(u) \/ CallLock(u) \/ GetLock(u) \/ ChangeRules(u)

Next == Measure \/ TimePasses \/ Check \/ \E u \in Users : User(u)

(* The ticker goes on and the goroutines run; RWMutex starves neither       *)
(* readers nor writers; a user who has the lock gives it back.              *)
Fairness ==
  /\ SF_vars(Check)
  /\ \A u \in Users : /\ WF_vars(task[u] # "idle" /\ ReadHistory(u))
                      /\ SF_vars(GetLock(u)) /\ WF_vars(ChangeRules(u))

Spec == Init /\ [][Next]_vars /\ Fairness
-----------------------------------------------------------------------------
(* A rule that fires reaches the notifiers: "after a threshold is hit, the  *)
(* alert is distributed to the channels by the notifiers".                  *)
Firing(r) == check.pc = "fire" /\ Checked = r
AlertsDelivered == \A r \in Rules : Firing(r) ~> r \in sent
=============================================================================
