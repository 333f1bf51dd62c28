----------------------------- MODULE AlertProofs -----------------------------
(***************************************************************************)
(* What becomes of the first alert, for any rules, users and length of the  *)
(* history: CheckRules holds the read lock when addToHistory asks for the   *)
(* lock, so it waits for itself, and every later caller waits for it.       *)
(***************************************************************************)
EXTENDS AlertManager, TLAPS

USE DEF lock, rule

(* The goroutines are told apart, and from nobody.                          *)
Apart == Checker \notin Users /\ None \notin Users

(* From its tick on the checker reads, so that nobody has the lock; it gets *)
(* no further than to the call of Lock.                                     *)
HeldInv ==
  /\ history = <<>> /\ sent = {}
  /\ check.pc \in {"idle", "rule", "fire", "record"}
  /\ check.pc # "idle" => Checker \in readers /\ writer = None
  /\ check.pc = "record" => Checker \in waiting

LEMMA HeldInit == Init => HeldInv
  BY DEF Init, Idle, HeldInv

(* A user who comes or goes takes no lock from the checker.                 *)
LEMMA HeldUser ==
  ASSUME Apart, HeldInv, NEW u \in Users, User(u)
  PROVE  /\ HeldInv'
         /\ check.pc = "record" => readers' \subseteq readers /\ UNCHANGED <<writer, rules>>
<1>1. u # Checker /\ u # None
  BY DEF Apart
<1>2. UNCHANGED <<history, check, sent>>
  BY DEF User, ReadHistory, CallLock, GetLock, ChangeRules
<1>3. CASE ReadHistory(u)
  BY <1>1, <1>2, <1>3 DEF ReadHistory, RLock, RUnlock, HeldInv
<1>4. CASE CallLock(u)
  BY <1>1, <1>2, <1>4 DEF CallLock, Wait, HeldInv
<1>5. CASE GetLock(u)
  BY <1>1, <1>2, <1>5 DEF GetLock, Lock, HeldInv
<1>6. CASE ChangeRules(u)
  BY <1>1, <1>2, <1>6 DEF ChangeRules, Unlock, HeldInv
<1> QED BY <1>3, <1>4, <1>5, <1>6 DEF User

(* The checker's own steps; that of addToHistory would need no reader.      *)
LEMMA HeldCheck ==
  ASSUME HeldInv, Check PROVE HeldInv' /\ check.pc # "record"
<1>1. CASE Tick
  BY <1>1 DEF Tick, RLock, Goto, HeldInv
<1>2. CASE Finish
  BY <1>2 DEF Finish, RUnlock, Idle, HeldInv
<1>3. CASE CheckRule
  BY <1>3 DEF CheckRule, Goto, HeldInv
<1>4. CASE Fire
  BY <1>4 DEF Fire, Wait, Goto, HeldInv
<1>5. ~Record
  BY DEF Record, Lock, HeldInv
<1>6. ~Notify
  BY DEF Notify, HeldInv
<1> QED BY <1>1, <1>2, <1>3, <1>4, <1>5, <1>6 DEF Check

LEMMA HeldStep ==
  ASSUME Apart, HeldInv, [Next]_vars
  PROVE  /\ HeldInv'
         /\ check.pc = "record" =>
              readers' \subseteq readers /\ UNCHANGED <<check, writer, rules, history, sent>>
<1>1. CASE Measure \/ TimePasses \/ UNCHANGED vars
  BY <1>1 DEF Measure, TimePasses, vars, HeldInv
<1>2. CASE Check
  BY <1>2, HeldCheck
<1>3. ASSUME NEW u \in Users, User(u)
      PROVE  /\ HeldInv'
             /\ check.pc = "record" =>
                  readers' \subseteq readers /\ UNCHANGED <<check, writer, rules, history, sent>>
  BY <1>3, HeldUser DEF User, ReadHistory, CallLock, GetLock, ChangeRules
<1> QED BY <1>1, <1>2, <1>3 DEF Next

(* No alert is ever recorded or reaches a notifier.                         *)
THEOREM NoAlertSent ==
  ASSUME Apart
  PROVE  Spec => [](history = <<>> /\ sent = {})
<1>1. HeldInv /\ [Next]_vars => HeldInv'
  BY HeldStep
<1>2. HeldInv => history = <<>> /\ sent = {}
  BY DEF HeldInv
<1> QED BY <1>1, <1>2, HeldInit, PTL DEF Spec

(* Once an alert is to be recorded no goroutine gets the lock again, to     *)
(* read or to write: no rule is checked, added or removed from then on, and *)
(* no history is shown but to those who are reading it.                     *)
NobodyEnters ==
  check.pc = "record" =>
    readers' \subseteq readers /\ UNCHANGED <<check, writer, rules, history, sent>>

THEOREM AlertStopsAll ==
  ASSUME Apart
  PROVE  Spec => [][NobodyEnters]_vars
<1>1. HeldInv /\ [Next]_vars => HeldInv' /\ NobodyEnters
  BY HeldStep DEF NobodyEnters
<1> QED BY <1>1, HeldInit, PTL DEF Spec
===============================================================================
