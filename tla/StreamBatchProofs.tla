-------------------------- MODULE StreamBatchProofs --------------------------
(* Proofs about StreamBatch, for every value of its constants. *)
EXTENDS StreamBatch, FiniteSetTheorems, FunctionTheorems, TLAPS

USE DEF batch, counters, hands, files, saving

(* The positions and the domains of a batch are finite in number. *)
LEMMA BatchFinite ==
  /\ Index = 1 .. Len(Batch) /\ FirstTask \in Index
  /\ \A i \in Index : Batch[i] \in Domains
  /\ IsFiniteSet(Index) /\ IsFiniteSet(Domains)
<1>1. Batch \in Seq(STRING) /\ Batch # <<>>
  BY ConstantsAssumption
<1>2. Index = 1 .. Len(Batch) /\ FirstTask \in Index /\ Len(Batch) \in Nat
  BY <1>1 DEF Index, FirstTask
<1>3. IsFiniteSet(Index)
  BY <1>2, FS_Interval
<1>4. \A i \in Index : Batch[i] \in Domains
  BY DEF Domains
<1>5. [i \in Index |-> Batch[i]] \in Surjection(Index, Domains)
  BY DEF Surjection, Domains
<1>6. IsFiniteSet(Domains)
  BY <1>3, <1>5, FS_Surjection
<1>7. QED
  BY <1>2, <1>3, <1>4, <1>6

(* Every set of domains, or of positions, has a natural number of elements. *)
LEMMA CardinalityNat ==
  /\ \A D \in SUBSET Domains : Cardinality(D) \in Nat
  /\ \A I \in SUBSET Index : Cardinality(I) \in Nat
<1>1. ASSUME NEW D \in SUBSET Domains PROVE Cardinality(D) \in Nat
  BY BatchFinite, FS_Subset, FS_CardinalityType
<1>2. ASSUME NEW I \in SUBSET Index PROVE Cardinality(I) \in Nat
  BY BatchFinite, FS_Subset, FS_CardinalityType
<1>3. QED
  BY <1>1, <1>2

LEMMA NewCheckpointType == NewCheckpoint \in Snapshot
  BY DEF NewCheckpoint, Snapshot

LEMMA FileTypes ==
  /\ Absent \in FileState /\ Blank \in FileState
  /\ \A f \in FileState, c \in Snapshot : Overlay(f, c) \in FileState
<1>1. Absent \in FileState /\ Blank \in FileState
  BY NewCheckpointType DEF Absent, Blank, Torn, FileState
<1>2. ASSUME NEW f \in FileState, NEW c \in Snapshot
      PROVE  Overlay(f, c) \in FileState
  <2>1. Cardinality(c.done) \in Nat
    BY CardinalityNat DEF Snapshot
  <2>2. f.size \in Nat
    BY DEF FileState
  <2>3. QED
    BY <2>1, <2>2, NewCheckpointType DEF Overlay, Torn, FileState
<1>3. QED
  BY <1>1, <1>2

LEMMA StepTypes ==
  /\ \A step \in Step : AllAt(step) \in [Savers -> Step]
  /\ Workers \subseteq Savers /\ Caller \in Savers /\ Caller \notin Workers
<1>1. "exit" \in Step
  BY DEF Step
<1>2. QED
  BY <1>1, ConstantsAssumption DEF AllAt, Savers

(* Starting a run with a well-formed checkpoint gives a well-formed state. *)
LEMMA BeginType ==
  ASSUME TypeOK, NEW cp \in Snapshot, NEW idx \in SUBSET Index, Begin(cp, idx)
  PROVE  TypeOK'
<1>1. Cardinality(idx) \in Nat /\ Cardinality(cp.done) \in Nat
  BY CardinalityNat DEF Snapshot
<1>2. totalTasks' \in Nat /\ completed' \in Nat /\ success' \in Nat /\ failure' \in Nat
      /\ runs' \in Nat
  BY <1>1 DEF Begin, AlreadyCompleted, TypeOK, Snapshot
<1>3. pending' \subseteq Index
  BY DEF Begin, getPendingDomains
<1>4. pc' \in [Savers -> Step] /\ phase' \in {"idle", "running", "closed", "open"}
  <2>1. "take" \in Step
    BY DEF Step, WorkerStep
  <2>2. QED
    BY <2>1, StepTypes DEF Begin, TypeOK
<1>5. QED
  BY <1>2, <1>3, <1>4 DEF Begin, TypeOK

LEMMA TypeInit == Init => TypeOK
<1> SUFFICES ASSUME Init PROVE TypeOK
  OBVIOUS
<1>1. AllAt("exit") \in [Savers -> Step]
  BY StepTypes DEF Step
<1>2. results \in Seq(Domains)
  BY DEF Init
<1>3. task \in [Workers -> Index] /\ outcome \in [Workers -> Outcome]
  BY BatchFinite DEF Init, Outcome
<1>4. QED
  BY <1>1, <1>2, <1>3, NewCheckpointType, FileTypes DEF Init, TypeOK

LEMMA TypeStep == TypeOK /\ [Next]_vars => TypeOK'
<1> SUFFICES ASSUME TypeOK, [Next]_vars PROVE TypeOK'
  OBVIOUS
<1> USE StepTypes
<1>1. CASE Process
  <2>1. ckpt.cp \in Snapshot
    BY DEF TypeOK, FileState
  <2>2. QED
    BY <1>1, <2>1, BeginType, NewCheckpointType DEF Process
<1>2. CASE ResumeFromCheckpoint
  <2>1. ckpt.cp \in Snapshot
    BY DEF TypeOK, FileState
  <2>2. getPendingDomains(Index, ckpt.cp.done) \in SUBSET Index
    BY DEF getPendingDomains
  <2>3. CASE getPendingDomains(Index, ckpt.cp.done) # {}
    BY <1>2, <2>1, <2>2, <2>3, BeginType DEF ResumeFromCheckpoint
  <2>4. CASE getPendingDomains(Index, ckpt.cp.done) = {}
    BY <1>2, <2>1, <2>4 DEF ResumeFromCheckpoint, TypeOK
  <2>5. QED
    BY <2>3, <2>4
<1>3. ASSUME NEW w \in Workers, Work(w) PROVE TypeOK'
  <2> USE <1>3 DEF TypeOK, At, Goto, CtxDone, Step, WorkerStep, SaveStep
  <2>1. CASE TakeTask(w)
    BY <2>1 DEF TakeTask
  <2>1a. CASE LeaveLoop(w)
    BY <2>1a DEF LeaveLoop
  <2>2. CASE BeginQuery(w)
    <3>1. Release(w) \/ UNCHANGED <<task, outcome>>
      BY <2>2 DEF BeginQuery
    <3>2. task' \in [Workers -> Index] /\ outcome' \in [Workers -> Outcome]
      BY <3>1, BatchFinite DEF Release, Outcome
    <3>3. pc' \in [Savers -> Step]
      BY <2>2 DEF BeginQuery
    <3>4. QED
      BY <2>2, <3>2, <3>3 DEF BeginQuery
  <2>3. CASE QueryDomain(w)
    BY <2>3 DEF QueryDomain
  <2>4. CASE SendResult(w)
    <3>1. Batch[task[w]] \in Domains
      BY BatchFinite
    <3>2. QED
      <4>1. results' \in Seq(Domains) /\ sent' \subseteq Domains
        <5>1. Append(results, Batch[task[w]]) \in Seq(Domains)
          BY <3>1
        <5>2. results' \in {results, Append(results, Batch[task[w]])}
          BY <2>4 DEF SendResult
        <5>3. sent' \subseteq sent \cup {Batch[task[w]]}
          BY <2>4 DEF SendResult
        <5>4. QED
          BY <3>1, <5>1, <5>2, <5>3
      <4>2. task' \in [Workers -> Index] /\ outcome' \in [Workers -> Outcome]
        <5>1. Release(w) \/ UNCHANGED <<task, outcome>>
          BY <2>4 DEF SendResult
        <5>2. QED
          BY <5>1, BatchFinite DEF Release, Outcome
      <4>3. pc' \in [Savers -> Step]
        BY <2>4 DEF SendResult
      <4>4. QED
        BY <2>4, <4>1, <4>2, <4>3 DEF SendResult
  <2>5. CASE CountCompleted(w)
    BY <2>5 DEF CountCompleted
  <2>6. CASE Tally(w)
    BY <2>6 DEF Tally
  <2>7. CASE Record(w)
    <3>1. Batch[task[w]] \in Domains
      BY BatchFinite
    <3>2. checkpoint' \in Snapshot
      BY <2>7, <3>1 DEF Record, Marked, Snapshot
    <3>3. QED
      BY <2>7, <3>2, BatchFinite DEF Record, Release, Outcome
  <2>8. CASE CheckInterval(w)
    BY <2>8 DEF CheckInterval
  <2>9. QED
    BY <2>1, <2>1a, <2>2, <2>3, <2>4, <2>5, <2>6, <2>7, <2>8 DEF Work
<1>4. ASSUME NEW s \in Savers, Save(s) PROVE TypeOK'
  <2> USE <1>4, FileTypes, NewCheckpointType
      DEF TypeOK, At, Goto, Step, WorkerStep, SaveStep
  <2>1. CASE Marshal(s)
    BY <2>1 DEF Marshal
  <2>2. CASE OpenTmp(s)
    BY <2>2 DEF OpenTmp
  <2>3. CASE WriteTmp(s)
    BY <2>3 DEF WriteTmp
  <2>4. CASE RenameTmp(s)
    BY <2>4 DEF RenameTmp
  <2>5. CASE SaveFails(s)
    BY <2>5 DEF SaveFails
  <2>6. QED
    BY <2>1, <2>2, <2>3, <2>4, <2>5 DEF Save
<1>5. CASE Cancel
  BY <1>5 DEF Cancel, TypeOK, Goto, Step, SaveStep
<1>6. CASE ContextDone
  BY <1>6 DEF ContextDone, TypeOK
<1>7. CASE CloseResults
  BY <1>7 DEF CloseResults, TypeOK
<1>8. CASE Consume
  BY <1>8 DEF Consume, TypeOK
<1>9. CASE Crash
  <2>1. AllAt("exit") \in [Savers -> Step]
    BY DEF Step
  <2>2. results' \in Seq(Domains)
    BY <1>9 DEF Crash
  <2>3. task' \in [Workers -> Index] /\ outcome' \in [Workers -> Outcome]
    BY <1>9, BatchFinite DEF Crash, Outcome
  <2>4. QED
    BY <1>9, <2>1, <2>2, <2>3, NewCheckpointType DEF Crash, TypeOK
<1>10. CASE UNCHANGED vars
  BY <1>10 DEF TypeOK, vars
<1>11. QED
  BY <1>1, <1>2, <1>3, <1>4, <1>5, <1>6, <1>7, <1>8, <1>9, <1>10 DEF Next, Finished

(* Every variable of the batch processor keeps its type in every reachable *)
(* state.                                                                  *)
THEOREM TypeCorrect == Spec => []TypeOK
  BY TypeInit, TypeStep, PTL DEF Spec
-----------------------------------------------------------------------------
(* The inductive invariant of the delivery properties. *)
Delivery == SentBeforeDurable /\ EndedCoversBatch /\ NoSendOnClosed /\ TasksAccounted
IInv == TypeOK /\ Delivery

LEMMA DeliveryInit == Init => Delivery
<1> SUFFICES ASSUME Init PROVE Delivery
  OBVIOUS
<1> USE StepTypes DEF Init
<1>1. SentBeforeDurable
  BY DEF SentBeforeDurable, NewCheckpoint, Absent
<1>2. EndedCoversBatch /\ NoSendOnClosed /\ TasksAccounted
  BY DEF EndedCoversBatch, NoSendOnClosed, TasksAccounted, At, AllAt
<1>3. QED
  BY <1>1, <1>2 DEF Delivery

(* Starting on a checkpoint whose domains were all sent: the tasks that are *)
(* neither sent nor pending are none, because the positions left out of idx *)
(* are completed in that checkpoint.                                        *)
LEMMA DeliveryBegin ==
  ASSUME IInv, phase = "idle", NEW cp \in Snapshot, cp.done \subseteq sent,
         NEW idx \in SUBSET Index, Begin(cp, idx),
         \A i \in Index \ idx : Batch[i] \in cp.done
  PROVE  Delivery'
<1> USE StepTypes
<1>1. \A i \in Index : Batch[i] \in sent' \/ i \in pending'
  BY DEF Begin, getPendingDomains
<1>2. ~cancelled' /\ \A w \in Workers : pc[w] = "exit"
  BY DEF IInv, Delivery, TasksAccounted, Begin, At
<1>3. SentBeforeDurable'
  BY DEF IInv, Delivery, SentBeforeDurable, Begin
<1>4. CASE pending' = {}
  <2>1. phase' = "closed" /\ pc' = pc /\ Domains \subseteq sent'
    BY <1>1, <1>4 DEF Begin, Domains
  <2>2. QED
    BY <1>2, <1>3, <2>1
    DEF Delivery, EndedCoversBatch, NoSendOnClosed, TasksAccounted, At
<1>5. CASE pending' # {}
  <2>1. phase' = "running" /\ \A w \in Workers : pc'[w] = "take"
    BY <1>5 DEF Begin, AllAt
  <2>2. QED
    BY <1>1, <1>3, <2>1
    DEF Delivery, EndedCoversBatch, NoSendOnClosed, TasksAccounted, At, Unanswered
<1>6. QED
  BY <1>4, <1>5

LEMMA DeliveryProcess == IInv /\ Process => Delivery'
<1> SUFFICES ASSUME IInv, Process PROVE Delivery'
  OBVIOUS
<1>1. ckpt.cp \in Snapshot /\ ckpt.cp.done \subseteq sent
  BY DEF IInv, TypeOK, FileState, Delivery, SentBeforeDurable
<1>2. NewCheckpoint.done \subseteq sent
  BY DEF NewCheckpoint
<1>3. QED
  BY <1>1, <1>2, NewCheckpointType, DeliveryBegin DEF Process

LEMMA DeliveryResume == IInv /\ ResumeFromCheckpoint => Delivery'
<1> SUFFICES ASSUME IInv, ResumeFromCheckpoint PROVE Delivery'
  OBVIOUS
<1> USE StepTypes
<1>1. ckpt.cp \in Snapshot /\ ckpt.cp.done \subseteq sent
  BY DEF IInv, TypeOK, FileState, Delivery, SentBeforeDurable
<1> DEFINE left == getPendingDomains(Index, ckpt.cp.done)
<1>2. left \subseteq Index /\ \A i \in Index \ left : Batch[i] \in ckpt.cp.done
  BY DEF getPendingDomains
<1>3. CASE left # {}
  BY <1>1, <1>2, <1>3, DeliveryBegin DEF ResumeFromCheckpoint
<1>4. CASE left = {}
  <2>1. Domains \subseteq sent
    BY <1>1, <1>2, <1>4 DEF Domains
  <2>2. /\ phase = "idle" /\ phase' = "open" /\ checkpoint' = ckpt.cp
        /\ UNCHANGED <<pending, cancelled, pc, task, snap, tmp, ckpt, sent>>
    BY <1>4 DEF ResumeFromCheckpoint
  <2>3. SentBeforeDurable'
    BY <1>1, <2>2 DEF IInv, Delivery, SentBeforeDurable
  <2>4. QED
    BY <2>1, <2>2, <2>3
    DEF IInv, Delivery, EndedCoversBatch, NoSendOnClosed, TasksAccounted, At
<1>5. QED
  BY <1>3, <1>4

(* A worker step: the run goes on, so only what is sent, completed and in   *)
(* hand is at stake.                                                        *)
LEMMA DeliveryWork ==
  ASSUME IInv, NEW w \in Workers, Work(w)
  PROVE  Delivery'
<1> USE StepTypes
<1>1. pc[w] # "exit" /\ phase = "running" /\ phase' = "running"
      /\ UNCHANGED <<cancelled, snap, tmp, ckpt>>
  BY DEF IInv, Delivery, NoSendOnClosed, Work, At, TakeTask, LeaveLoop, BeginQuery, QueryDomain,
         SendResult, CountCompleted, Tally, Record, CheckInterval
<1>2. EndedCoversBatch' /\ NoSendOnClosed'
  BY <1>1 DEF EndedCoversBatch, NoSendOnClosed
<1>3. pc \in [Savers -> Step] /\ task \in [Workers -> Index] /\ pending \subseteq Index
  BY DEF IInv, TypeOK
<1>4. /\ \A v \in Workers : pc[v] \in {"count", "tally", "record"} => Batch[task[v]] \in sent
      /\ ~cancelled => \A i \in Index : Batch[i] \in sent \/ Unanswered(i)
      /\ ~cancelled => \A v \in Workers : pc[v] = "exit" => pending = {}
  BY <1>1 DEF IInv, Delivery, TasksAccounted, At
<1>5. /\ checkpoint.done \subseteq sent
      /\ \A s \in Savers : snap[s].done \subseteq sent
      /\ tmp.cp.done \subseteq sent /\ ckpt.cp.done \subseteq sent
  BY DEF IInv, Delivery, SentBeforeDurable
<1> USE DEF At, Goto, Unanswered, CtxDone
<1>6. CASE TakeTask(w)
  <2>1. UNCHANGED <<checkpoint, sent>>
    BY <1>6 DEF TakeTask
  <2>2. PICK i \in pending : /\ pending' = pending \ {i}
                             /\ task' = [task EXCEPT ![w] = i]
    BY <1>6 DEF TakeTask
  <2>3. \A v \in Workers : v # w => task'[v] = task[v] /\ pc'[v] = pc[v]
    BY <1>3, <1>6, <2>2 DEF TakeTask
  <2>4. pc[w] = "take" /\ task'[w] = i /\ pc'[w] = "taken"
    BY <1>3, <1>6, <2>2 DEF TakeTask
  <2>5. \A j \in Index : Unanswered(j) => Unanswered(j)'
    BY <2>2, <2>3, <2>4
  <2>6. QED
    BY <1>1, <1>2, <1>4, <1>5, <2>1, <2>2, <2>3, <2>4, <2>5
    DEF Delivery, TasksAccounted, SentBeforeDurable
<1>6a. CASE LeaveLoop(w)
  <2>1. pending = {} /\ UNCHANGED <<checkpoint, sent, pending, task>>
    BY <1>6a DEF LeaveLoop
  <2>2. \A v \in Workers : v # w => pc'[v] = pc[v]
    BY <1>3, <1>6a DEF LeaveLoop
  <2>3. pc[w] = "take" /\ pc'[w] = "exit"
    BY <1>3, <1>6a DEF LeaveLoop
  <2>4. \A j \in Index : Unanswered(j) => Unanswered(j)'
    BY <2>1, <2>2, <2>3
  <2>5. QED
    BY <1>1, <1>2, <1>4, <1>5, <2>1, <2>2, <2>3, <2>4
    DEF Delivery, TasksAccounted, SentBeforeDurable
<1>7. CASE BeginQuery(w)
  <2>1. UNCHANGED <<checkpoint, sent, pending>>
    BY <1>7 DEF BeginQuery
  <2>2. CASE cancelled
    <3>1. \A v \in Workers : v # w => task'[v] = task[v] /\ pc'[v] = pc[v]
      BY <1>3, <1>7, <2>2 DEF BeginQuery, Release
    <3>2. pc'[w] = "exit"
      BY <1>3, <1>7, <2>2 DEF BeginQuery
    <3>3. QED
      BY <1>1, <1>2, <1>4, <1>5, <2>1, <2>2, <3>1, <3>2
      DEF Delivery, TasksAccounted, SentBeforeDurable
  <2>3. CASE ~cancelled
    <3>1. task' = task /\ \A v \in Workers : v # w => pc'[v] = pc[v]
      BY <1>3, <1>7, <2>3 DEF BeginQuery
    <3>2. pc[w] = "taken" /\ pc'[w] = "query"
      BY <1>3, <1>7, <2>3 DEF BeginQuery
    <3>3. \A j \in Index : Unanswered(j) => Unanswered(j)'
      BY <2>1, <3>1, <3>2
    <3>4. QED
      BY <1>1, <1>2, <1>4, <1>5, <2>1, <3>1, <3>2, <3>3
      DEF Delivery, TasksAccounted, SentBeforeDurable
  <2>4. QED
    BY <2>2, <2>3
<1>8. CASE QueryDomain(w)
  BY <1>1, <1>2, <1>3, <1>4, <1>5, <1>8
  DEF QueryDomain, Delivery, TasksAccounted, SentBeforeDurable
<1>9. CASE SendResult(w)
  <2>1. UNCHANGED <<checkpoint, pending>>
    BY <1>9 DEF SendResult
  <2>2. CASE sent' = sent \cup {Batch[task[w]]} /\ pc' = [pc EXCEPT ![w] = "count"]
             /\ task' = task
    BY <1>1, <1>2, <1>3, <1>4, <1>5, <2>1, <2>2
    DEF Delivery, TasksAccounted, SentBeforeDurable
  <2>3. CASE cancelled /\ sent' = sent /\ pc' = [pc EXCEPT ![w] = "exit"]
             /\ task' = [task EXCEPT ![w] = FirstTask]
    BY <1>1, <1>2, <1>3, <1>4, <1>5, <2>1, <2>3
    DEF Delivery, TasksAccounted, SentBeforeDurable
  <2>4. QED
    BY <1>9, <2>2, <2>3 DEF SendResult, Release
<1>10. CASE CountCompleted(w)
  BY <1>1, <1>2, <1>3, <1>4, <1>5, <1>10
  DEF CountCompleted, Delivery, TasksAccounted, SentBeforeDurable
<1>11. CASE Tally(w)
  BY <1>1, <1>2, <1>3, <1>4, <1>5, <1>11
  DEF Tally, Delivery, TasksAccounted, SentBeforeDurable
<1>12. CASE Record(w)
  <2>1. pc[w] = "record" /\ checkpoint'.done = checkpoint.done \cup {Batch[task[w]]}
        /\ pc' = [pc EXCEPT ![w] = "check"] /\ task' = [task EXCEPT ![w] = FirstTask]
        /\ UNCHANGED <<pending, sent>>
    BY <1>12 DEF Record, Marked, Release
  <2>2. \A v \in Workers : v # w => task'[v] = task[v] /\ pc'[v] = pc[v]
    BY <1>3, <2>1
  <2>3. pc'[w] = "check"
    BY <1>3, <2>1
  <2>4. Batch[task[w]] \in sent
    BY <1>4, <2>1
  <2>5. \A j \in Index : Unanswered(j) => Unanswered(j)'
    BY <2>1, <2>2, <2>3
  <2>6. QED
    BY <1>1, <1>2, <1>4, <1>5, <2>1, <2>2, <2>3, <2>4, <2>5
    DEF Delivery, TasksAccounted, SentBeforeDurable
<1>13. CASE CheckInterval(w)
  <2>1. pc[w] = "check" /\ UNCHANGED <<checkpoint, pending, sent, task>>
    BY <1>13 DEF CheckInterval
  <2>2. \A v \in Workers : v # w => pc'[v] = pc[v]
    BY <1>3, <1>13 DEF CheckInterval
  <2>3. pc'[w] \in {"marshal", "take"}
    BY <1>3, <1>13 DEF CheckInterval
  <2>4. QED
    BY <1>1, <1>2, <1>4, <1>5, <2>1, <2>2, <2>3
    DEF Delivery, TasksAccounted, SentBeforeDurable
<1>14. QED
  BY <1>6, <1>6a, <1>7, <1>8, <1>9, <1>10, <1>11, <1>12, <1>13 DEF Work

(* A save copies what the checkpoint or a buffer already says, or damages it. *)
LEMMA DeliverySave ==
  ASSUME IInv, NEW s \in Savers, Save(s)
  PROVE  Delivery'
<1> USE StepTypes
<1>1. pc[s] \in SaveStep /\ UNCHANGED <<phase, pending, cancelled, checkpoint, task, sent>>
  BY DEF Save, Marshal, OpenTmp, WriteTmp, RenameTmp, SaveFails, At, SaveStep
<1>2. pc \in [Savers -> Step] /\ snap \in [Savers -> Snapshot]
  BY DEF IInv, TypeOK
<1>3. \E step \in SaveStep \cup {"take", "exit"} :
         pc' = [pc EXCEPT ![s] = step] /\ (step = "exit" => s = Caller)
  BY DEF Save, Marshal, OpenTmp, WriteTmp, RenameTmp, SaveFails, Goto, SaveStep
<1>4. EndedCoversBatch'
  BY <1>1 DEF IInv, Delivery, EndedCoversBatch
<1>5. NoSendOnClosed'
  BY <1>1, <1>2, <1>3 DEF IInv, Delivery, NoSendOnClosed, At, SaveStep
<1>6. TasksAccounted'
  <2>1. \A w \in Workers : \/ pc'[w] = pc[w]
                           \/ pc[w] \in SaveStep /\ pc'[w] \in SaveStep \cup {"take"}
    BY <1>1, <1>2, <1>3
  <2>2. \A i \in Index : Unanswered(i)' <=> Unanswered(i)
    BY <1>1, <2>1 DEF Unanswered, SaveStep
  <2>3. phase # "idle"
    BY <1>1 DEF IInv, Delivery, TasksAccounted, At, SaveStep
  <2>4. QED
    BY <1>1, <2>1, <2>2, <2>3 DEF IInv, Delivery, TasksAccounted, At, SaveStep
<1>7. SentBeforeDurable'
  <2>1. /\ checkpoint.done \subseteq sent
        /\ \A x \in Savers : snap[x].done \subseteq sent
        /\ tmp.cp.done \subseteq sent /\ ckpt.cp.done \subseteq sent
    BY DEF IInv, Delivery, SentBeforeDurable
  <2>2. \A f, c : Overlay(f, c).cp.done \in {c.done, {}}
    BY DEF Overlay, Torn, NewCheckpoint
  <2>3. Absent.cp.done = {} /\ Blank.cp.done = {} /\ NewCheckpoint.done = {}
    BY DEF Absent, Blank, Torn, NewCheckpoint
  <2>4. CASE Marshal(s)
    BY <1>1, <1>2, <2>1, <2>4 DEF Marshal, SentBeforeDurable
  <2>5. CASE OpenTmp(s)
    BY <1>1, <1>2, <2>1, <2>3, <2>5 DEF OpenTmp, SentBeforeDurable
  <2>6. CASE WriteTmp(s)
    <3>1. tmp'.cp.done \subseteq sent /\ ckpt'.cp.done \subseteq sent
      BY <2>1, <2>2, <2>6 DEF WriteTmp
    <3>2. \A x \in Savers : snap'[x].done \subseteq sent
      BY <1>2, <2>1, <2>3, <2>6 DEF WriteTmp
    <3>3. QED
      BY <1>1, <2>1, <3>1, <3>2 DEF SentBeforeDurable
  <2>7. CASE RenameTmp(s)
    BY <1>1, <2>1, <2>3, <2>7 DEF RenameTmp, SentBeforeDurable
  <2>8. CASE SaveFails(s)
    BY <1>1, <1>2, <2>1, <2>3, <2>8 DEF SaveFails, SentBeforeDurable
  <2>9. QED
    BY <2>4, <2>5, <2>6, <2>7, <2>8 DEF Save
<1>8. QED
  BY <1>4, <1>5, <1>6, <1>7 DEF Delivery

(* Closing: every worker has left, so nothing is pending or in hand.         *)
LEMMA DeliveryClose == IInv /\ CloseResults => Delivery'
<1> SUFFICES ASSUME IInv, CloseResults PROVE Delivery'
  OBVIOUS
<1>1. /\ phase = "running" /\ phase' = "closed" /\ \A w \in Workers : pc[w] = "exit"
      /\ UNCHANGED <<pending, cancelled, checkpoint, pc, task, snap, tmp, ckpt, sent>>
  BY DEF CloseResults, AllExited, At
<1>2. ASSUME ~cancelled PROVE Domains \subseteq sent
  <2>1. pending = {}
    BY <1>1, <1>2, ConstantsAssumption DEF IInv, Delivery, TasksAccounted, At
  <2>2. \A i \in Index : Batch[i] \in sent
    BY <1>1, <1>2, <2>1 DEF IInv, Delivery, TasksAccounted, Unanswered
  <2>3. QED
    BY <2>2 DEF Domains
<1>3. SentBeforeDurable'
  BY <1>1 DEF IInv, Delivery, SentBeforeDurable
<1>4. TasksAccounted'
  BY <1>1 DEF IInv, Delivery, TasksAccounted
<1>5. QED
  BY <1>1, <1>2, <1>3, <1>4 DEF Delivery, EndedCoversBatch, NoSendOnClosed, At

LEMMA DeliveryCrash == IInv /\ Crash => Delivery'
<1> SUFFICES ASSUME IInv, Crash PROVE Delivery'
  OBVIOUS
<1> USE StepTypes
<1>1. /\ phase' = "idle" /\ cancelled' = FALSE /\ checkpoint' = NewCheckpoint
      /\ pc' = AllAt("exit") /\ snap' = [s \in Savers |-> NewCheckpoint]
      /\ UNCHANGED <<tmp, ckpt, sent>>
  BY DEF Crash
<1>2. SentBeforeDurable'
  BY <1>1 DEF IInv, Delivery, SentBeforeDurable, NewCheckpoint
<1>3. QED
  BY <1>1, <1>2 DEF Delivery, EndedCoversBatch, NoSendOnClosed, TasksAccounted, At, AllAt

(* The remaining actions touch neither the tasks nor what is sent.           *)
LEMMA DeliveryCancel == IInv /\ (Cancel \/ ContextDone) => Delivery'
<1> SUFFICES ASSUME IInv, Cancel \/ ContextDone PROVE Delivery'
  OBVIOUS
<1> USE StepTypes
<1>1. /\ phase # "idle" /\ (cancelled => cancelled') /\ (phase = "running" => cancelled')
      /\ UNCHANGED <<phase, pending, checkpoint, task, snap, tmp, ckpt, sent>>
  BY DEF Cancel, ContextDone
<1>2. \A w \in Workers : pc'[w] = pc[w]
  BY DEF Cancel, ContextDone, Goto, IInv, TypeOK
<1>3. SentBeforeDurable'
  BY <1>1 DEF IInv, Delivery, SentBeforeDurable
<1>4. QED
  BY <1>1, <1>2, <1>3
  DEF IInv, Delivery, EndedCoversBatch, NoSendOnClosed, TasksAccounted, At

LEMMA DeliveryConsume == IInv /\ (Consume \/ UNCHANGED vars) => Delivery'
<1> SUFFICES ASSUME IInv, Consume \/ UNCHANGED vars PROVE Delivery'
  OBVIOUS
<1>1. UNCHANGED <<phase, pending, cancelled, checkpoint, pc, task, snap, tmp, ckpt, sent>>
  BY DEF Consume, vars
<1>2. QED
  BY <1>1 DEF IInv, Delivery, SentBeforeDurable, EndedCoversBatch, NoSendOnClosed,
              TasksAccounted, At, Unanswered

LEMMA InvStep == IInv /\ [Next]_vars => IInv'
<1> SUFFICES ASSUME IInv, [Next]_vars PROVE Delivery'
  BY TypeStep DEF IInv
<1>1. QED
  BY DeliveryProcess, DeliveryResume, DeliveryWork, DeliverySave, DeliveryClose,
     DeliveryCrash, DeliveryCancel, DeliveryConsume DEF Next, Finished

THEOREM InvCorrect == Spec => []IInv
<1>1. Init => IInv
  BY TypeInit, DeliveryInit DEF IInv
<1>2. QED
  BY <1>1, InvStep, PTL DEF Spec

(* A checkpoint never lists a domain whose result was not sent, however     *)
(* savers, crashes and failing writes interleave: a resumed run repeats     *)
(* queries but skips none.                                                  *)
THEOREM DurableWasSent == Spec => []SentBeforeDurable
<1>1. IInv => SentBeforeDurable
  BY DEF IInv, Delivery
<1>2. QED
  BY <1>1, InvCorrect, PTL

(* A batch that ends uncancelled has answered each of its domains.          *)
THEOREM EndCovers == Spec => []EndedCoversBatch
<1>1. IInv => EndedCoversBatch
  BY DEF IInv, Delivery
<1>2. QED
  BY <1>1, InvCorrect, PTL

(* No worker can be at its send once the result channel is closed.          *)
THEOREM ChannelSafe == Spec => []NoSendOnClosed
<1>1. IInv => NoSendOnClosed
  BY DEF IInv, Delivery
<1>2. QED
  BY <1>1, InvCorrect, PTL
-----------------------------------------------------------------------------
(* The promise.  Each step of the processor is a step of BatchPromise or a  *)
(* stutter, where the processor is "on" exactly while it runs.              *)
LEMMA PromiseInit == Init => Promise!Init
  BY DEF Init, Promise!Init, Absent, NewCheckpoint

LEMMA PromiseBegin ==
  ASSUME IInv, phase = "idle", NEW cp \in Snapshot, cp.done \subseteq sent,
         NEW idx \in SUBSET Index, Begin(cp, idx),
         \A i \in Index \ idx : Batch[i] \in cp.done
  PROVE  Promise!Start
<1>1. ~cancelled
  BY DEF IInv, Delivery, TasksAccounted
<1>2. UNCHANGED <<cancelled, sent, ckpt>>
  BY DEF Begin
<1>3. CASE phase' = "running"
  BY <1>2, <1>3 DEF Promise!Start
<1>4. CASE phase' = "closed"
  <2>1. Domains \subseteq sent
    BY <1>4, DeliveryBegin, <1>1, <1>2 DEF Delivery, EndedCoversBatch
  <2>2. QED
    BY <1>1, <1>2, <1>4, <2>1 DEF Promise!Start
<1>5. QED
  BY <1>3, <1>4 DEF Begin

LEMMA PromiseStart == IInv /\ (Process \/ ResumeFromCheckpoint) => Promise!Start
<1> SUFFICES ASSUME IInv, Process \/ ResumeFromCheckpoint PROVE Promise!Start
  OBVIOUS
<1>1. ckpt.cp \in Snapshot /\ ckpt.cp.done \subseteq sent
  BY DEF IInv, TypeOK, FileState, Delivery, SentBeforeDurable
<1>2. CASE Process
  <2>1. NewCheckpoint.done \subseteq sent
    BY DEF NewCheckpoint
  <2>2. QED
    BY <1>1, <1>2, <2>1, NewCheckpointType, PromiseBegin DEF Process
<1>3. CASE ResumeFromCheckpoint
  <2> DEFINE left == getPendingDomains(Index, ckpt.cp.done)
  <2>1. left \subseteq Index /\ \A i \in Index \ left : Batch[i] \in ckpt.cp.done
    BY DEF getPendingDomains
  <2>2. CASE left # {}
    BY <1>1, <1>3, <2>1, <2>2, PromiseBegin DEF ResumeFromCheckpoint
  <2>3. CASE left = {}
    <3>1. Domains \subseteq sent
      BY <1>1, <2>1, <2>3 DEF Domains
    <3>2. phase = "idle" /\ phase' = "open" /\ UNCHANGED <<sent, ckpt>>
      BY <1>3, <2>3 DEF ResumeFromCheckpoint
    <3>3. QED
      BY <3>1, <3>2 DEF Promise!Start
  <2>4. QED
    BY <2>2, <2>3
<1>4. QED
  BY <1>2, <1>3

LEMMA PromiseWork ==
  ASSUME IInv, NEW w \in Workers, Work(w)
  PROVE  [Promise!Next]_(Promise!vars)
<1>1. phase = "running" /\ UNCHANGED <<phase, ckpt>>
  BY DEF IInv, Delivery, NoSendOnClosed, Work, At, TakeTask, LeaveLoop, BeginQuery, QueryDomain,
         SendResult, CountCompleted, Tally, Record, CheckInterval
<1>2. sent' = sent \/ sent' = sent \cup {Batch[task[w]]}
  BY DEF Work, TakeTask, LeaveLoop, BeginQuery, QueryDomain, SendResult, CountCompleted, Tally,
         Record, CheckInterval
<1>3. Batch[task[w]] \in Domains
  BY BatchFinite DEF IInv, TypeOK
<1>4. CASE sent' = sent
  BY <1>1, <1>4 DEF Promise!vars
<1>5. CASE sent' = sent \cup {Batch[task[w]]}
  <2>1. Promise!Answer(Batch[task[w]])
    BY <1>1, <1>5 DEF Promise!Answer
  <2>2. QED
    BY <1>3, <2>1 DEF Promise!Next
<1>6. QED
  BY <1>2, <1>4, <1>5

LEMMA PromiseSave ==
  ASSUME IInv, NEW s \in Savers, Save(s)
  PROVE  [Promise!Next]_(Promise!vars)
<1>1. phase # "idle" /\ UNCHANGED <<phase, cancelled, sent>>
  BY DEF IInv, Delivery, TasksAccounted, Save, Marshal, OpenTmp, WriteTmp, RenameTmp,
         SaveFails, At
<1>2. ckpt'.cp.done \subseteq sent
  BY <1>1, DeliverySave DEF Delivery, SentBeforeDurable
<1>3. phase \in {"idle", "running", "closed", "open"}
  BY DEF IInv, TypeOK
<1>4. Promise!Persist
  BY <1>1, <1>2, <1>3 DEF Promise!Persist
<1>5. QED
  BY <1>4 DEF Promise!Next

LEMMA PromiseStep == IInv /\ [Next]_vars => [Promise!Next]_(Promise!vars)
<1> SUFFICES ASSUME IInv, [Next]_vars PROVE [Promise!Next]_(Promise!vars)
  OBVIOUS
<1>1. CASE Process \/ ResumeFromCheckpoint
  BY <1>1, PromiseStart DEF Promise!Next
<1>2. CASE \E w \in Workers : Work(w)
  BY <1>2, PromiseWork
<1>3. CASE \E s \in Savers : Save(s)
  BY <1>3, PromiseSave
<1>4. CASE Cancel \/ ContextDone
  <2>1. UNCHANGED <<phase, sent, ckpt>> /\ (phase # "running" => cancelled' = cancelled)
    BY <1>4 DEF Cancel, ContextDone, IInv, TypeOK
  <2>2. QED
    BY <2>1 DEF Promise!vars
<1>5. CASE CloseResults
  <2>1. phase = "running" /\ phase' = "closed" /\ UNCHANGED <<cancelled, sent, ckpt>>
    BY <1>5 DEF CloseResults
  <2>2. CASE cancelled
    BY <2>1, <2>2 DEF Promise!Stop, Promise!Next
  <2>3. CASE ~cancelled
    <3>1. Domains \subseteq sent
      BY <1>5, <2>1, <2>3, DeliveryClose DEF Delivery, EndedCoversBatch
    <3>2. QED
      BY <2>1, <2>3, <3>1 DEF Promise!End, Promise!Next
  <2>4. QED
    BY <2>2, <2>3
<1>6. CASE Crash
  <2>1. phase # "idle" /\ phase' = "idle" /\ UNCHANGED <<sent, ckpt>>
    BY <1>6 DEF Crash
  <2>2. phase \in {"idle", "running", "closed", "open"}
    BY DEF IInv, TypeOK
  <2>3. Promise!Lose
    BY <2>1, <2>2 DEF Promise!Lose
  <2>4. QED
    BY <2>3 DEF Promise!Next
<1>7. CASE Consume \/ UNCHANGED vars
  <2>1. UNCHANGED <<phase, cancelled, sent, ckpt>>
    BY <1>7 DEF Consume, vars
  <2>2. QED
    BY <2>1 DEF Promise!vars
<1>8. QED
  BY <1>1, <1>2, <1>3, <1>4, <1>5, <1>6, <1>7 DEF Next, Finished

(* The batch processor implements BatchPromise: at least one answer per     *)
(* domain before an uncancelled end, over any number of crashed runs.       *)
THEOREM PromiseKept == Spec => KeepsPromise
<1>1. QED
  BY PromiseInit, InvCorrect, PromiseStep, PTL DEF Spec, KeepsPromise, Promise!Spec
-----------------------------------------------------------------------------
(* Domains and counts.  A task that is handed out is in no other hands and  *)
(* not in the checkpoint; a count is ahead of the checkpoint by the workers *)
(* that are between the two.                                                *)
InHand(w) == pc[w] \in {"taken", "query", "send", "count", "tally", "record"}
Counting  == {w \in Workers : pc[w] \in {"tally", "record"}}
Tallied   == {w \in Workers : pc[w] = "record"}

TasksOnce ==
  /\ phase = "idle" => pending = {}
  /\ \A i \in pending : Batch[i] \notin checkpoint.done
  /\ \A w \in Workers : InHand(w) => task[w] \notin pending /\ Batch[task[w]] \notin checkpoint.done
  /\ \A v, w \in Workers : InHand(v) /\ InHand(w) /\ task[v] = task[w] => v = w

CountsMatch ==
  /\ phase \in {"running", "closed"} =>
       completed = Cardinality(checkpoint.done) + Cardinality(Counting)
  /\ phase = "running" /\ ~cancelled =>
       \A i \in Index : \/ Batch[i] \in checkpoint.done \/ i \in pending
                         \/ \E w \in Workers : InHand(w) /\ task[w] = i
  /\ phase = "closed" /\ ~cancelled => Domains \subseteq checkpoint.done

(* What a checkpoint counts is no less than what it lists.                  *)
Covers(c) == c.success + c.failure >= Cardinality(c.done)
TalliesCover ==
  /\ phase \in {"running", "closed"} =>
       success + failure >= Cardinality(checkpoint.done) + Cardinality(Tallied)
  /\ Covers(checkpoint) /\ \A s \in Savers : Covers(snap[s])
  /\ Covers(tmp.cp) /\ Covers(ckpt.cp)

Accounts == (DistinctBatch => TasksOnce /\ CountsMatch) /\ TalliesCover

LEMMA WorkerSets ==
  ASSUME NEW W \in SUBSET Workers
  PROVE  IsFiniteSet(W) /\ Cardinality(W) \in Nat
BY ConstantsAssumption, FS_Subset, FS_CardinalityType

LEMMA NewCovers == Covers(NewCheckpoint)
BY FS_EmptySet DEF Covers, NewCheckpoint

LEMMA NoneAtWork ==
  ASSUME \A w \in Workers : pc[w] \in {"exit", "take"}
  PROVE  Counting = {} /\ Tallied = {} /\ \A w \in Workers : ~InHand(w)
BY DEF Counting, Tallied, InHand

LEMMA AccountsInit == Init => Accounts
<1> SUFFICES ASSUME Init PROVE Accounts
  OBVIOUS
<1>1. \A w \in Workers : pc[w] = "exit"
  BY StepTypes DEF Init, AllAt
<1>2. \A w \in Workers : ~InHand(w)
  BY <1>1, NoneAtWork
<1>3. TasksOnce /\ CountsMatch
  BY <1>2 DEF Init, TasksOnce, CountsMatch
<1>4. TalliesCover
  BY NewCovers DEF Init, TalliesCover, Absent
<1> QED BY <1>3, <1>4 DEF Accounts

(* A run that begins on a checkpoint.                                       *)
LEMMA AccountsBegin ==
  ASSUME IInv, Accounts, phase = "idle", NEW cp \in Snapshot, Covers(cp),
         NEW idx \in SUBSET Index, Begin(cp, idx),
         \A i \in Index \ idx : Batch[i] \in cp.done
  PROVE  Accounts'
<1> USE StepTypes
<1>1. \A w \in Workers : pc'[w] \in {"exit", "take"}
  BY DEF IInv, Delivery, TasksAccounted, At, Begin, AllAt
<1>2. Counting' = {} /\ Tallied' = {} /\ \A w \in Workers : ~InHand(w)'
  BY <1>1 DEF Counting, Tallied, InHand
<1>3. /\ checkpoint' = cp /\ completed' = Cardinality(cp.done) + 0
      /\ success' = cp.success /\ failure' = cp.failure
      /\ pending' = getPendingDomains(idx, cp.done)
      /\ UNCHANGED <<snap, tmp, ckpt>>
      /\ (phase' = "closed" /\ pending' = {}) \/ phase' = "running"
  <2>1. Cardinality(cp.done) \in Nat
    BY CardinalityNat DEF Snapshot
  <2> QED BY <2>1 DEF Begin, AlreadyCompleted
<1>4. \A i \in Index : Batch[i] \in cp.done \/ i \in pending'
  BY <1>3 DEF getPendingDomains
<1>5. TasksOnce'
  BY <1>2, <1>3 DEF TasksOnce, getPendingDomains
<1>6. Cardinality({}) = 0
  BY FS_EmptySet
<1>7. CountsMatch'
  <2>1. phase' = "closed" => Domains \subseteq checkpoint'.done
    BY <1>3, <1>4 DEF Domains
  <2> QED BY <1>2, <1>3, <1>4, <1>6, <2>1 DEF CountsMatch
<1>8. TalliesCover'
  <2>1. Cardinality(cp.done) \in Nat /\ cp.success \in Nat /\ cp.failure \in Nat
    BY CardinalityNat DEF Snapshot
  <2>2. success' + failure' >= Cardinality(cp.done) + 0
    BY <1>3, <2>1 DEF Covers
  <2> QED BY <1>2, <1>3, <1>6, <2>2 DEF Accounts, TalliesCover, Covers
<1> QED BY <1>5, <1>7, <1>8 DEF Accounts

LEMMA AccountsStart == IInv /\ Accounts /\ (Process \/ ResumeFromCheckpoint) => Accounts'
<1> SUFFICES ASSUME IInv, Accounts, Process \/ ResumeFromCheckpoint PROVE Accounts'
  OBVIOUS
<1>1. ckpt.cp \in Snapshot /\ Covers(ckpt.cp)
  BY DEF IInv, TypeOK, FileState, Accounts, TalliesCover
<1>2. CASE Process
  BY <1>1, <1>2, NewCheckpointType, NewCovers, AccountsBegin DEF Process
<1>3. CASE ResumeFromCheckpoint
  <2> DEFINE left == getPendingDomains(Index, ckpt.cp.done)
  <2>1. left \subseteq Index /\ \A i \in Index \ left : Batch[i] \in ckpt.cp.done
    BY DEF getPendingDomains
  <2>2. CASE left # {}
    BY <1>1, <1>3, <2>1, <2>2, AccountsBegin DEF ResumeFromCheckpoint
  <2>3. CASE left = {}
    <3>1. /\ phase = "idle" /\ phase' = "open" /\ checkpoint' = ckpt.cp
          /\ UNCHANGED <<pending, pc, task, snap, tmp, ckpt>>
      BY <1>3, <2>3 DEF ResumeFromCheckpoint
    <3>2. \A w \in Workers : pc[w] = "exit"
      BY <3>1, StepTypes DEF IInv, Delivery, TasksAccounted, At
    <3>3. DistinctBatch => TasksOnce' /\ CountsMatch'
      BY <3>1, <3>2 DEF Accounts, TasksOnce, CountsMatch, InHand
    <3>4. TalliesCover'
      BY <1>1, <3>1 DEF Accounts, TalliesCover, Covers
    <3> QED BY <3>3, <3>4 DEF Accounts
  <2> QED BY <2>2, <2>3
<1> QED BY <1>2, <1>3

(* What a step of a worker leaves to the others.                            *)
LEMMA WorkLeaves ==
  ASSUME IInv, NEW w \in Workers, Work(w)
  PROVE  /\ phase = "running" /\ UNCHANGED <<phase, cancelled, snap, tmp, ckpt>>
         /\ \A v \in Workers : v # w => pc'[v] = pc[v] /\ task'[v] = task[v]
<1>1. phase = "running" /\ UNCHANGED <<phase, cancelled, snap, tmp, ckpt>>
  BY DEF IInv, Delivery, NoSendOnClosed, Work, At, TakeTask, LeaveLoop, BeginQuery, QueryDomain,
         SendResult, CountCompleted, Tally, Record, CheckInterval
<1>2. pc \in [Savers -> Step] /\ task \in [Workers -> Index]
  BY DEF IInv, TypeOK
<1>3. \A v \in Workers : v # w => pc'[v] = pc[v]
  BY <1>2, StepTypes
  DEF Work, Goto, TakeTask, LeaveLoop, BeginQuery, QueryDomain, SendResult, CountCompleted,
      Tally, Record, CheckInterval
<1>4. task' = task \/ \E i \in Index : task' = [task EXCEPT ![w] = i]
  BY BatchFinite
  DEF Work, TakeTask, LeaveLoop, BeginQuery, QueryDomain, SendResult, CountCompleted,
      Tally, Record, CheckInterval, Release, IInv, TypeOK
<1> QED BY <1>1, <1>2, <1>3, <1>4

(* The ways a worker goes: it takes a task, gives one up when cancelled, or *)
(* when it is recorded, or goes on with it.                                 *)
LEMMA OnceWork ==
  ASSUME DistinctBatch, IInv, TasksOnce, NEW w \in Workers, Work(w)
  PROVE  TasksOnce'
<1> USE StepTypes DEF TasksOnce
<1>1. /\ phase = "running" /\ phase' = "running"
      /\ \A v \in Workers : v # w => pc'[v] = pc[v] /\ task'[v] = task[v]
  BY WorkLeaves
<1>2. /\ pc \in [Savers -> Step] /\ task \in [Workers -> Index] /\ pending \subseteq Index
  BY DEF IInv, TypeOK
<1>3. CASE TakeTask(w)
  <2>1. PICK i \in pending : pending' = pending \ {i} /\ task' = [task EXCEPT ![w] = i]
    BY <1>3 DEF TakeTask
  <2>2. task'[w] = i /\ pc'[w] = "taken" /\ UNCHANGED checkpoint
    BY <1>2, <1>3, <2>1 DEF TakeTask, Goto
  <2>3. \A v \in Workers : v # w => InHand(v)' = InHand(v)
    BY <1>1 DEF InHand
  <2>4. \A v \in Workers : v # w /\ InHand(v) => task[v] # i
    BY <2>1
  <2>5. \A u, v \in Workers : InHand(u)' /\ InHand(v)' /\ task'[u] = task'[v] => u = v
    BY <1>1, <2>2, <2>3, <2>4
  <2>6. \A v \in Workers : InHand(v)' =>
          task'[v] \notin pending' /\ Batch[task'[v]] \notin checkpoint'.done
    BY <1>1, <2>1, <2>2, <2>3
  <2> QED BY <1>1, <2>1, <2>2, <2>5, <2>6
<1>4. CASE /\ UNCHANGED <<pending, checkpoint>>
           /\ InHand(w)' => InHand(w) /\ task'[w] = task[w]
  <2>1. \A v \in Workers : InHand(v)' => InHand(v) /\ task'[v] = task[v]
    BY <1>1, <1>4 DEF InHand
  <2> QED BY <1>1, <1>4, <2>1
<1>5. CASE Record(w)
  <2>1. /\ UNCHANGED pending /\ checkpoint'.done = checkpoint.done \cup {Batch[task[w]]}
        /\ InHand(w) /\ ~InHand(w)'
    BY <1>2, <1>5 DEF Record, Marked, At, Goto, InHand
  <2>2. \A v \in Workers : InHand(v)' => v # w /\ InHand(v) /\ task'[v] = task[v]
    BY <1>1, <2>1 DEF InHand
  <2>3. \A v \in Workers : InHand(v)' => Batch[task[v]] # Batch[task[w]]
    BY <1>2, <2>1, <2>2 DEF DistinctBatch
  <2>4. \A i \in pending : Batch[i] # Batch[task[w]]
    BY <1>2, <2>1 DEF DistinctBatch
  <2> QED BY <1>1, <2>1, <2>2, <2>3, <2>4
<1>6. CASE LeaveLoop(w) \/ BeginQuery(w) \/ QueryDomain(w) \/ SendResult(w)
             \/ CountCompleted(w) \/ Tally(w) \/ CheckInterval(w)
  <2>1. UNCHANGED <<pending, checkpoint>>
    BY <1>6 DEF LeaveLoop, BeginQuery, QueryDomain, SendResult, CountCompleted, Tally, CheckInterval
  <2>2. InHand(w)' => InHand(w) /\ task'[w] = task[w]
    BY <1>2, <1>6
    DEF LeaveLoop, BeginQuery, QueryDomain, SendResult, CountCompleted, Tally, CheckInterval,
        InHand, At, Goto
  <2> QED BY <1>4, <2>1, <2>2
<1> QED BY <1>3, <1>5, <1>6 DEF Work

(* The sets of workers between two counts change by one worker at most.     *)
LEMMA CountingChanges ==
  ASSUME IInv, NEW w \in Workers, Work(w)
  PROVE  /\ CountCompleted(w) => w \notin Counting /\ Counting' = Counting \cup {w}
                                  /\ Tallied' = Tallied
         /\ Tally(w) => w \notin Tallied /\ Counting' = Counting /\ Tallied' = Tallied \cup {w}
         /\ Record(w) => /\ w \in Counting /\ Counting' = Counting \ {w}
                         /\ w \in Tallied /\ Tallied' = Tallied \ {w}
         /\ ~ (CountCompleted(w) \/ Tally(w) \/ Record(w)) =>
              Counting' = Counting /\ Tallied' = Tallied
<1> USE StepTypes DEF Counting, Tallied
<1>1. \A v \in Workers : v # w => pc'[v] = pc[v]
  BY WorkLeaves
<1>2. pc \in [Savers -> Step]
  BY DEF IInv, TypeOK
<1>3. CountCompleted(w) => pc[w] = "count" /\ pc'[w] = "tally"
  BY <1>2 DEF CountCompleted, At, Goto
<1>4. Tally(w) => pc[w] = "tally" /\ pc'[w] = "record"
  BY <1>2 DEF Tally, At, Goto
<1>5. Record(w) => pc[w] = "record" /\ pc'[w] = "check"
  BY <1>2 DEF Record, At, Goto
<1>6. ~ (CountCompleted(w) \/ Tally(w) \/ Record(w)) =>
        pc[w] \notin {"tally", "record"} /\ pc'[w] \notin {"tally", "record"}
  BY <1>2 DEF Work, TakeTask, LeaveLoop, BeginQuery, QueryDomain, SendResult, CheckInterval, At, Goto
<1>7. CASE CountCompleted(w)
  BY <1>1, <1>3, <1>4, <1>5, <1>7
<1>8. CASE Tally(w)
  BY <1>1, <1>3, <1>4, <1>5, <1>8
<1>9. CASE Record(w)
  BY <1>1, <1>3, <1>4, <1>5, <1>9
<1>10. CASE ~ (CountCompleted(w) \/ Tally(w) \/ Record(w))
  BY <1>1, <1>6, <1>10
<1> QED BY <1>7, <1>8, <1>9, <1>10

LEMMA CountsWork ==
  ASSUME DistinctBatch, IInv, TasksOnce, CountsMatch, NEW w \in Workers, Work(w)
  PROVE  CountsMatch'
<1> USE StepTypes
<1>1. /\ phase = "running" /\ phase' = "running" /\ cancelled' = cancelled
      /\ \A v \in Workers : v # w => pc'[v] = pc[v] /\ task'[v] = task[v]
  BY WorkLeaves
<1>2. /\ pc \in [Savers -> Step] /\ task \in [Workers -> Index] /\ pending \subseteq Index
      /\ checkpoint.done \in SUBSET Domains
  BY DEF IInv, TypeOK, Snapshot
<1>3. completed = Cardinality(checkpoint.done) + Cardinality(Counting)
  BY <1>1 DEF CountsMatch
<1>4. /\ IsFiniteSet(Counting) /\ Cardinality(Counting) \in Nat
      /\ IsFiniteSet(checkpoint.done) /\ Cardinality(checkpoint.done) \in Nat
  BY <1>2, WorkerSets, BatchFinite, FS_Subset, FS_CardinalityType DEF Counting
<1>5. completed' = Cardinality(checkpoint'.done) + Cardinality(Counting')
  <2>1. CASE CountCompleted(w)
    <3>1. completed' = completed + 1 /\ checkpoint' = checkpoint
      BY <2>1 DEF CountCompleted
    <3>2. Cardinality(Counting') = Cardinality(Counting) + 1
      BY <1>4, <2>1, CountingChanges, FS_AddElement
    <3> QED BY <1>3, <1>4, <3>1, <3>2
  <2>2. CASE Record(w)
    <3>1. completed' = completed /\ checkpoint'.done = checkpoint.done \cup {Batch[task[w]]}
      BY <2>2 DEF Record, Marked
    <3>2. Batch[task[w]] \notin checkpoint.done
      BY <2>2 DEF Record, At, TasksOnce, InHand
    <3>3. Cardinality(checkpoint'.done) = Cardinality(checkpoint.done) + 1
      BY <1>4, <3>1, <3>2, FS_AddElement
    <3>4. Cardinality(Counting') = Cardinality(Counting) - 1
      BY <1>4, <2>2, CountingChanges, FS_RemoveElement
    <3> QED BY <1>3, <1>4, <3>1, <3>3, <3>4
  <2>3. CASE ~ CountCompleted(w) /\ ~ Record(w)
    <3>1. UNCHANGED <<completed, checkpoint>>
      BY <2>3 DEF Work, TakeTask, LeaveLoop, BeginQuery, QueryDomain, SendResult, Tally, CheckInterval
    <3>2. Counting' = Counting
      BY <2>3, CountingChanges
    <3> QED BY <1>3, <3>1, <3>2
  <2> QED BY <2>1, <2>2, <2>3
<1>6. ASSUME ~cancelled, NEW i \in Index
      PROVE  \/ Batch[i] \in checkpoint'.done \/ i \in pending'
             \/ \E v \in Workers : InHand(v)' /\ task'[v] = i
  <2>1. \/ Batch[i] \in checkpoint.done \/ i \in pending
        \/ \E v \in Workers : InHand(v) /\ task[v] = i
    BY <1>1, <1>6 DEF CountsMatch
  <2>2. checkpoint.done \subseteq checkpoint'.done
    BY DEF Work, TakeTask, LeaveLoop, BeginQuery, QueryDomain, SendResult, CountCompleted,
           Tally, Record, Marked, CheckInterval
  <2>3. CASE i \in pending
    <3>1. CASE TakeTask(w)
      <4>1. PICK j \in pending : pending' = pending \ {j} /\ task' = [task EXCEPT ![w] = j]
        BY <3>1 DEF TakeTask
      <4>2. InHand(w)' /\ task'[w] = j
        BY <1>2, <3>1, <4>1 DEF TakeTask, Goto, InHand
      <4> QED BY <2>3, <4>1, <4>2
    <3>2. CASE ~TakeTask(w)
      <4>1. pending' = pending
        BY <3>2 DEF Work, LeaveLoop, BeginQuery, QueryDomain, SendResult, CountCompleted,
                    Tally, Record, CheckInterval
      <4> QED BY <2>3, <4>1
    <3> QED BY <3>1, <3>2
  <2>4. ASSUME NEW v \in Workers, InHand(v), task[v] = i, v # w
        PROVE  \E u \in Workers : InHand(u)' /\ task'[u] = i
    BY <1>1, <2>4 DEF InHand
  <2>5. CASE InHand(w) /\ task[w] = i
    <3>1. CASE Record(w)
      BY <2>5, <3>1 DEF Record, Marked
    <3>2. CASE ~Record(w)
      <4>1. InHand(w)' /\ task'[w] = task[w]
        BY <1>2, <1>6, <2>5, <3>2
        DEF Work, TakeTask, LeaveLoop, BeginQuery, QueryDomain, SendResult, CountCompleted,
            Tally, CheckInterval, InHand, At, Goto, CtxDone
      <4> QED BY <2>5, <4>1
    <3> QED BY <3>1, <3>2
  <2> QED BY <2>1, <2>2, <2>3, <2>4, <2>5
<1> QED BY <1>1, <1>5, <1>6 DEF CountsMatch

LEMMA TalliesWork ==
  ASSUME IInv, TalliesCover, NEW w \in Workers, Work(w)
  PROVE  TalliesCover'
<1>1. /\ phase = "running" /\ UNCHANGED <<phase, snap, tmp, ckpt>>
      /\ \A v \in Workers : v # w => pc'[v] = pc[v]
  BY WorkLeaves
<1>2. /\ checkpoint.done \in SUBSET Domains /\ task \in [Workers -> Index]
      /\ success \in Nat /\ failure \in Nat
  BY DEF IInv, TypeOK, Snapshot
<1>3. success + failure >= Cardinality(checkpoint.done) + Cardinality(Tallied)
  BY <1>1 DEF TalliesCover
<1>4. /\ IsFiniteSet(Tallied) /\ Cardinality(Tallied) \in Nat
      /\ IsFiniteSet(checkpoint.done) /\ Cardinality(checkpoint.done) \in Nat
  BY <1>2, WorkerSets, BatchFinite, FS_Subset, FS_CardinalityType DEF Tallied
<1>5. CASE Tally(w)
  <2>1. success' + failure' = success + failure + 1 /\ checkpoint' = checkpoint
    BY <1>2, <1>5 DEF Tally
  <2>2. Cardinality(Tallied') = Cardinality(Tallied) + 1
    BY <1>4, <1>5, CountingChanges, FS_AddElement
  <2>3. success' + failure' >= Cardinality(checkpoint'.done) + Cardinality(Tallied')
    BY <1>2, <1>3, <1>4, <2>1, <2>2
  <2> QED BY <1>1, <2>1, <2>3 DEF TalliesCover, Covers
<1>6. CASE Record(w)
  <2>1. /\ checkpoint'.done = checkpoint.done \cup {Batch[task[w]]}
        /\ checkpoint'.success = success /\ checkpoint'.failure = failure
        /\ UNCHANGED <<success, failure>>
    BY <1>6 DEF Record, Marked
  <2>2. /\ Cardinality(checkpoint'.done) \in Nat
        /\ Cardinality(checkpoint'.done) <= Cardinality(checkpoint.done) + 1
    <3> DEFINE D == checkpoint.done  d == Batch[task[w]]
    <3>1. IsFiniteSet(D \cup {d})
          /\ Cardinality(D \cup {d}) = IF d \in D THEN Cardinality(D) ELSE Cardinality(D) + 1
      BY <1>4, FS_AddElement
    <3> HIDE DEF D, d
    <3>2. Cardinality(D) \in Nat /\ checkpoint'.done = D \cup {d}
      BY <1>4, <2>1 DEF D, d
    <3>3. Cardinality(D \cup {d}) \in Nat /\ Cardinality(D \cup {d}) <= Cardinality(D) + 1
      BY <3>1, <3>2
    <3> QED BY <3>2, <3>3 DEF D
  <2>3. Cardinality(Tallied') = Cardinality(Tallied) - 1 /\ Cardinality(Tallied) >= 1
    <3>1. Cardinality(Tallied') = Cardinality(Tallied) - 1
      BY <1>4, <1>6, CountingChanges, FS_RemoveElement
    <3>2. Tallied # {}
      BY <1>6, CountingChanges
    <3> QED BY <1>4, <3>1, <3>2, FS_EmptySet
  <2>4. success' + failure' >= Cardinality(checkpoint'.done) + Cardinality(Tallied')
    BY <1>2, <1>3, <1>4, <2>1, <2>2, <2>3
  <2>5. checkpoint'.success + checkpoint'.failure >= Cardinality(checkpoint'.done)
    BY <1>2, <1>3, <1>4, <2>1, <2>2, <2>3
  <2> QED BY <1>1, <2>4, <2>5 DEF TalliesCover, Covers
<1>7. CASE ~Tally(w) /\ ~Record(w)
  <2>1. UNCHANGED <<success, failure, checkpoint>>
    BY <1>7 DEF Work, TakeTask, LeaveLoop, BeginQuery, QueryDomain, SendResult, CountCompleted,
                CheckInterval
  <2>2. Tallied' = Tallied
    BY <1>7, CountingChanges
  <2> QED BY <1>1, <1>3, <2>1, <2>2 DEF TalliesCover, Covers
<1> QED BY <1>5, <1>6, <1>7

(* Where no worker takes, counts or records, and no checkpoint is written.  *)
LEMMA HandsUnchanged ==
  ASSUME TasksOnce, CountsMatch, UNCHANGED <<pending, checkpoint, task, completed>>,
         \A w \in Workers : pc'[w] = pc[w] \/ (~InHand(w) /\ ~InHand(w)'),
         phase' = phase, cancelled => cancelled'
  PROVE  TasksOnce' /\ CountsMatch'
<1>1. \A w \in Workers : InHand(w)' = InHand(w)
  BY DEF InHand
<1>2. Counting' = Counting
  BY DEF Counting, InHand
<1>3. TasksOnce'
  BY <1>1 DEF TasksOnce
<1>4. CountsMatch'
  BY <1>1, <1>2 DEF CountsMatch
<1> QED BY <1>3, <1>4

LEMMA AccountsSave ==
  ASSUME IInv, Accounts, NEW s \in Savers, Save(s)
  PROVE  Accounts'
<1> USE StepTypes
<1>1. pc \in [Savers -> Step] /\ snap \in [Savers -> Snapshot] /\ fd \in [Savers -> {"closed", "tmp", "ckpt", "orphan"}]
  BY DEF IInv, TypeOK
<1>2. UNCHANGED <<phase, cancelled, pending, checkpoint, task, completed, success, failure>>
  BY DEF Save, Marshal, OpenTmp, WriteTmp, RenameTmp, SaveFails
<1>3. /\ \A v \in Savers : v # s => pc'[v] = pc[v]
      /\ pc[s] \in SaveStep /\ pc'[s] \in SaveStep \cup {"take", "exit"}
  BY <1>1 DEF Save, Marshal, OpenTmp, WriteTmp, RenameTmp, SaveFails, At, Goto, SaveStep
<1>4. \A w \in Workers : pc'[w] = pc[w] \/ (~InHand(w) /\ ~InHand(w)')
  BY <1>3 DEF InHand, SaveStep
<1>5. Tallied' = Tallied
  BY <1>4 DEF Tallied, InHand
<1>6. Covers(Blank.cp) /\ Covers(Absent.cp)
  BY NewCovers DEF Blank, Torn, Absent
<1>7. ASSUME NEW f, NEW c, Covers(c)
      PROVE  Covers(Overlay(f, c).cp)
  BY <1>7, NewCovers DEF Overlay, Torn
<1>8. /\ \A v \in Savers : Covers(snap'[v])
      /\ Covers(tmp'.cp) /\ Covers(ckpt'.cp)
  <2> USE DEF Accounts, TalliesCover
  <2>1. CASE Marshal(s)
    BY <1>1, <2>1 DEF Marshal
  <2>2. CASE OpenTmp(s)
    BY <1>6, <2>2 DEF OpenTmp
  <2>3. CASE WriteTmp(s)
    BY <1>1, <1>7, <2>3, NewCovers DEF WriteTmp
  <2>4. CASE RenameTmp(s)
    BY <1>6, <2>4 DEF RenameTmp
  <2>5. CASE SaveFails(s)
    BY <1>1, <2>5, NewCovers DEF SaveFails
  <2> QED BY <2>1, <2>2, <2>3, <2>4, <2>5 DEF Save
<1>9. TalliesCover'
  BY <1>2, <1>5, <1>8 DEF Accounts, TalliesCover, Covers
<1>10. DistinctBatch => TasksOnce' /\ CountsMatch'
  BY <1>2, <1>4, HandsUnchanged DEF Accounts
<1> QED BY <1>9, <1>10 DEF Accounts

(* The other steps: what they leave at rest, and the end of a run.          *)
LEMMA AccountsAside ==
  ASSUME IInv, Accounts, Cancel \/ ContextDone \/ Consume \/ UNCHANGED vars
  PROVE  Accounts'
<1>1. /\ UNCHANGED <<phase, pending, checkpoint, task, completed, success, failure,
                     snap, tmp, ckpt>>
  BY DEF Cancel, ContextDone, Consume, vars
<1>1a. cancelled => cancelled'
  <2>1. CASE Cancel
    <3>1. cancelled' = (cancelled \/ phase = "running")
      BY <2>1 DEF Cancel
    <3> QED BY <3>1, Zenon
  <2>2. CASE ContextDone \/ Consume \/ UNCHANGED vars
    BY <2>2 DEF ContextDone, Consume, vars
  <2> QED BY <2>1, <2>2
<1>2. \A w \in Workers : pc'[w] = pc[w]
  BY StepTypes DEF Cancel, ContextDone, Consume, vars, Goto, IInv, TypeOK
<1>3. DistinctBatch => TasksOnce' /\ CountsMatch'
  BY <1>1, <1>1a, <1>2, HandsUnchanged DEF Accounts
<1>4. Tallied' = Tallied
  BY <1>2 DEF Tallied
<1>5. TalliesCover'
  BY <1>1, <1>4 DEF Accounts, TalliesCover, Covers
<1> QED BY <1>3, <1>5 DEF Accounts

LEMMA AccountsClose == IInv /\ Accounts /\ CloseResults => Accounts'
<1> SUFFICES ASSUME IInv, Accounts, CloseResults PROVE Accounts'
  OBVIOUS
<1>1. /\ phase = "running" /\ phase' = "closed" /\ \A w \in Workers : pc[w] = "exit"
      /\ UNCHANGED <<pending, cancelled, checkpoint, pc, task, completed, success, failure,
                     snap, tmp, ckpt>>
  BY DEF CloseResults, AllExited, At
<1>2. Counting' = Counting /\ Tallied' = Tallied /\ \A w \in Workers : ~InHand(w) /\ ~InHand(w)'
  BY <1>1 DEF Counting, Tallied, InHand
<1>3. ~cancelled => pending = {}
  BY <1>1, ConstantsAssumption DEF IInv, Delivery, TasksAccounted, At
<1>4. ASSUME DistinctBatch PROVE TasksOnce' /\ CountsMatch'
  <2>1. ~cancelled => Domains \subseteq checkpoint.done
    BY <1>1, <1>2, <1>3, <1>4 DEF Accounts, CountsMatch, Domains
  <2>2. TasksOnce'
    BY <1>1, <1>2, <1>4 DEF Accounts, TasksOnce
  <2>3. CountsMatch'
    BY <1>1, <1>2, <1>4, <2>1 DEF Accounts, CountsMatch
  <2> QED BY <2>2, <2>3
<1>5. TalliesCover'
  BY <1>1, <1>2 DEF Accounts, TalliesCover, Covers
<1> QED BY <1>4, <1>5 DEF Accounts

LEMMA AccountsCrash == IInv /\ Accounts /\ Crash => Accounts'
<1> SUFFICES ASSUME IInv, Accounts, Crash PROVE Accounts'
  OBVIOUS
<1>1. /\ phase' = "idle" /\ pending' = {} /\ checkpoint' = NewCheckpoint
      /\ snap' = [s \in Savers |-> NewCheckpoint] /\ UNCHANGED <<tmp, ckpt>>
      /\ pc' = AllAt("exit")
  BY DEF Crash
<1>2. \A w \in Workers : ~InHand(w)'
  BY <1>1, StepTypes DEF AllAt, InHand
<1>3. TasksOnce' /\ CountsMatch'
  BY <1>1, <1>2 DEF TasksOnce, CountsMatch
<1>4. Covers(checkpoint')
  BY <1>1, NewCovers
<1>5. \A s \in Savers : Covers(snap'[s])
  BY <1>1, NewCovers
<1>6. TalliesCover'
  BY <1>1, <1>4, <1>5 DEF Accounts, TalliesCover, Covers
<1> QED BY <1>3, <1>6 DEF Accounts

LEMMA AccountsStep == IInv /\ Accounts /\ [Next]_vars => Accounts'
<1> SUFFICES ASSUME IInv, Accounts, [Next]_vars PROVE Accounts'
  OBVIOUS
<1>1. CASE Process \/ ResumeFromCheckpoint
  BY <1>1, AccountsStart
<1>2. ASSUME NEW w \in Workers, Work(w) PROVE Accounts'
  <2>1. DistinctBatch => TasksOnce' /\ CountsMatch'
    BY <1>2, OnceWork, CountsWork DEF Accounts
  <2>2. TalliesCover'
    BY <1>2, TalliesWork DEF Accounts
  <2> QED BY <2>1, <2>2 DEF Accounts
<1>3. CASE \E s \in Savers : Save(s)
  BY <1>3, AccountsSave
<1>4. CASE Cancel \/ ContextDone \/ Consume \/ UNCHANGED vars
  BY <1>4, AccountsAside
<1>5. CASE CloseResults \/ Crash
  BY <1>5, AccountsClose, AccountsCrash
<1> QED BY <1>1, <1>2, <1>3, <1>4, <1>5 DEF Next, Finished

LEMMA AccountsCorrect == Spec => []Accounts
<1> QED BY AccountsInit, InvCorrect, AccountsStep, PTL DEF Spec

(* On a list without duplicates, no domain is queried again once the        *)
(* checkpoint has it, and no two workers hold the same task.                *)
THEOREM QueriedOnce == Spec => []NeverQueriedTwice
<1>1. \A w \in Workers : Held(w) <=> InHand(w)
  BY DEF Held, InHand, WorkerStep
<1>2. Accounts => NeverQueriedTwice
  BY <1>1 DEF Accounts, TasksOnce, NeverQueriedTwice
<1> QED BY <1>2, AccountsCorrect, PTL

(* A list without duplicates has as many domains as it is long.             *)
LEMMA DistinctCount == DistinctBatch => Cardinality(Domains) = Len(Batch)
<1> SUFFICES ASSUME DistinctBatch PROVE Cardinality(Domains) = Len(Batch)
  OBVIOUS
<1> DEFINE f == [i \in Index |-> Batch[i]]
<1>1. f \in Surjection(Index, Domains)
  BY DEF Surjection, Domains
<1>2. f \in Injection(Index, Domains)
  BY BatchFinite DEF Injection, IsInjective, DistinctBatch
<1>2a. Cardinality(Domains) = Cardinality(Index)
  BY <1>1, <1>2, BatchFinite, FS_Surjection
<1>3. Len(Batch) \in Nat
  BY ConstantsAssumption
<1>4. Cardinality(Index) = Len(Batch)
  BY <1>3, BatchFinite, FS_Interval
<1> QED BY <1>2a, <1>4

(* What is counted, recorded and saved stays in step: Completed is ahead of *)
(* the checkpoint by the workers between the two, the saved counts are never *)
(* behind the saved domains, and an uncancelled whole run leaves nothing.   *)
THEOREM CountsAgree == Spec => []CheckpointAgrees
<1>1. Accounts => CompletedMatchesCheckpoint
  BY DEF Accounts, CountsMatch, CompletedMatchesCheckpoint, Counting
<1>2. Accounts => TalliesCoverCheckpoint
  BY DEF Accounts, TalliesCover, Covers, TalliesCoverCheckpoint
<1>3. ASSUME IInv, Accounts PROVE EndedTotals
  <2> SUFFICES ASSUME DistinctBatch, phase = "closed", ~cancelled, totalTasks = Len(Batch)
               PROVE  GetStats.remaining = 0
    BY DEF EndedTotals
  <2>1. checkpoint.done = Domains
    BY <1>3 DEF IInv, TypeOK, Snapshot, Accounts, CountsMatch
  <2>2. Counting = {}
    BY <1>3 DEF IInv, Delivery, NoSendOnClosed, At, Counting
  <2>3. completed = Cardinality(Domains) + Cardinality({})
    BY <1>3, <2>1, <2>2 DEF Accounts, CountsMatch
  <2>4. completed = Len(Batch)
    <3>1. Len(Batch) \in Nat
      BY ConstantsAssumption
    <3> QED BY <2>3, <3>1, DistinctCount, FS_EmptySet
  <2> QED BY <2>4, ConstantsAssumption DEF GetStats
<1> QED BY <1>1, <1>2, <1>3, InvCorrect, AccountsCorrect, PTL DEF CheckpointAgrees
-----------------------------------------------------------------------------
(* One saver: a single worker, and nobody calls Cancel.                     *)
OneSaver == (\A v, w \in Workers : v = w) /\ "Cancel" \notin Cancels

(* What the checkpoint file has is in the checkpoint of the run, and in     *)
(* what a save under way is about to put in its place.                      *)
FileInCheckpoint ==
  /\ ckpt.cp.done # {} => Loadable
  /\ phase # "idle" => ckpt.cp.done \subseteq checkpoint.done

SaveInOrder(w) ==
  /\ pc[w] \in SaveStep => Checkpointing
  /\ pc[w] \in {"open", "write"} =>
       ckpt.cp.done \subseteq snap[w].done /\ snap[w].done \subseteq checkpoint.done
  /\ pc[w] = "write" => fd[w] = "tmp" /\ tmp = Blank
  /\ pc[w] = "rename" =>
       /\ tmp.kind = "whole"
       /\ ckpt.cp.done \subseteq tmp.cp.done /\ tmp.cp.done \subseteq checkpoint.done

FileInv ==
  FileInCheckpoint /\ pc[Caller] = "exit" /\ \A w \in Workers : SaveInOrder(w)

LEMMA FileInit == Init => FileInv
<1> SUFFICES ASSUME Init PROVE FileInv
  OBVIOUS
<1>1. \A s \in Savers : pc[s] = "exit"
  BY DEF Init, AllAt
<1> QED BY <1>1, StepTypes
        DEF Init, FileInv, FileInCheckpoint, SaveInOrder, SaveStep, Absent, NewCheckpoint

(* A run starts on all that the file has.                                   *)
LEMMA FileBegins ==
  ASSUME FileInv, phase = "idle", \A s \in Savers : pc[s] = "exit", UNCHANGED saving,
         ckpt.cp.done \subseteq checkpoint'.done,
         pc' = pc \/ pc' = AllAt("take")
  PROVE  FileInv'
<1>1. pc'[Caller] = "exit" /\ \A w \in Workers : pc'[w] \in {"exit", "take"}
  BY StepTypes DEF AllAt
<1>2. Loadable' = Loadable BY DEF Loadable
<1> QED BY <1>1, <1>2 DEF FileInv, FileInCheckpoint, SaveInOrder, SaveStep

LEMMA FileStarts ==
  ASSUME IInv, FileInv, Process \/ ResumeFromCheckpoint PROVE FileInv'
<1>1. phase = "idle" /\ \A s \in Savers : pc[s] = "exit"
  BY DEF Process, ResumeFromCheckpoint, IInv, Delivery, TasksAccounted, At
<1>2. UNCHANGED saving /\ (pc' = pc \/ pc' = AllAt("take"))
  BY DEF Process, ResumeFromCheckpoint, Begin
<1>3. ckpt.cp.done \subseteq checkpoint'.done
  <2>1. ~Loadable => ckpt.cp.done = {} BY DEF FileInv, FileInCheckpoint
  <2>2. CASE Process
    BY <2>1, <2>2 DEF Process, Begin
  <2>3. CASE ResumeFromCheckpoint
    BY <2>3 DEF ResumeFromCheckpoint, Begin
  <2> QED BY <2>2, <2>3
<1> QED BY <1>1, <1>2, <1>3, FileBegins

(* A worker at work only adds to the checkpoint, and saves where a file is  *)
(* configured.                                                              *)
LEMMA FileWork ==
  ASSUME IInv, FileInv, NEW w \in Workers, Work(w) PROVE FileInv'
<1>1. pc \in [Savers -> Step] /\ checkpoint \in Snapshot
  BY DEF IInv, TypeOK
<1>2. /\ UNCHANGED <<phase, saving>>
      /\ pc[w] \in WorkerStep
      /\ \A s \in Savers : s # w => pc'[s] = pc[s]
      /\ pc'[w] \in SaveStep => pc'[w] = "marshal" /\ Checkpointing
  BY <1>1, StepTypes
     DEF Work, TakeTask, LeaveLoop, BeginQuery, QueryDomain, SendResult, CountCompleted, Tally,
         Record, CheckInterval, At, Goto, WorkerStep, SaveStep
<1>3. checkpoint.done \subseteq checkpoint'.done
  BY DEF Work, TakeTask, LeaveLoop, BeginQuery, QueryDomain, SendResult, CountCompleted, Tally,
         Record, Marked, CheckInterval
<1>4. FileInCheckpoint' /\ pc'[Caller] = "exit"
  <2>1. Loadable' = Loadable BY <1>2 DEF Loadable
  <2>2. Caller # w /\ Caller \in Savers BY StepTypes
  <2> QED BY <1>2, <1>3, <2>1, <2>2 DEF FileInv, FileInCheckpoint
<1>5. ASSUME NEW v \in Workers PROVE SaveInOrder(v)'
  <2>1. SaveInOrder(v) BY DEF FileInv
  <2>2. CASE v = w BY <1>2, <2>2 DEF SaveInOrder, SaveStep
  <2>3. CASE v # w
    BY <1>2, <1>3, <2>1, <2>3, StepTypes DEF SaveInOrder
  <2> QED BY <2>2, <2>3
<1> QED BY <1>4, <1>5 DEF FileInv

(* The file stays, or a whole one with all that it had takes its place.     *)
FileReplaced ==
  /\ ckpt.cp.done \subseteq ckpt'.cp.done
  /\ ckpt' = ckpt \/ ckpt'.kind = "whole"

(* Each step of the one save that may be under way; the file changes when   *)
(* it is renamed, and then to what has all that it had.                     *)
LEMMA FileSave ==
  ASSUME OneSaver, IInv, FileInv, NEW s \in Savers, Save(s)
  PROVE  FileInv' /\ FileReplaced
<1>1. /\ pc \in [Savers -> Step] /\ snap \in [Savers -> Snapshot]
      /\ fd \in [Savers -> {"closed", "tmp", "ckpt", "orphan"}]
  BY DEF IInv, TypeOK
<1>2. s \in Workers /\ s # Caller /\ SaveInOrder(s) /\ pc[s] \in SaveStep /\ Checkpointing
  BY StepTypes DEF Save, Marshal, OpenTmp, WriteTmp, RenameTmp, SaveFails, At, SaveStep, FileInv,
                   SaveInOrder, Savers
<1>3. \A w \in Workers : w = s BY <1>2 DEF OneSaver
<1>4. phase # "idle" /\ ckpt.cp.done \subseteq checkpoint.done
  BY <1>2, StepTypes
     DEF IInv, Delivery, TasksAccounted, At, SaveStep, FileInv, FileInCheckpoint
<1>5. UNCHANGED <<phase, checkpoint>> /\ pc'[Caller] = pc[Caller]
  BY <1>1, <1>2, StepTypes DEF Save, Marshal, OpenTmp, WriteTmp, RenameTmp, SaveFails, Goto
<1>6. ASSUME UNCHANGED ckpt, SaveInOrder(s)'
      PROVE  FileInv' /\ FileReplaced
  BY <1>3, <1>5, <1>6 DEF FileInv, FileInCheckpoint, Loadable, FileReplaced
<1>7. CASE Marshal(s)
  <2>1. pc'[s] = "open" /\ snap'[s] = checkpoint /\ ckpt' = ckpt
    BY <1>1, <1>7 DEF Marshal, Goto
  <2> QED BY <1>2, <1>4, <1>5, <1>6, <2>1 DEF SaveInOrder
<1>8. CASE OpenTmp(s)
  <2>1. /\ pc[s] = "open" /\ pc'[s] = "write" /\ snap' = snap /\ ckpt' = ckpt
        /\ fd'[s] = "tmp" /\ tmp' = Blank
    BY <1>1, <1>8 DEF OpenTmp, Goto, At
  <2>2. SaveInOrder(s)'
    BY <1>2, <1>5, <2>1 DEF SaveInOrder, Blank, Torn
  <2> QED BY <1>6, <2>1, <2>2
<1>9. CASE WriteTmp(s)
  <2>1. pc[s] = "write" /\ fd[s] = "tmp" /\ tmp = Blank
    BY <1>2, <1>9 DEF WriteTmp, At, SaveInOrder
  <2>2. pc'[s] = "rename" /\ ckpt' = ckpt /\ tmp' = Overlay(tmp, snap[s])
    BY <1>1, <1>9, <2>1 DEF WriteTmp, Goto
  <2>3. Cardinality(snap[s].done) \in Nat
    BY <1>1, CardinalityNat DEF Snapshot
  <2>4. tmp'.kind = "whole" /\ tmp'.cp = snap[s]
    BY <2>1, <2>2, <2>3 DEF Overlay, Blank, Torn
  <2>5. SaveInOrder(s)'
    BY <1>2, <1>5, <2>1, <2>2, <2>4 DEF SaveInOrder
  <2> QED BY <1>6, <2>2, <2>5
<1>10. CASE RenameTmp(s)
  <2>1. /\ tmp.kind = "whole" /\ ckpt.cp.done \subseteq tmp.cp.done
        /\ tmp.cp.done \subseteq checkpoint.done
    BY <1>2, <1>10 DEF RenameTmp, At, SaveInOrder
  <2>2. ckpt' = tmp /\ pc'[s] = "take"
    BY <1>1, <1>2, <1>10, <2>1 DEF RenameTmp, Goto
  <2>3. FileInCheckpoint'
    BY <1>2, <1>5, <2>1, <2>2 DEF FileInCheckpoint, Loadable
  <2>4. SaveInOrder(s)'
    BY <2>2 DEF SaveInOrder, SaveStep
  <2> QED BY <1>3, <1>5, <2>1, <2>2, <2>3, <2>4 DEF FileInv, FileReplaced
<1>11. CASE SaveFails(s)
  <2>1. pc'[s] = "take" /\ ckpt' = ckpt
    BY <1>1, <1>2, <1>11 DEF SaveFails, Goto
  <2> QED BY <1>6, <2>1 DEF SaveInOrder, SaveStep
<1> QED BY <1>7, <1>8, <1>9, <1>10, <1>11 DEF Save

LEMMA FileCrash ==
  ASSUME IInv, FileInv, Crash PROVE FileInv'
<1>1. phase' = "idle" /\ pc' = AllAt("exit") /\ UNCHANGED files
  BY DEF Crash
<1>2. \A s \in Savers : pc'[s] = "exit" BY <1>1 DEF AllAt
<1>3. Loadable' = Loadable BY <1>1 DEF Loadable
<1> QED BY <1>1, <1>2, <1>3, StepTypes DEF FileInv, FileInCheckpoint, SaveInOrder, SaveStep

LEMMA FileAside ==
  ASSUME OneSaver, IInv, FileInv, Cancel \/ ContextDone \/ CloseResults \/ Consume \/ UNCHANGED vars
  PROVE  FileInv'
<1>1. ~Cancel BY DEF Cancel, OneSaver
<1>2. UNCHANGED <<checkpoint, pc, saving>> /\ (phase' # "idle" => phase # "idle")
  BY <1>1 DEF ContextDone, CloseResults, Consume, vars
<1>3. Loadable' = Loadable BY <1>2 DEF Loadable
<1> QED BY <1>2, <1>3 DEF FileInv, FileInCheckpoint, SaveInOrder

LEMMA FileStep ==
  ASSUME OneSaver, IInv, FileInv, [Next]_vars
  PROVE  FileInv' /\ FileReplaced
<1>1. ASSUME Process \/ ResumeFromCheckpoint PROVE FileInv' /\ ckpt' = ckpt
  BY <1>1, FileStarts DEF Process, ResumeFromCheckpoint, Begin
<1>2. ASSUME NEW w \in Workers, Work(w) PROVE FileInv' /\ ckpt' = ckpt
  BY <1>2, FileWork
     DEF Work, TakeTask, LeaveLoop, BeginQuery, QueryDomain, SendResult, CountCompleted, Tally,
         Record, CheckInterval
<1>3. ASSUME NEW s \in Savers, Save(s) PROVE FileInv' /\ FileReplaced
  BY <1>3, FileSave
<1>4. ASSUME Crash PROVE FileInv' /\ ckpt' = ckpt
  BY <1>4, FileCrash DEF Crash
<1>5. ASSUME Cancel \/ ContextDone \/ CloseResults \/ Consume \/ UNCHANGED vars
      PROVE  FileInv' /\ ckpt' = ckpt
  BY <1>5, FileAside DEF Cancel, ContextDone, CloseResults, Consume, vars
<1>6. ckpt' = ckpt => FileReplaced BY DEF FileReplaced
<1> QED BY <1>1, <1>2, <1>3, <1>4, <1>5, <1>6 DEF Next, Finished

(* Where one goroutine saves, a save never takes back a domain that the     *)
(* checkpoint file had, over any crashes, failing writes and resumptions.   *)
THEOREM FileGrows ==
  ASSUME OneSaver
  PROVE  Spec => CheckpointFileGrows
<1>1. FileInv /\ IInv /\ [Next]_vars => FileInv' /\ [ckpt.cp.done \subseteq ckpt'.cp.done]_vars
  BY FileStep DEF FileReplaced
<1>2. Spec => [][ckpt.cp.done \subseteq ckpt'.cp.done]_vars
  BY <1>1, FileInit, InvCorrect, PTL DEF Spec
<1> QED BY <1>2 DEF CheckpointFileGrows

(* Where one goroutine saves, the checkpoint file is never seen half        *)
(* written, whatever write fails and wherever the process dies: with more   *)
(* savers, who share the temporary file, it is.                             *)
THEOREM FileStaysWhole ==
  ASSUME OneSaver
  PROVE  Spec => []CheckpointFileWhole
<1>1. Init => CheckpointFileWhole
  BY DEF Init, Absent, CheckpointFileWhole
<1>2. FileInv /\ IInv /\ CheckpointFileWhole /\ [Next]_vars => FileInv' /\ CheckpointFileWhole'
  BY FileStep DEF FileReplaced, CheckpointFileWhole
<1> QED BY <1>1, <1>2, FileInit, InvCorrect, PTL DEF Spec
-----------------------------------------------------------------------------
(* The steps a worker has before it leaves or takes another task, and those *)
(* of the tasks that wait.                                                  *)
StepsLeft(step) ==
  CASE step = "exit"    -> 0
    [] step = "take"    -> 1
    [] step = "rename"  -> 2
    [] step = "write"   -> 3
    [] step = "open"    -> 4
    [] step = "marshal" -> 5
    [] step = "check"   -> 6
    [] step = "record"  -> 7
    [] step = "tally"   -> 8
    [] step = "count"   -> 9
    [] step = "send"    -> 10
    [] step = "query"   -> 11
    [] step = "taken"   -> 12

Ahead    == {x \in Workers \X (1 .. 12) : x[2] <= StepsLeft(pc[x[1]])}
WorkLeft == 12 * Cardinality(pending) + Cardinality(Ahead)

LEMMA IntervalSize ==
  /\ IsFiniteSet(1 .. 12)
  /\ IsFiniteSet(2 .. 12) /\ Cardinality(2 .. 12) = 11
<1>1. \A a, b \in Int : /\ IsFiniteSet(a .. b)
                        /\ \A n \in Int : a <= b /\ n = b - a + 1 => Cardinality(a .. b) = n
  BY FS_Interval
<1>2. 1 \in Int /\ 2 \in Int /\ 11 \in Int /\ 12 \in Int /\ 2 <= 12 /\ 11 = 12 - 2 + 1
  OBVIOUS
<1> QED BY <1>1, <1>2, Zenon

LEMMA AheadFinite ==
  ASSUME TypeOK
  PROVE  /\ IsFiniteSet(Ahead) /\ IsFiniteSet(pending)
         /\ Cardinality(Ahead) \in Nat /\ Cardinality(pending) \in Nat
<1>1. IsFiniteSet(Workers \X (1 .. 12))
  <2>1. IsFiniteSet(1 .. 12)
    BY IntervalSize, Zenon
  <2> QED BY <2>1, ConstantsAssumption, FS_Product
<1>2. Ahead \subseteq Workers \X (1 .. 12)
  BY DEF Ahead
<1> QED BY <1>1, <1>2, FS_Subset, FS_CardinalityType, BatchFinite DEF TypeOK

(* A step of a worker that takes no task.                                   *)
LEMMA StepsDown ==
  ASSUME TypeOK, NEW w \in Workers, NEW to \in Step, pending' = pending,
         pc' = [pc EXCEPT ![w] = to], StepsLeft(to) < StepsLeft(pc[w])
  PROVE  WorkLeft' < WorkLeft
<1>1. pc \in [Savers -> Step] /\ w \in Savers
  BY StepTypes DEF TypeOK
<1>2. \A step \in Step : StepsLeft(step) \in 0 .. 12
  BY DEF Step, WorkerStep, SaveStep, StepsLeft
<1>3. \A v \in Workers : pc'[v] = IF v = w THEN to ELSE pc[v]
  BY <1>1, StepTypes
<1>4. Ahead' \subseteq Ahead
  <2> SUFFICES ASSUME NEW v \in Workers, NEW k \in 1 .. 12, k <= StepsLeft(pc'[v])
               PROVE  k <= StepsLeft(pc[v])
    BY DEF Ahead
  <2>1. pc[v] \in Step
    BY <1>1, StepTypes
  <2> QED BY <1>1, <1>2, <1>3, <2>1
<1>5. <<w, StepsLeft(pc[w])>> \in Ahead \ Ahead'
  <2>1. StepsLeft(pc[w]) \in 1 .. 12
    BY <1>1, <1>2
  <2> QED BY <1>1, <1>2, <1>3, <2>1 DEF Ahead
<1>6. Cardinality(Ahead') <= Cardinality(Ahead) /\ Cardinality(Ahead') # Cardinality(Ahead)
  BY <1>4, <1>5, AheadFinite, FS_Subset
<1>7. Cardinality(Ahead') \in Nat
  BY <1>4, AheadFinite, FS_Subset, FS_CardinalityType
<1> QED BY <1>6, <1>7, AheadFinite DEF WorkLeft

(* Taking a task gives a worker eleven steps more, and the channel twelve   *)
(* less.                                                                    *)
LEMMA TaskTaken ==
  ASSUME TypeOK, NEW w \in Workers, TakeTask(w)
  PROVE  WorkLeft' < WorkLeft
<1>1. pc \in [Savers -> Step] /\ w \in Savers
  BY StepTypes DEF TypeOK
<1>2. pc[w] = "take" /\ pc' = [pc EXCEPT ![w] = "taken"]
  BY DEF TakeTask, At, Goto
<1>3. PICK i \in pending : pending' = pending \ {i}
  BY DEF TakeTask
<1> DEFINE more == {w} \X (2 .. 12)
<1>4. IsFiniteSet(more) /\ Cardinality(more) = 11
  <2>1. IsFiniteSet(2 .. 12) /\ Cardinality(2 .. 12) = 11
    BY IntervalSize, Zenon
  <2>2. IsFiniteSet({w}) /\ Cardinality({w}) = 1
    BY FS_Singleton
  <2> QED BY <2>1, <2>2, FS_Product
<1>5. Ahead' \subseteq Ahead \cup more
  <2>1. \A v \in Workers : pc'[v] = IF v = w THEN "taken" ELSE pc[v]
    BY <1>1, <1>2, StepTypes
  <2>2. StepsLeft("take") = 1
    BY DEF StepsLeft
  <2> QED BY <1>2, <2>1, <2>2 DEF Ahead
<1> HIDE DEF more
<1>6. Cardinality(Ahead') <= Cardinality(Ahead) + 11 /\ Cardinality(Ahead') \in Nat
  <2>1. IsFiniteSet(Ahead \cup more)
        /\ Cardinality(Ahead \cup more)
             = Cardinality(Ahead) + Cardinality(more) - Cardinality(Ahead \cap more)
    BY <1>4, AheadFinite, FS_Union
  <2>2. Cardinality(Ahead \cap more) \in Nat /\ Cardinality(more) \in Nat
    BY <1>4, AheadFinite, FS_Subset, FS_CardinalityType
  <2>3. Cardinality(Ahead') <= Cardinality(Ahead \cup more) /\ Cardinality(Ahead') \in Nat
    BY <1>5, <2>1, FS_Subset, FS_CardinalityType
  <2> QED BY <1>4, <2>1, <2>2, <2>3, AheadFinite
<1>7. Cardinality(pending') = Cardinality(pending) - 1
  BY <1>3, AheadFinite, FS_RemoveElement
<1> QED BY <1>6, <1>7, AheadFinite DEF WorkLeft

LEMMA WorkDown ==
  ASSUME TypeOK, NEW w \in Workers, Work(w) \/ Save(w)
  PROVE  WorkLeft' < WorkLeft
<1> DEFINE Onward == \E to \in Step : /\ pending' = pending /\ pc' = [pc EXCEPT ![w] = to]
                                      /\ StepsLeft(to) < StepsLeft(pc[w])
<1>1. w # Caller
  BY StepTypes
<1>2. CASE TakeTask(w)
  BY <1>2, TaskTaken
<1>3. ASSUME LeaveLoop(w) \/ BeginQuery(w) \/ QueryDomain(w) \/ SendResult(w) \/ CountCompleted(w)
             \/ Tally(w) \/ Record(w) \/ CheckInterval(w)
      PROVE  Onward
  BY <1>3 DEF LeaveLoop, BeginQuery, QueryDomain, SendResult, CountCompleted, Tally, Record,
              CheckInterval, At, Goto, batch, Step, WorkerStep, SaveStep, StepsLeft
<1>4. ASSUME Save(w) PROVE Onward
  BY <1>1, <1>4 DEF Save, Marshal, OpenTmp, WriteTmp, RenameTmp, SaveFails, At, Goto, batch,
              Step, WorkerStep, SaveStep, StepsLeft
<1>5. Onward => WorkLeft' < WorkLeft
  BY StepsDown
<1> HIDE DEF Onward
<1> QED BY <1>2, <1>3, <1>4, <1>5 DEF Work

(* The other steps of a run leave the workers alone.                        *)
LEMMA WorkAside ==
  ASSUME TypeOK, [Next]_vars, phase = "running", phase' = "running"
  PROVE  \/ WorkLeft' = WorkLeft
         \/ \E w \in Workers : Work(w) \/ Save(w)
<1>1. ASSUME UNCHANGED pending, \A w \in Workers : pc'[w] = pc[w] PROVE WorkLeft' = WorkLeft
  BY <1>1 DEF WorkLeft, Ahead
<1>2. pc \in [Savers -> Step] /\ Caller \notin Workers
  BY StepTypes DEF TypeOK
<1>3. ASSUME Cancel \/ ContextDone \/ CloseResults \/ Consume \/ Finished \/ UNCHANGED vars
      PROVE  UNCHANGED pending /\ \A w \in Workers : pc'[w] = pc[w]
  BY <1>2, <1>3, StepTypes
     DEF Cancel, ContextDone, CloseResults, Consume, Finished, vars, batch, Goto
<1>4. ASSUME Save(Caller) PROVE UNCHANGED pending /\ \A w \in Workers : pc'[w] = pc[w]
  BY <1>2, <1>4, StepTypes
     DEF Save, Marshal, OpenTmp, WriteTmp, RenameTmp, SaveFails, batch, Goto
<1>5. ~Process /\ ~ResumeFromCheckpoint /\ ~Crash
  BY DEF Process, ResumeFromCheckpoint, Crash
<1> QED BY <1>1, <1>3, <1>4, <1>5 DEF Next, Savers

(* At its start a run has a step for each worker and twelve for each task.  *)
LEMMA WorkStarts ==
  ASSUME TypeOK, Process \/ ResumeFromCheckpoint, phase' = "running"
  PROVE  WorkLeft' <= 12 * Len(Batch) + Cardinality(Workers)
<1>1. pending' \subseteq Index /\ pc' = AllAt("take")
  BY DEF Process, ResumeFromCheckpoint, Begin, getPendingDomains
<1>2. Ahead' = Workers \X {1}
  <2>1. \A w \in Workers : StepsLeft(pc'[w]) = 1
    BY <1>1, StepTypes DEF AllAt, StepsLeft
  <2> QED BY <2>1 DEF Ahead
<1>3. IsFiniteSet(Workers) /\ Cardinality(Workers) \in Nat
  BY ConstantsAssumption, FS_CardinalityType
<1>4. Cardinality(Workers \X {1}) = Cardinality(Workers) * 1
  <2>1. IsFiniteSet({1}) /\ Cardinality({1}) = 1
    BY FS_Singleton
  <2> QED BY <1>3, <2>1, FS_Product
<1>5. Cardinality(Index) = Len(Batch) /\ Len(Batch) \in Nat
  <2>1. Index = 1 .. Len(Batch) /\ Len(Batch) \in Nat
    BY BatchFinite, ConstantsAssumption
  <2>2. \A n \in Nat : Cardinality(1 .. n) = n
    BY FS_Interval
  <2> QED BY <2>1, <2>2
<1>6. Cardinality(pending') <= Len(Batch) /\ Cardinality(pending') \in Nat
  BY <1>1, <1>5, BatchFinite, FS_Subset, FS_CardinalityType
<1> QED BY <1>2, <1>3, <1>4, <1>5, <1>6 DEF WorkLeft

(* The goroutines of a run have no more than twelve steps for each domain   *)
(* and one for each worker; each of their steps leaves fewer, and nothing   *)
(* else gives them more: with the fairness of the goroutines, why a batch   *)
(* whose results are read ends.                                             *)
OnlyShrinks ==
  /\ \A w \in Workers : Work(w) \/ Save(w) => WorkLeft' < WorkLeft
  /\ phase = "running" /\ phase' = "running" => WorkLeft' <= WorkLeft

WorkBounded ==
  WorkLeft \in Nat /\ (phase = "running" => WorkLeft <= 12 * Len(Batch) + Cardinality(Workers))

THEOREM WorkRunsOut == Spec => [][OnlyShrinks]_vars /\ []WorkBounded
<1>1. TypeOK => WorkLeft \in Nat
  BY AheadFinite DEF WorkLeft
<1>2. TypeOK' => (WorkLeft \in Nat)'
  BY <1>1, PTL
<1>3. TypeOK /\ TypeOK' /\ [Next]_vars => OnlyShrinks
  BY <1>1, <1>2, WorkDown, WorkAside DEF OnlyShrinks
<1>4. Init => WorkBounded
  BY <1>1, TypeInit DEF Init, WorkBounded
<1>5. TypeOK /\ TypeOK' /\ WorkBounded /\ [Next]_vars => WorkBounded'
  <2> SUFFICES ASSUME TypeOK, TypeOK', WorkBounded, [Next]_vars, phase' = "running"
               PROVE  WorkLeft' <= 12 * Len(Batch) + Cardinality(Workers)
    BY <1>2 DEF WorkBounded
  <2>1. Len(Batch) \in Nat /\ Cardinality(Workers) \in Nat
    BY ConstantsAssumption, FS_CardinalityType
  <2>2. CASE phase = "running"
    BY <1>1, <1>2, <1>3, <2>1, <2>2 DEF OnlyShrinks, WorkBounded
  <2>3. CASE phase # "running"
    <3>1. Process \/ ResumeFromCheckpoint
      BY <2>3, StepTypes
         DEF Next, Work, TakeTask, LeaveLoop, BeginQuery, QueryDomain, SendResult, CountCompleted,
             Tally, Record, CheckInterval, Save, Marshal, OpenTmp, WriteTmp, RenameTmp, SaveFails,
             Cancel, ContextDone, CloseResults, Consume, Crash, Finished, vars, batch
    <3> QED BY <3>1, WorkStarts
  <2> QED BY <2>2, <2>3
<1> QED BY <1>3, <1>4, <1>5, TypeCorrect, PTL DEF Spec
=============================================================================
