----------------------------- MODULE StreamBatch -----------------------------
(***************************************************************************)
(* The streaming batch processor of pkg/whois/batch.go: a pool of workers  *)
(* that take domains from a pre-filled channel, query them, send each      *)
(* result on a bounded channel, account for it, and every so often write   *)
(* the checkpoint file from which a later process may continue.            *)
(*                                                                         *)
(* One process of the operating system runs one processor at a time; a     *)
(* crash (or an ordinary exit) loses all of its memory and keeps the two   *)
(* files.  The steps are the points at which two goroutines interleave.    *)
(***************************************************************************)
EXTENDS Integers, Sequences, FiniteSets

CONSTANTS
  Workers,            \* the worker goroutines; Concurrency is their number
  Caller,             \* the goroutine that may call Cancel()
  Batch,              \* the list of domains given to Process
  CheckpointInterval, \* a worker saves when completed is a multiple of it
  Checkpointing,      \* is config.CheckpointFile set?
  Cancels,            \* how the run may be cancelled: "Cancel", "context"
  DiskFails,          \* may a write of the checkpoint fail?
  MaxRuns             \* bound: how many processes work on the batch

ASSUME ConstantsAssumption ==
  /\ IsFiniteSet(Workers) /\ Workers # {}
  /\ Caller \notin Workers
  /\ Batch \in Seq(STRING) /\ Batch # <<>>
  /\ CheckpointInterval \in Nat \ {0}
  /\ Checkpointing \in BOOLEAN /\ Cancels \subseteq {"Cancel", "context"} /\ DiskFails \in BOOLEAN
  /\ MaxRuns \in Nat \ {0}

Index   == DOMAIN Batch                     \* a task is a position of the list
Domains == {Batch[i] : i \in Index}
Savers  == Workers \cup {Caller}
ChanCap == 2 * Cardinality(Workers)         \* make(chan ..., Concurrency*2)

VARIABLES
  phase,      \* of the processor: "idle", "running", "closed" or "open"
  pending,    \* domainChan: the positions not taken yet, lowest first
  cancelled,  \* was the context cancelled before the workers finished?
  results,    \* resultChan: the domains whose result waits for the consumer
  totalTasks, completed, success, failure,
  checkpoint, \* p.checkpoint, guarded by p.mu
  pc, task, outcome,          \* of each goroutine, worker or caller
  snap, fd,                   \* saveCheckpoint: marshalled data, open file
  tmp, ckpt,                  \* the files CheckpointFile.tmp, CheckpointFile
  runs,                       \* processes started so far
  sent                        \* history: domains whose result was ever sent

batch    == <<phase, pending, cancelled, results, runs, sent>>
counters == <<totalTasks, completed, success, failure>>
hands    == <<task, outcome>>
files    == <<tmp, ckpt>>
saving   == <<snap, fd, tmp, ckpt>>
vars     == <<batch, counters, checkpoint, pc, hands, saving>>
-----------------------------------------------------------------------------
(* Data. *)

(* What the checkpoint says: CompletedDomains and the two counts.           *)
Snapshot == [done : SUBSET Domains, success : Nat, failure : Nat]

NewCheckpoint == [done |-> {}, success |-> 0, failure |-> 0]

(* A file is absent, holds one whole JSON document, or bytes that are not   *)
(* one.  JSON grows with each completed domain, so its size is their number *)
(* plus one; a file just truncated has size 0.                              *)
FileState == [kind : {"absent", "whole", "torn"}, size : Nat, cp : Snapshot]

Absent  == [kind |-> "absent", size |-> 0, cp |-> NewCheckpoint]
Torn(n) == [kind |-> "torn", size |-> n, cp |-> NewCheckpoint]
Blank   == Torn(0)

(* One write of data at offset 0: the tail of longer old contents survives. *)
Overlay(old, data) ==
  LET n == 1 + Cardinality(data.done)
  IN  IF n >= old.size THEN [kind |-> "whole", size |-> n, cp |-> data]
                       ELSE Torn(old.size)

(* Mutations: positions counted from 0; the completed ones kept.            *)
PendingFromZero(idx, done) == {i - 1 : i \in {j \in idx : Batch[j] \notin done}}
PendingAll(idx, done) == idx

(* getPendingDomains: the tasks among idx that the checkpoint does not have *)
getPendingDomains(idx, done) == {i \in idx : Batch[i] \notin done}

Outcome    == {"ok", "failed"}
WorkerStep == {"take", "taken", "query", "send", "count", "tally", "record", "check"}
SaveStep   == {"marshal", "open", "write", "rename"}
Step       == WorkerStep \cup SaveStep \cup {"exit"}
FirstTask  == 1                             \* what task holds when it is unused

AllAt(step) == [s \in Savers |-> IF s \in Workers THEN step ELSE "exit"]
-----------------------------------------------------------------------------
(* No processor exists, and no file. *)
Init ==
  /\ phase = "idle" /\ pending = {} /\ cancelled = FALSE /\ results = <<>>
  /\ totalTasks = 0 /\ completed = 0 /\ success = 0 /\ failure = 0
  /\ checkpoint = NewCheckpoint
  /\ pc = AllAt("exit")
  /\ task = [w \in Workers |-> FirstTask]
  /\ outcome = [w \in Workers |-> "ok"]
  /\ snap = [s \in Savers |-> NewCheckpoint]
  /\ fd = [s \in Savers |-> "closed"]
  /\ tmp = Absent /\ ckpt = Absent
  /\ runs = 0 /\ sent = {}
-----------------------------------------------------------------------------
(* Starting. *)

(* The completed count a run starts from.                                   *)
AlreadyCompleted(cp) == Cardinality(cp.done)

(* The body of Process on the positions idx, with the checkpoint it loaded. *)
Begin(cp, idx) ==
  /\ runs' = runs + 1
  /\ checkpoint' = cp
  /\ totalTasks' = Cardinality(idx)
  /\ completed' = AlreadyCompleted(cp)
  /\ success' = cp.success
  /\ failure' = cp.failure
  /\ pending' = getPendingDomains(idx, cp.done)
  /\ IF pending' = {}
     THEN phase' = "closed" /\ UNCHANGED pc    \* close(resultChan); return nil
     ELSE phase' = "running" /\ pc' = AllAt("take")
  /\ UNCHANGED <<cancelled, results, sent, hands, saving>>

(* Mutation: the saved checkpoint is never loaded.                          *)
LoadableNever == FALSE

(* loadCheckpoint: an absent or unreadable file is an error.               *)
Loadable == Checkpointing /\ ckpt.kind = "whole"

(* NewStreamBatchProcessor and Process(ctx, Batch).                         *)
Process ==
  /\ phase = "idle" /\ runs < MaxRuns
  /\ Begin(IF Loadable THEN ckpt.cp ELSE NewCheckpoint, Index)

(* ResumeFromCheckpoint: with nothing left it returns the processor without *)
(* starting it, so its result channel is empty and stays open.              *)
ResumeFromCheckpoint ==
  /\ phase = "idle" /\ runs < MaxRuns
  /\ Loadable
  /\ LET left == getPendingDomains(Index, ckpt.cp.done)
     IN  IF left # {} THEN Begin(ckpt.cp, left)
         ELSE /\ phase' = "open"
              /\ checkpoint' = ckpt.cp
              /\ runs' = runs + 1
              /\ UNCHANGED <<counters, pending, cancelled, results, pc, sent, hands,
                 saving>>
-----------------------------------------------------------------------------
(* The worker loop. *)

At(s, step)   == pc[s] = step
Goto(s, step) == pc' = [pc EXCEPT ![s] = step]

(* The worker is done with its task and its result. *)
Release(w) == /\ task' = [task EXCEPT ![w] = FirstTask]
              /\ outcome' = [outcome EXCEPT ![w] = "ok"]

(* for domain := range domainChan: take the next one, or leave the loop     *)
(* once the channel is empty.  Mutation: the channel was not closed.        *)
TakeTask(w) ==
  /\ At(w, "take")
  /\ \E i \in pending :
       /\ \A j \in pending : i <= j
       /\ pending' = pending \ {i}
       /\ task' = [task EXCEPT ![w] = i]
  /\ Goto(w, "taken")
  /\ UNCHANGED <<counters, phase, cancelled, results, checkpoint, outcome,
                 runs, sent, saving>>

LeaveNever(w) == At(w, "take") /\ pending = {} /\ UNCHANGED vars
LeaveLoop(w) ==
  /\ At(w, "take") /\ pending = {}
  /\ Goto(w, "exit")
  /\ UNCHANGED <<batch, counters, checkpoint, hands, saving>>

(* Is ctx.Done() ready?  Mutation: the select has no such case.             *)
CtxIgnored == FALSE
CtxDone == cancelled

(* The checks of ctx.Done() before and during the delay: a cancelled worker *)
(* leaves and the domain it has taken is dropped.                           *)
BeginQuery(w) ==
  /\ At(w, "taken")
  /\ IF CtxDone THEN Goto(w, "exit") /\ Release(w)
                ELSE Goto(w, "query") /\ UNCHANGED hands
  /\ UNCHANGED <<batch, counters, checkpoint, saving>>

(* Mutation: the domain is marked before its result is sent.                *)
QueryDomainRecords(w) ==
  /\ At(w, "query")
  /\ checkpoint' = [checkpoint EXCEPT !.done = @ \cup {Batch[task[w]]}]
  /\ Goto(w, "send")
  /\ UNCHANGED <<batch, counters, hands, saving>>

(* queryDomain: success or an error, which may be that of the context.      *)
QueryDomain(w) ==
  /\ At(w, "query")
  /\ \E o \in Outcome : outcome' = [outcome EXCEPT ![w] = o]
  /\ Goto(w, "send")
  /\ UNCHANGED <<batch, counters, checkpoint, task, saving>>

(* select { resultChan <- result | <-ctx.Done() }: when both are ready the  *)
(* runtime picks either.                                                    *)
SendResult(w) ==
  /\ At(w, "send")
  /\ \/ /\ Len(results) < ChanCap
        /\ results' = Append(results, Batch[task[w]])
        /\ sent' = sent \cup {Batch[task[w]]}
        /\ Goto(w, "count")
        /\ UNCHANGED hands
     \/ /\ CtxDone
        /\ Goto(w, "exit")
        /\ Release(w)
        /\ UNCHANGED <<results, sent>>
  /\ UNCHANGED <<counters, phase, pending, cancelled, checkpoint, runs,
                 saving>>

(* atomic.AddInt64(&p.completed, 1)                                         *)
CountCompleted(w) ==
  /\ At(w, "count")
  /\ completed' = completed + 1
  /\ Goto(w, "tally")
  /\ UNCHANGED <<batch, totalTasks, success, failure, checkpoint, hands,
                 saving>>

(* atomic.AddInt64 of successCount or failureCount                          *)
Tally(w) ==
  /\ At(w, "tally")
  /\ IF outcome[w] = "ok"
     THEN success' = success + 1 /\ UNCHANGED failure
     ELSE failure' = failure + 1 /\ UNCHANGED success
  /\ Goto(w, "record")
  /\ UNCHANGED <<batch, totalTasks, completed, checkpoint, hands, saving>>

(* Under p.mu: mark the domain and copy the shared counters.  Mutation:     *)
(* only a success is marked.                                                *)
MarkedSuccess(w) ==
  [checkpoint EXCEPT !.done = IF outcome[w] = "ok" THEN @ \cup {Batch[task[w]]} ELSE @,
                     !.success = success, !.failure = failure]
Marked(w) ==
  [done |-> checkpoint.done \cup {Batch[task[w]]}, success |-> success, failure |-> failure]

Record(w) ==
  /\ At(w, "record")
  /\ checkpoint' = Marked(w)
  /\ Release(w)
  /\ Goto(w, "check")
  /\ UNCHANGED <<batch, counters, saving>>

(* completed % CheckpointInterval == 0, on the shared counter as it is now. *)
Due == completed % CheckpointInterval = 0

CheckInterval(w) ==
  /\ At(w, "check")
  /\ Goto(w, IF Checkpointing /\ Due THEN "marshal" ELSE "take")
  /\ UNCHANGED <<batch, counters, checkpoint, hands, saving>>
-----------------------------------------------------------------------------
(* saveCheckpoint, called by a worker or by Cancel. *)

(* MarshalIndent under the read lock.                                       *)
Marshal(s) ==
  /\ At(s, "marshal")
  /\ snap' = [snap EXCEPT ![s] = checkpoint]
  /\ Goto(s, "open")
  /\ UNCHANGED <<batch, counters, checkpoint, fd, hands, files>>

(* os.WriteFile opens (O_CREATE|O_TRUNC) the one temporary file ...          *)
OpenTmp(s) ==
  /\ At(s, "open")
  /\ tmp' = Blank
  /\ fd' = [fd EXCEPT ![s] = "tmp"]
  /\ Goto(s, "write")
  /\ UNCHANGED <<batch, counters, checkpoint, snap, ckpt, hands>>

(* ... and writes to the file it opened, whatever its name is by now.        *)
WriteTmp(s) ==
  /\ At(s, "write")
  /\ tmp'  = IF fd[s] = "tmp"  THEN Overlay(tmp, snap[s])  ELSE tmp
  /\ ckpt' = IF fd[s] = "ckpt" THEN Overlay(ckpt, snap[s]) ELSE ckpt
  /\ fd' = [fd EXCEPT ![s] = "closed"]
  /\ snap' = [snap EXCEPT ![s] = NewCheckpoint]
  /\ Goto(s, "rename")
  /\ UNCHANGED <<batch, counters, checkpoint, hands>>

(* os.Rename fails if another saver has renamed the temporary file already. *)
RenameTmp(s) ==
  /\ At(s, "rename")
  /\ IF tmp.kind = "absent" THEN UNCHANGED <<fd, files>>
     ELSE /\ ckpt' = tmp
          /\ tmp' = Absent
          /\ fd' = [x \in Savers |-> CASE fd[x] = "tmp"  -> "ckpt"
                                       [] fd[x] = "ckpt" -> "orphan"
                                       [] OTHER          -> fd[x]]
  /\ Goto(s, IF s = Caller THEN "exit" ELSE "take")
  /\ UNCHANGED <<batch, counters, checkpoint, snap, hands>>

(* MkdirAll or WriteFile fails: what it created stays, nothing is renamed.  *)
SaveFails(s) ==
  /\ DiskFails
  /\ At(s, "open") \/ At(s, "write")
  /\ fd' = [fd EXCEPT ![s] = "closed"]
  /\ snap' = [snap EXCEPT ![s] = NewCheckpoint]
  /\ Goto(s, IF s = Caller THEN "exit" ELSE "take")
  /\ UNCHANGED <<batch, counters, checkpoint, hands, files>>

Save(s) ==
  Marshal(s) \/ OpenTmp(s) \/ WriteTmp(s) \/ RenameTmp(s) \/ SaveFails(s)
-----------------------------------------------------------------------------
(* The other goroutines. *)

(* Cancel(): cancel the context, then save while workers may still run.     *)
(* Without a started run there is no context to cancel; after the end of    *)
(* one nobody looks at it.                                                  *)
Cancel ==
  /\ "Cancel" \in Cancels /\ phase # "idle" /\ At(Caller, "exit")
  /\ cancelled' = (cancelled \/ phase = "running")
  /\ Goto(Caller, IF Checkpointing THEN "marshal" ELSE "exit")
  /\ UNCHANGED <<counters, phase, pending, results, checkpoint, runs, sent,
                 hands, saving>>

(* The context given to Process is cancelled by its owner.                  *)
ContextDone ==
  /\ "context" \in Cancels /\ phase = "running" /\ ~cancelled
  /\ cancelled' = TRUE
  /\ UNCHANGED <<counters, phase, pending, results, checkpoint, pc, runs,
                 sent, hands, saving>>

(* wg.Wait(); close(resultChan).  The cancel() that follows has no reader.  *)
(* Mutation: the first worker to leave closes the channel.                  *)
SomeExited == \E w \in Workers : At(w, "exit")
AllExited  == \A w \in Workers : At(w, "exit")

CloseResults ==
  /\ phase = "running" /\ AllExited
  /\ phase' = "closed"
  /\ UNCHANGED <<counters, pending, cancelled, results, checkpoint, pc,
                 runs, sent, hands, saving>>

(* The consumer of Results().                                               *)
Consume ==
  /\ results # <<>>
  /\ results' = Tail(results)
  /\ UNCHANGED <<counters, phase, pending, cancelled, checkpoint, pc, runs,
                 sent, hands, saving>>

(* The process dies or exits; MaxRuns bounds how often a next one follows.  *)
Crash ==
  /\ phase # "idle" /\ runs < MaxRuns
  /\ phase' = "idle" /\ pending' = {} /\ cancelled' = FALSE /\ results' = <<>>
  /\ totalTasks' = 0 /\ completed' = 0 /\ success' = 0 /\ failure' = 0
  /\ checkpoint' = NewCheckpoint
  /\ pc' = AllAt("exit")
  /\ task' = [w \in Workers |-> FirstTask]
  /\ outcome' = [w \in Workers |-> "ok"]
  /\ snap' = [s \in Savers |-> NewCheckpoint]
  /\ fd' = [s \in Savers |-> "closed"]
  /\ UNCHANGED <<runs, sent, files>>

(* Nothing more to do: the batch has ended, or the processor never started. *)
Finished ==
  /\ phase \in {"closed", "open"}
  /\ results = <<>> /\ \A s \in Savers : At(s, "exit")
  /\ UNCHANGED vars
-----------------------------------------------------------------------------
Work(w) ==
  \/ TakeTask(w) \/ LeaveLoop(w) \/ BeginQuery(w) \/ QueryDomain(w) \/ SendResult(w)
  \/ CountCompleted(w) \/ Tally(w) \/ Record(w) \/ CheckInterval(w)

Next ==
  \/ Process \/ ResumeFromCheckpoint
  \/ \E w \in Workers : Work(w)
  \/ \E s \in Savers : Save(s)
  \/ Cancel \/ ContextDone \/ CloseResults \/ Consume \/ Crash \/ Finished

Spec == Init /\ [][Next]_vars

(* Every goroutine that can run is scheduled, and a query ends (its dialer  *)
(* has a timeout).  Starting, cancelling, crashing and reading the results  *)
(* are not forced.                                                          *)
Scheduling ==
  /\ \A w \in Workers : WF_vars(Work(w))
  /\ \A s \in Savers : WF_vars(Save(s))
  /\ WF_vars(CloseResults)

FairSpec == Spec /\ Scheduling
-----------------------------------------------------------------------------
(* Properties. *)

TypeOK ==
  /\ phase \in {"idle", "running", "closed", "open"}
  /\ pending \subseteq Index
  /\ cancelled \in BOOLEAN
  /\ results \in Seq(Domains)
  /\ totalTasks \in Nat /\ completed \in Nat /\ success \in Nat /\ failure \in Nat
  /\ checkpoint \in Snapshot
  /\ pc \in [Savers -> Step]
  /\ task \in [Workers -> Index]
  /\ outcome \in [Workers -> Outcome]
  /\ snap \in [Savers -> Snapshot]
  /\ fd \in [Savers -> {"closed", "tmp", "ckpt", "orphan"}]
  /\ tmp \in FileState /\ ckpt \in FileState
  /\ runs \in Nat
  /\ sent \subseteq Domains

(* No duplicates in the list given to Process; the code does not check.     *)
DistinctBatch == \A i, j \in Index : Batch[i] = Batch[j] => i = j

(* The tasks between leaving domainChan and being recorded.                 *)
Held(w) == pc[w] \in WorkerStep \ {"take", "check"}

(* A domain the checkpoint calls completed, in memory, in a saver's buffer  *)
(* or in a file, has had its result put on the channel, in this process or  *)
(* an earlier one: a restart may repeat a query but never skips one.        *)
SentBeforeDurable ==
  /\ checkpoint.done \subseteq sent
  /\ \A s \in Savers : snap[s].done \subseteq sent
  /\ tmp.cp.done \subseteq sent /\ ckpt.cp.done \subseteq sent

(* When the result channel is closed and nobody cancelled, every domain of  *)
(* the batch has been answered, whatever crashes, torn files, failed saves  *)
(* and resumptions came before.                                             *)
EndedCoversBatch == phase = "closed" /\ ~cancelled => Domains \subseteq sent

(* No worker may be about to send when the channel is closed: in Go that    *)
(* send would panic.                                                        *)
NoSendOnClosed == phase # "running" => \A w \in Workers : At(w, "exit")

(* The invariant that carries the three properties above: every task of *)
(* an uncancelled run is answered, waiting or in a worker's hands; workers  *)
(* leave an uncancelled run only when nothing waits; a lost processor has   *)
(* no goroutine and no cancelled context.                                   *)
Unanswered(i) == \/ i \in pending
                 \/ \E w \in Workers : pc[w] \in {"taken", "query", "send"} /\ task[w] = i

TasksAccounted ==
  /\ \A w \in Workers : pc[w] \in {"count", "tally", "record"} => Batch[task[w]] \in sent
  /\ phase = "running" /\ ~cancelled =>
       /\ \A i \in Index : Batch[i] \in sent \/ Unanswered(i)
       /\ \A w \in Workers : At(w, "exit") => pending = {}
  /\ phase = "idle" => ~cancelled /\ \A s \in Savers : At(s, "exit")
  /\ phase = "open" => Domains \subseteq sent

(* No domain is queried again once the checkpoint has it, neither by a      *)
(* second worker nor by a resumed run.                                      *)
NeverQueriedTwice ==
  DistinctBatch =>
    /\ \A i \in pending : Batch[i] \notin checkpoint.done
    /\ \A w \in Workers : Held(w) => Batch[task[w]] \notin checkpoint.done
    /\ \A v, w \in Workers : Held(v) /\ Held(w) /\ task[v] = task[w] => v = w

(* The counter Completed runs ahead of CompletedDomains by exactly the      *)
(* workers between the two updates, in every run, fresh or resumed.         *)
CompletedMatchesCheckpoint ==
  DistinctBatch /\ phase \in {"running", "closed"} =>
    completed = Cardinality(checkpoint.done)
                + Cardinality({w \in Workers : pc[w] \in {"tally", "record"}})

(* The saved counts may run ahead of the saved domains, never behind them.  *)
TalliesCoverCheckpoint ==
  /\ checkpoint.success + checkpoint.failure >= Cardinality(checkpoint.done)
  /\ ckpt.cp.success + ckpt.cp.failure >= Cardinality(ckpt.cp.done)

(* The processor keeps the promise of BatchPromise.                         *)
Promise == INSTANCE BatchPromise WITH
  status   <- CASE phase = "idle"    -> "off"
                [] phase = "running" -> "on"
                [] phase = "open"    -> "done"
                [] OTHER             -> IF cancelled THEN "stopped" ELSE "done",
  answered <- sent,
  skipped  <- ckpt.cp.done
KeepsPromise == Promise!Spec

(* GetStats *)
GetStats == [total |-> totalTasks, completed |-> completed,
             success |-> success, failure |-> failure,
             remaining |-> totalTasks - completed]

(* An uncancelled run on the whole list ends with nothing remaining.        *)
EndedTotals ==
  DistinctBatch /\ phase = "closed" /\ ~cancelled /\ totalTasks = Len(Batch)
    => GetStats.remaining = 0

(* The three together: what is counted, recorded and saved, at different    *)
(* moments and by different workers, stays in step.                         *)
CheckpointAgrees ==
  CompletedMatchesCheckpoint /\ TalliesCoverCheckpoint /\ EndedTotals

(* The checkpoint file is never seen half written: it is absent or whole.   *)
CheckpointFileWhole == ckpt.kind # "torn"

(* A save never takes back a domain that the checkpoint file already had.   *)
CheckpointFileGrows == [][ckpt.cp.done \subseteq ckpt'.cp.done]_vars

(* A batch whose results keep being read ends: its channel is closed, or    *)
(* its process dies.                                                        *)
BatchEnds == []<>(Len(results) < ChanCap) => (phase = "running" ~> phase # "running")

(* After a cancellation the workers leave even if nobody reads the results. *)
CancelEndsBatch == phase = "running" /\ cancelled ~> phase # "running"
=============================================================================
