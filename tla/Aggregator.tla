------------------------------- MODULE Aggregator ------------------------------
(***************************************************************************)
(* QueryAggregator of pkg/whois/query.go: a heap of queries that AddQuery   *)
(* fills under the lock and ExecuteAll empties without it, one goroutine    *)
(* for each query, so many at once as the semaphore lets through.           *)
(* container/heap is used as what it promises: Pop takes a least element.   *)
(***************************************************************************)
EXTENDS Naturals, FiniteSets

CONSTANTS
  Tasks,          \* the queries that are added, each once
  PriorityOf,     \* the Priority of each
  Executors,      \* the goroutines that call ExecuteAll
  MaxConcurrency, \* the size of the semaphore
  MaxCalls        \* bound on the calls of ExecuteAll

ASSUME AggregatorAssumption ==
  /\ "none" \notin Tasks /\ PriorityOf \in [Tasks -> Nat]
  /\ MaxConcurrency \in Nat \ {0} /\ MaxCalls \in Nat

VARIABLES
  heap,      \* the slice of tasks
  adding,    \* the task that is being pushed, and the slice AddQuery found
  executor,  \* where each ExecuteAll is, and the slice it found
  querying,  \* the tasks whose goroutine runs, as <<executor, task>>
  answered,  \* how often each task was answered, in the BatchResult of a call
  calls,     \* how often ExecuteAll was called
  tally,     \* qa.stats
  added,     \* history: the tasks that AddQuery was called for
  overlap    \* history: two of AddQuery and ExecuteAll touched the heap at once

aggregator == <<heap, adding, executor, querying, answered, calls, tally, added, overlap>>
-----------------------------------------------------------------------------
NoPush == [task |-> "none", found |-> {}]
Away   == [pc |-> "away", found |-> {}]

AggregatorInit ==
  /\ heap = {} /\ adding = NoPush
  /\ executor = [e \in Executors |-> Away]
  /\ querying = {} /\ answered = [t \in Tasks |-> 0]
  /\ calls = 0 /\ tally = [total |-> 0, ok |-> 0, failed |-> 0]
  /\ added = {} /\ overlap = FALSE

Running == {e \in Executors : executor[e].pc \in {"looking", "waiting", "popping"}}
Popping == {e \in Executors : executor[e].pc = "popping"}
-----------------------------------------------------------------------------
(* heap.Push reads the slice and writes it back: the lock excludes other    *)
(* calls of AddQuery, not a Pop.                                            *)
AddQuery(t) ==
  /\ adding = NoPush /\ t \notin added /\ added' = added \cup {t}
  /\ adding' = [task |-> t, found |-> heap]
  /\ overlap' = (overlap \/ Popping # {})
  /\ UNCHANGED <<heap, executor, querying, answered, calls, tally>>

Pushed ==
  /\ adding # NoPush
  /\ heap' = adding.found \cup {adding.task}
  /\ adding' = NoPush
  /\ UNCHANGED <<executor, querying, answered, calls, tally, added, overlap>>
-----------------------------------------------------------------------------
ExecuteAll(e) ==
  /\ executor[e] = Away /\ calls < MaxCalls
  /\ executor' = [executor EXCEPT ![e].pc = "looking"]
  /\ calls' = calls + 1
  /\ overlap' = (overlap \/ Running # {})
  /\ UNCHANGED <<heap, adding, querying, answered, tally, added>>

(* for qa.queue.Len() > 0, without the lock.                                *)
Look(e) ==
  /\ executor[e].pc = "looking"
  /\ executor' = [executor EXCEPT ![e].pc = IF heap = {} THEN "joining" ELSE "waiting"]
  /\ UNCHANGED <<heap, adding, querying, answered, calls, tally, added, overlap>>

(* A slot of the semaphore; Pop begins with the slice it finds then.        *)
Taken == Cardinality(querying) + Cardinality(Popping)
Acquire(e) ==
  /\ executor[e].pc = "waiting" /\ Taken < MaxConcurrency
  /\ executor' = [executor EXCEPT ![e] = [pc |-> "popping", found |-> heap]]
  /\ overlap' = (overlap \/ adding # NoPush \/ Popping # {})
  /\ UNCHANGED <<heap, adding, querying, answered, calls, tally, added>>

(* A task of the least Priority, and what is left without it.               *)
First(found) == {t \in found : \A u \in found : PriorityOf[t] <= PriorityOf[u]}
Rest(found, t) == found \ {t}

Pop(e) ==
  /\ executor[e].pc = "popping"
  /\ \E t \in First(executor[e].found) :
       /\ heap' = Rest(executor[e].found, t)
       /\ querying' = querying \cup {<<e, t>>}
  /\ executor' = [executor EXCEPT ![e] = [pc |-> "looking", found |-> {}]]
  /\ UNCHANGED <<adding, answered, calls, tally, added, overlap>>

(* Pop of a heap that another has emptied or is changing: the index is out  *)
(* of range, or the task nil, and the process ends.                         *)
Panic(e) ==
  /\ executor[e].pc = "popping" /\ (executor[e].found = {} \/ executor[e].found # heap)
  /\ heap' = {} /\ adding' = NoPush
  /\ executor' = [f \in Executors |-> [pc |-> "dead", found |-> {}]]
  /\ querying' = {}
  /\ UNCHANGED <<answered, calls, tally, added, overlap>>

(* The goroutine of a task, at the end of its query, under the lock: a      *)
(* success counts twice, once more in updateStats.  Its slot is free.       *)
Answer(q) ==
  /\ q \in querying
  /\ \E ok \in BOOLEAN :
       tally' = IF ok THEN [tally EXCEPT !.total = @ + 2, !.ok = @ + 1]
                ELSE [tally EXCEPT !.total = @ + 1, !.failed = @ + 1]
  /\ answered' = [answered EXCEPT ![q[2]] = @ + 1]
  /\ querying' = querying \ {q}
  /\ UNCHANGED <<heap, adding, executor, calls, added, overlap>>

(* wg.Wait.  Mutation: the call does not wait for its queries.              *)
JoinedAny(e) == executor[e].pc = "joining"
Joined(e)    == executor[e].pc = "joining" /\ \A q \in querying : q[1] # e
ReturnAll(e) ==
  /\ Joined(e)
  /\ executor' = [executor EXCEPT ![e] = Away]
  /\ UNCHANGED <<heap, adding, querying, answered, calls, tally, added, overlap>>

AggregatorNext ==
  \/ (\E t \in Tasks : AddQuery(t)) \/ Pushed
  \/ \E e \in Executors :
       ExecuteAll(e) \/ Look(e) \/ Acquire(e) \/ Pop(e) \/ Panic(e) \/ ReturnAll(e)
  \/ \E q \in querying : Answer(q)

AggregatorSpec == AggregatorInit /\ [][AggregatorNext]_aggregator
-----------------------------------------------------------------------------
AggregatorTypeOK ==
  /\ heap \subseteq Tasks
  /\ adding \in {NoPush} \cup [task : Tasks, found : SUBSET Tasks]
  /\ executor \in [Executors -> [pc : {"away", "looking", "waiting", "popping", "joining", "dead"},
                                 found : SUBSET Tasks]]
  /\ querying \subseteq Executors \X Tasks /\ answered \in [Tasks -> Nat]
  /\ calls \in 0 .. MaxCalls /\ tally \in [total : Nat, ok : Nat, failed : Nat]
  /\ added \subseteq Tasks /\ overlap \in BOOLEAN

(* As long as no two touched the heap at once and no two calls of           *)
(* ExecuteAll ran together, however AddQuery comes between the look at the  *)
(* heap, the wait for a slot and the Pop: every task is waiting, under way  *)
(* or answered, once; ExecuteAll has returned only when its tasks are       *)
(* answered; and the statistics count each answer.                          *)
AnsweredOnce ==
  ~overlap =>
    /\ \A t \in added : t # adding.task =>
         (IF t \in heap THEN 1 ELSE 0) + answered[t]
           + Cardinality({q \in querying : q[2] = t}) = 1
    /\ \A q \in querying : executor[q[1]].pc \notin {"away", "dead"}
    /\ tally.ok + tally.failed = Cardinality({t \in Tasks : answered[t] > 0})
=============================================================================
