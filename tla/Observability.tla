----------------------------- MODULE Observability -----------------------------
(***************************************************************************)
(* CompositeMetrics of pkg/whois/observability.go: its own atomic counters, *)
(* changed one by one, and the providers it passes each event to under its  *)
(* read lock, Prometheus and OpenTelemetry among them; the global instance  *)
(* that whoever comes first makes; and GetBuiltInStats, which reads the     *)
(* counters one by one while they change.                                   *)
(***************************************************************************)
EXTENDS Naturals, Sequences, FiniteSets

CONSTANTS
  Reporters,    \* the goroutines that record events
  MaxEvents,    \* bound on the events
  TraceWindow   \* the traces OpenTelemetry keeps: 100 in the code

ASSUME ObservabilityAssumption ==
  IsFiniteSet(Reporters) /\ MaxEvents \in Nat /\ TraceWindow \in Nat \ {0}

VARIABLES
  global,    \* is there an instance; its providers, in order
  builtIn,   \* its atomic counters
  backend,   \* the counters of each provider, and the traces of OpenTelemetry
  reporter,  \* the event each goroutine records and how far it is
  stats,     \* a GetBuiltInStats under way: what it has read
  events,    \* history: the number of events
  finished,  \* history: the counts of the events that are over
  missed     \* history: what was over when each provider was added

observed == <<global, builtIn, backend, reporter, stats, events, finished, missed>>
-----------------------------------------------------------------------------
Backends == {"prometheus", "opentelemetry"}
Kinds    == {"query", "api"}  \* cache operations, rate limits and gauges are like "api"

Counters == [Kinds -> [all : Nat, ok : Nat, failed : Nat]]
Zeros    == [k \in Kinds |-> [all |-> 0, ok |-> 0, failed |-> 0]]

(* Of a query also its outcome is counted.                                  *)
Total(c, event) == [c EXCEPT ![event.kind].all = @ + 1]
Outcome(c, event) ==
  IF event.kind # "query" THEN c
  ELSE IF event.ok THEN [c EXCEPT !.query.ok = @ + 1] ELSE [c EXCEPT !.query.failed = @ + 1]

Quiet == [pc |-> "quiet"]
NoStats == [pc |-> "none", total |-> 0, ok |-> 0, behind |-> 0]

ObservabilityInit ==
  /\ global = [made |-> FALSE, providers |-> <<>>]
  /\ builtIn = Zeros
  /\ backend = [b \in Backends |-> [counters |-> Zeros, traces |-> <<>>]]
  /\ reporter = [r \in Reporters |-> Quiet]
  /\ stats = NoStats /\ events = 0 /\ finished = Zeros
  /\ missed = [b \in Backends |-> Zeros]
-----------------------------------------------------------------------------
(* The functions of the package record on the global instance: the first    *)
(* makes it, without providers.  The first counter is the total.            *)
Begin(r, event) ==
  /\ reporter[r] = Quiet /\ events < MaxEvents /\ events' = events + 1
  /\ global' = [global EXCEPT !.made = TRUE]
  /\ builtIn' = Total(builtIn, event)
  /\ reporter' = [reporter EXCEPT ![r] =
       [pc |-> IF event.kind = "query" THEN "outcome" ELSE "locking", event |-> event, to |-> <<>>]]
  /\ UNCHANGED <<backend, stats, finished, missed>>

RecordWHOISQuery(r) == \E ok \in BOOLEAN : Begin(r, [kind |-> "query", ok |-> ok])
RecordAPIRequest(r) == \E ok \in BOOLEAN : Begin(r, [kind |-> "api", ok |-> ok])

CountOutcome(r) ==
  /\ reporter[r].pc = "outcome"
  /\ builtIn' = Outcome(builtIn, reporter[r].event)
  /\ reporter' = [reporter EXCEPT ![r].pc = "locking"]
  /\ UNCHANGED <<global, backend, stats, events, finished, missed>>

(* RLock, and the slice that the loop runs over.                            *)
LockProviders(r) ==
  /\ reporter[r].pc = "locking"
  /\ reporter' = [reporter EXCEPT ![r].pc = "telling", ![r].to = global.providers]
  /\ UNCHANGED <<global, builtIn, backend, stats, events, finished, missed>>

(* The window of traces.                                                    *)
Traced(traces, event) ==
  LET all == Append(traces, event.ok) IN IF Len(all) > TraceWindow THEN Tail(all) ELSE all

(* A provider counts under a lock of its own.                               *)
Tell(r) ==
  /\ reporter[r].pc = "telling" /\ reporter[r].to # <<>>
  /\ LET b == Head(reporter[r].to)  event == reporter[r].event IN
       backend' = [backend EXCEPT
         ![b].counters = Outcome(Total(@, event), event),
         ![b].traces = IF b = "opentelemetry" /\ event.kind = "api" THEN Traced(@, event) ELSE @]
  /\ reporter' = [reporter EXCEPT ![r].to = Tail(@)]
  /\ UNCHANGED <<global, builtIn, stats, events, finished, missed>>

Told(r) ==
  /\ reporter[r].pc = "telling" /\ reporter[r].to = <<>>
  /\ reporter' = [reporter EXCEPT ![r] = Quiet]
  /\ finished' = Outcome(Total(finished, reporter[r].event), reporter[r].event)
  /\ UNCHANGED <<global, builtIn, backend, stats, events, missed>>
-----------------------------------------------------------------------------
(* AddProvider waits until no reader holds the lock.  Mutation: it does not. *)
NoReaderEver == TRUE
NoReader       == \A r \in Reporters : reporter[r].pc # "telling"

AddProvider(b) ==
  /\ NoReader /\ \A i \in DOMAIN global.providers : global.providers[i] # b
  /\ global' = [made |-> TRUE, providers |-> Append(global.providers, b)]
  /\ missed' = [missed EXCEPT ![b] = finished]
  /\ UNCHANGED <<builtIn, backend, reporter, stats, events, finished>>

(* InitMetricsWithProviders: without effect once there is an instance.      *)
InitMetricsWithProviders(bs) ==
  /\ global' = IF global.made THEN global ELSE [made |-> TRUE, providers |-> bs]
  /\ UNCHANGED <<builtIn, backend, reporter, stats, events, finished, missed>>
-----------------------------------------------------------------------------
(* GetBuiltInStats reads the total, then what succeeded, then what failed.  *)
(* behind: the queries that it found without an outcome.                    *)
ReadTotal ==
  /\ stats.pc \in {"none", "read"}
  /\ stats' = [pc |-> "total", total |-> builtIn.query.all, ok |-> 0, behind |-> 0]
  /\ UNCHANGED <<global, builtIn, backend, reporter, events, finished, missed>>
ReadOk ==
  /\ stats.pc = "total"
  /\ stats' = [stats EXCEPT !.pc = "ok", !.ok = builtIn.query.ok]
  /\ UNCHANGED <<global, builtIn, backend, reporter, events, finished, missed>>
ReadFailed ==
  /\ stats.pc = "ok"
  /\ LET read == stats.ok + builtIn.query.failed IN
       stats' = [stats EXCEPT !.pc = "read",
                   !.behind = IF read < stats.total THEN stats.total - read ELSE 0]
  /\ UNCHANGED <<global, builtIn, backend, reporter, events, finished, missed>>

ObservabilityNext ==
  \/ \E r \in Reporters :
       \/ RecordWHOISQuery(r) \/ RecordAPIRequest(r) \/ CountOutcome(r)
       \/ LockProviders(r) \/ Tell(r) \/ Told(r)
  \/ \E b \in Backends : AddProvider(b) \/ InitMetricsWithProviders(<<b>>)
  \/ ReadTotal \/ ReadOk \/ ReadFailed

ObservabilitySpec == ObservabilityInit /\ [][ObservabilityNext]_observed
-----------------------------------------------------------------------------
ObservabilityTypeOK ==
  /\ global \in [made : BOOLEAN, providers : Seq(Backends)]
  /\ builtIn \in Counters
  /\ backend \in [Backends -> [counters : Counters, traces : Seq(BOOLEAN)]]
  /\ \A r \in Reporters : reporter[r].pc \in {"quiet", "outcome", "locking", "telling"}
  /\ stats \in [pc : {"none", "total", "ok", "read"}, total : Nat, ok : Nat, behind : Nat]
  /\ events \in 0 .. MaxEvents /\ finished \in Counters /\ missed \in [Backends -> Counters]

(* A provider that was added while events were being recorded has, when     *)
(* they are over, every one that was not over by then, and none twice; the  *)
(* outcomes add up to the total; and statistics that are read meanwhile     *)
(* lack the outcome of no more queries than there are goroutines.           *)
BackendsAgree ==
  /\ (\A r \in Reporters : reporter[r] = Quiet) =>
       /\ builtIn.query.all = builtIn.query.ok + builtIn.query.failed
       /\ \A i \in DOMAIN global.providers :
            LET b == global.providers[i] IN
            \A k \in Kinds :
              /\ backend[b].counters[k].all + missed[b][k].all = builtIn[k].all
              /\ backend[b].counters[k].ok + missed[b][k].ok = builtIn[k].ok
              /\ backend[b].counters[k].failed + missed[b][k].failed = builtIn[k].failed
  /\ stats.pc = "read" => stats.behind <= Cardinality(Reporters)
=============================================================================
