-------------------------------- MODULE Metrics --------------------------------
(***************************************************************************)
(* What is counted: the collector of pkg/metrics/collector.go, of requests  *)
(* and of WHOIS queries, and the monitor of pkg/monitor/performance.go, all *)
(* with the same running averages; the export of the collector, which reads *)
(* its maps while they change; and the windows of the last records.         *)
(***************************************************************************)
EXTENDS Integers, Sequences, FiniteSets

CONSTANTS
  Groups,      \* the paths, servers or domains that are counted apart
  Durations,   \* that a request or query may take, in milliseconds
  WindowSize,  \* maxLatencyRecords
  MaxRecords   \* bound on all that is recorded

ASSUME MetricsAssumption ==
  /\ Durations \subseteq Nat /\ WindowSize \in Nat \ {0} /\ MaxRecords \in Nat
  /\ "all" \notin Groups

VARIABLES
  counts,    \* the number and the average of each group, and of all
  outcomes,  \* how many succeeded and failed: the status codes of requests
  extremes,  \* the least and most duration of the collector
  recent,    \* recentLatencies of the monitor
  export,    \* an ExportMetrics under way: the total it copied, the codes it read
  truth,     \* history: the least and the sum of the durations of each count
             \* (the sum of all of the monitor is its totalLatencyMs)
  durations  \* history: all durations of the monitor

metrics == <<counts, outcomes, extremes, recent, export, truth, durations>>
-----------------------------------------------------------------------------
Books    == {"api", "whois", "monitor"}
Accounts == Books \X (Groups \cup {"all"})
NoExport == [pc |-> "none", total |-> 0, codes |-> 0]

MetricsInit ==
  /\ counts = [a \in Accounts |-> [n |-> 0, avg |-> 0]]
  /\ outcomes = [b \in Books |-> [ok \in BOOLEAN |-> 0]]
  /\ extremes = [b \in {"api", "whois"} |-> [least |-> 0, most |-> 0]]
  /\ recent = <<>> /\ export = NoExport
  /\ truth = [a \in Accounts |-> [least |-> 0, sum |-> 0]] /\ durations = <<>>

(* The running average in whole numbers: what the division cuts off is      *)
(* lost.  n counts the new duration.  Mutation: the average weighs n.       *)
AveragedByN(avg, n, ms) == (avg * n + ms) \div n
Averaged(avg, n, ms)    == (avg * (n - 1) + ms) \div n

(* MinResponseTime: 0 stands for none yet, so a duration of 0 is forgotten. *)
Shortest(least, ms) == IF least = 0 \/ ms < least THEN ms ELSE least
Longest(most, ms)   == IF ms > most THEN ms ELSE most

(* Of the history: what Shortest should be, and the exact sum.              *)
TruthWith(t, n, ms) ==
  [least |-> IF n = 0 \/ ms < t.least THEN ms ELSE t.least, sum |-> t.sum + ms]

(* The monitor has the sum of all latencies, and divides it when asked.     *)
NewAverage(a, ms) ==
  IF a = <<"monitor", "all">> THEN (truth[a].sum + ms) \div (counts[a].n + 1)
  ELSE Averaged(counts[a].avg, counts[a].n + 1, ms)

(* The part that RecordAPIRequest, RecordWHOISQuery and RecordQuery share,  *)
(* under the lock: of all, and of the group.                                *)
Enter(b, g, ok, ms) ==
  LET of == {<<b, g>>, <<b, "all">>} IN
  /\ counts[<<"api", "all">>].n + counts[<<"whois", "all">>].n
       + counts[<<"monitor", "all">>].n < MaxRecords
  /\ counts' = [a \in Accounts |->
       IF a \in of THEN [n |-> counts[a].n + 1, avg |-> NewAverage(a, ms)] ELSE counts[a]]
  /\ truth' = [a \in Accounts |->
       IF a \in of THEN TruthWith(truth[a], counts[a].n, ms) ELSE truth[a]]
  /\ outcomes' = [outcomes EXCEPT ![b][ok] = @ + 1]

Extend(b, ms) ==
  extremes' = [extremes EXCEPT ![b] =
                 [least |-> Shortest(@.least, ms), most |-> Longest(@.most, ms)]]

(* The map of the status codes is the one an export reads: changed while it *)
(* is read, it may end the process.                                         *)
CollectRequest(g, ok, ms) ==
  /\ Enter("api", g, ok, ms) /\ Extend("api", ms)
  /\ \/ UNCHANGED export
     \/ export.pc = "marshalling" /\ export' = [export EXCEPT !.pc = "dead"]
  /\ UNCHANGED <<recent, durations>>

CollectQuery(g, ok, ms) ==
  Enter("whois", g, ok, ms) /\ Extend("whois", ms) /\ UNCHANGED <<recent, export, durations>>

(* The last records; the windows of errors and of requests (RecordError and *)
(* AddLog) are kept the same way.                                           *)
Slid(window, x) == Append(IF Len(window) >= WindowSize THEN Tail(window) ELSE window, x)

RecordQuery(g, ok, ms) ==
  /\ Enter("monitor", g, ok, ms)
  /\ recent' = Slid(recent, ms) /\ durations' = Append(durations, ms)
  /\ UNCHANGED <<extremes, export>>
-----------------------------------------------------------------------------
(* ExportMetrics: GetMetrics copies the numbers under the lock, but of the  *)
(* maps the references; they are marshalled without it.                     *)
GetMetrics ==
  /\ export.pc \in {"none", "written"}
  /\ export' = [pc |-> "gathered", total |-> counts[<<"api", "all">>].n, codes |-> 0]
  /\ UNCHANGED <<counts, outcomes, extremes, recent, truth, durations>>
Marshal ==
  /\ export.pc = "gathered" /\ export' = [export EXCEPT !.pc = "marshalling"]
  /\ UNCHANGED <<counts, outcomes, extremes, recent, truth, durations>>
Export ==
  /\ export.pc = "marshalling"
  /\ export' = [export EXCEPT !.pc = "written",
                  !.codes = outcomes["api"][TRUE] + outcomes["api"][FALSE]]
  /\ UNCHANGED <<counts, outcomes, extremes, recent, truth, durations>>

MetricsNext ==
  \/ /\ export.pc # "dead"
     /\ \E g \in Groups, ok \in BOOLEAN, ms \in Durations :
          CollectRequest(g, ok, ms) \/ CollectQuery(g, ok, ms) \/ RecordQuery(g, ok, ms)
  \/ GetMetrics \/ Marshal \/ Export

MetricsSpec == MetricsInit /\ [][MetricsNext]_metrics
-----------------------------------------------------------------------------
(* GetStats of the monitor. *)

(* percentile: of the sorted window, int((n - 1) * p / 100) from its start. *)
Below(d)      == Cardinality({i \in DOMAIN recent : recent[i] < d})
NotAbove(d)   == Cardinality({i \in DOMAIN recent : recent[i] <= d})
Percentile(p) ==
  LET index == ((Len(recent) - 1) * p) \div 100
  IN  CHOOSE d \in Durations : Below(d) <= index /\ index < NotAbove(d)

MetricsTypeOK ==
  /\ counts \in [Accounts -> [n : Nat, avg : Nat]]
  /\ outcomes \in [Books -> [BOOLEAN -> Nat]]
  /\ extremes \in [{"api", "whois"} -> [least : Nat, most : Nat]]
  /\ recent \in Seq(Durations) /\ durations \in Seq(Durations)
  /\ export \in [pc : {"none", "gathered", "marshalling", "written", "dead"}, total : Nat, codes : Nat]
  /\ truth \in [Accounts -> [least : Nat, sum : Nat]]

(* A running average never leaves the durations it is of: it is at least    *)
(* the shortest, and at most the mean, below which it drifts as it cuts off *)
(* a fraction each time.                                                    *)
AverageHeld ==
  \A a \in Accounts : counts[a].n > 0 =>
    truth[a].least <= counts[a].avg /\ counts[a].avg * counts[a].n <= truth[a].sum

(* The window of the monitor is the end of all it has recorded, so that the *)
(* 99th percentile is never below the 90th, nor above the longest of them.  *)
WindowIsLast ==
  LET n == Len(durations)  k == Len(recent) IN
  /\ k = IF n < WindowSize THEN n ELSE WindowSize
  /\ recent = SubSeq(durations, n - k + 1, n)
  /\ k > 0 => /\ Percentile(90) <= Percentile(95) /\ Percentile(95) <= Percentile(99)
              /\ \E i \in n - k + 1 .. n : Percentile(99) <= durations[i]

(* What was counted adds up, and a document that was exported, although its *)
(* codes may be newer than its total, lacks no request of the total.        *)
BooksAgree ==
  /\ \A b \in Books : outcomes[b][TRUE] + outcomes[b][FALSE] = counts[<<b, "all">>].n
  /\ export.pc = "written" => export.total <= export.codes

(* The three together.                                                      *)
MetricsHold == AverageHeld /\ WindowIsLast /\ BooksAgree
=============================================================================
