------------------------------ MODULE MCServices ------------------------------
(* Small components that keep their state to themselves, one per behaviour:  *)
(* part says which of them runs, and the others stay as they began.          *)
EXTENDS RateLimiter, SmartScheduler, ApiKeys, KeyLimits, ServerTable, Setup, History,
        Aggregator, Correlation, Metrics, Observability, Lookups, AsnRelations, Records, TLC

CONSTANTS
  a1, a2,                \* two goroutines
  k1, k2, k3,            \* things they work on
  s1, s2,                \* two limited servers
  com, cn, reg, iana     \* two domains and their servers

VARIABLE part

(* Half a token a second for one server, less for all than for both.         *)
RateOf == (s1 :> 5 @@ s2 :> 15)

(* A key may be disabled, or good for everything.                            *)
NoneOrAdmin == {{}, {"admin"}}
KeyOfClient == ("client" :> "key")

(* A domain with a server of its own, and one without.                       *)
BuiltIn == (com :> reg @@ cn :> NoServer)

(* One query comes before two of one priority.                               *)
FirstOfThree == (k1 :> 0 @@ k2 :> 1 @@ k3 :> 1)

(* A record that shows its contact and hides its name server, and one that   *)
(* hides its organization: both have one registrar, spelled in two ways.     *)
TwoRecords ==
  {{[type |-> "email", key |-> "a"], [type |-> "nameserver", key |-> "hidden"],
    [type |-> "registrar", key |-> " g"]},
   {[type |-> "email", key |-> "a"], [type |-> "organization", key |-> "hidden"],
    [type |-> "registrar", key |-> "g"]}}
Trimmed == [a \in UNION TwoRecords |-> IF a.key = " g" THEN [a EXCEPT !.key = "g"] ELSE a]

vars == <<part, limiter, scheduler, keyFile, requests, table, setup, records,
          aggregator, correlation, metrics, observed, lookups, edges, compared>>

Parts == {"limiter", "scheduler", "keys", "requests", "servers", "setup", "history",
          "aggregator", "correlation", "metrics", "observability", "lookups",
          "relations", "records"}

Init ==
  /\ part \in Parts
  /\ LimiterInit /\ SchedulerInit /\ KeysInit /\ KeyLimitsInit /\ ServerTableInit
  /\ SetupInit /\ HistoryInit /\ AggregatorInit /\ CorrelationInit /\ MetricsInit
  /\ ObservabilityInit /\ LookupsInit /\ RelationsInit /\ RecordsInit

(* Only the components of the given parts change v.                          *)
Frame(v, ps) == IF part \in ps THEN TRUE ELSE UNCHANGED v

Next ==
  /\ Frame(now, {"limiter", "scheduler", "requests"})
  /\ Frame(limits, {"limiter"}) /\ Frame(scheduler, {"scheduler"})
  /\ Frame(keyFile, {"keys"}) /\ Frame(requests, {"requests"}) /\ Frame(table, {"servers"})
  /\ Frame(setup, {"setup"}) /\ Frame(records, {"history"})
  /\ Frame(aggregator, {"aggregator"}) /\ Frame(correlation, {"correlation"})
  /\ Frame(metrics, {"metrics"}) /\ Frame(observed, {"observability"})
  /\ Frame(lookups, {"lookups"}) /\ Frame(edges, {"relations"}) /\ Frame(compared, {"records"})
  /\ \/ part = "limiter" /\ LimiterNext
     \/ part = "scheduler" /\ SchedulerNext
     \/ part = "keys" /\ KeysNext
     \/ part = "requests" /\ KeyLimitsNext
     \/ part = "servers" /\ ServerTableNext
     \/ part = "setup" /\ SetupNext
     \/ part = "history" /\ HistoryNext
     \/ part = "aggregator" /\ AggregatorNext
     \/ part = "correlation" /\ CorrelationNext
     \/ part = "metrics" /\ MetricsNext
     \/ part = "observability" /\ ObservabilityNext
     \/ part = "lookups" /\ LookupsNext
     \/ part = "relations" /\ RelationsNext
     \/ part = "records" /\ RecordsNext
  /\ UNCHANGED part

Spec == Init /\ [][Next]_vars

(* The values of the component that runs are of their types.                 *)
TypeOK ==
  CASE part = "limiter"       -> LimiterTypeOK
    [] part = "scheduler"     -> SchedulerTypeOK
    [] part = "keys"          -> KeysTypeOK
    [] part = "requests"      -> KeyLimitsTypeOK
    [] part = "servers"       -> ServerTableTypeOK
    [] part = "setup"         -> SetupTypeOK
    [] part = "history"       -> HistoryTypeOK
    [] part = "aggregator"    -> AggregatorTypeOK
    [] part = "correlation"   -> CorrelationTypeOK
    [] part = "metrics"       -> MetricsTypeOK
    [] part = "observability" -> ObservabilityTypeOK
    [] part = "lookups"       -> LookupsTypeOK
    [] part = "relations"     -> RelationsTypeOK
    [] part = "records"       -> RecordsTypeOK
===============================================================================
