----------------------------- MODULE ServicesProofs ----------------------------
(***************************************************************************)
(* The small components together, as MCServices runs them: each behaviour  *)
(* of the whole is one of the component that part names, and so has what   *)
(* is proved of it.                                                        *)
(***************************************************************************)
EXTENDS MCServices, ControlProofs, AnswerProofs
-------------------------------------------------------------------------------
(* Which component runs never changes.                                      *)
LEMMA PartStays == Spec => [](part \in Parts)
<1>1. Init => part \in Parts
  BY DEF Init
<1>2. part \in Parts /\ [Next]_vars => (part \in Parts)'
  BY DEF Next, vars
<1> QED BY <1>1, <1>2, PTL DEF Spec

(* The component that runs behaves as its own specification says, whatever  *)
(* the values of the constants: what the run checks of it is what the       *)
(* theorems of ControlProofs and AnswerProofs prove.                        *)
THEOREM PartsRun ==
  Spec => /\ part = "limiter" => LimiterSpec
          /\ part = "scheduler" => SchedulerSpec
          /\ part = "keys" => KeysSpec
          /\ part = "requests" => KeyLimitsSpec
          /\ part = "servers" => ServerTableSpec
          /\ part = "setup" => SetupSpec
          /\ part = "history" => HistorySpec
          /\ part = "aggregator" => AggregatorSpec
          /\ part = "correlation" => CorrelationSpec
          /\ part = "metrics" => MetricsSpec
          /\ part = "observability" => ObservabilitySpec
          /\ part = "lookups" => LookupsSpec
          /\ part = "relations" => RelationsSpec
          /\ part = "records" => RecordsSpec
<1>1. Init => LimiterInit /\ SchedulerInit /\ KeysInit /\ KeyLimitsInit /\ ServerTableInit
              /\ SetupInit /\ HistoryInit /\ AggregatorInit /\ CorrelationInit
              /\ MetricsInit /\ ObservabilityInit /\ LookupsInit /\ RelationsInit /\ RecordsInit
  BY DEF Init
<1>2. Spec => (part = "limiter" => LimiterSpec)
  <2>1. part = "limiter" /\ [Next]_vars => (part = "limiter")' /\ [LimiterNext]_limiter
    BY DEF Next, vars
  <2> QED BY <1>1, <2>1, PTL DEF Spec, LimiterSpec
<1>3. Spec => (part = "scheduler" => SchedulerSpec)
  <2>1. part = "scheduler" /\ [Next]_vars => (part = "scheduler")' /\ [SchedulerNext]_<<now, scheduler>>
    BY DEF Next, vars, limiter
  <2> QED BY <1>1, <2>1, PTL DEF Spec, SchedulerSpec
<1>4. Spec => (part = "keys" => KeysSpec)
  <2>1. part = "keys" /\ [Next]_vars => (part = "keys")' /\ [KeysNext]_keyFile
    BY DEF Next, vars
  <2> QED BY <1>1, <2>1, PTL DEF Spec, KeysSpec
<1>5. Spec => (part = "requests" => KeyLimitsSpec)
  <2>1. part = "requests" /\ [Next]_vars => (part = "requests")' /\ [KeyLimitsNext]_<<now, requests>>
    BY DEF Next, vars, limiter
  <2> QED BY <1>1, <2>1, PTL DEF Spec, KeyLimitsSpec
<1>6. Spec => (part = "servers" => ServerTableSpec)
  <2>1. part = "servers" /\ [Next]_vars => (part = "servers")' /\ [ServerTableNext]_table
    BY DEF Next, vars
  <2> QED BY <1>1, <2>1, PTL DEF Spec, ServerTableSpec
<1>7. Spec => (part = "setup" => SetupSpec)
  <2>1. part = "setup" /\ [Next]_vars => (part = "setup")' /\ [SetupNext]_setup
    BY DEF Next, vars
  <2> QED BY <1>1, <2>1, PTL DEF Spec, SetupSpec
<1>8. Spec => (part = "history" => HistorySpec)
  <2>1. part = "history" /\ [Next]_vars => (part = "history")' /\ [HistoryNext]_records
    BY DEF Next, vars
  <2> QED BY <1>1, <2>1, PTL DEF Spec, HistorySpec
<1>9. Spec => (part = "aggregator" => AggregatorSpec)
  <2>1. part = "aggregator" /\ [Next]_vars => (part = "aggregator")' /\ [AggregatorNext]_aggregator
    BY DEF Next, vars
  <2> QED BY <1>1, <2>1, PTL DEF Spec, AggregatorSpec
<1>10. Spec => (part = "correlation" => CorrelationSpec)
  <2>1. part = "correlation" /\ [Next]_vars => (part = "correlation")' /\ [CorrelationNext]_correlation
    BY DEF Next, vars
  <2> QED BY <1>1, <2>1, PTL DEF Spec, CorrelationSpec
<1>11. Spec => (part = "metrics" => MetricsSpec)
  <2>1. part = "metrics" /\ [Next]_vars => (part = "metrics")' /\ [MetricsNext]_metrics
    BY DEF Next, vars
  <2> QED BY <1>1, <2>1, PTL DEF Spec, MetricsSpec
<1>12. Spec => (part = "observability" => ObservabilitySpec)
  <2>1. part = "observability" /\ [Next]_vars => (part = "observability")' /\ [ObservabilityNext]_observed
    BY DEF Next, vars
  <2> QED BY <1>1, <2>1, PTL DEF Spec, ObservabilitySpec
<1>13. Spec => (part = "lookups" => LookupsSpec)
  <2>1. part = "lookups" /\ [Next]_vars => (part = "lookups")' /\ [LookupsNext]_lookups
    BY DEF Next, vars
  <2> QED BY <1>1, <2>1, PTL DEF Spec, LookupsSpec
<1>14. Spec => (part = "relations" => RelationsSpec)
  <2>1. part = "relations" /\ [Next]_vars => (part = "relations")' /\ [RelationsNext]_edges
    BY DEF Next, vars
  <2> QED BY <1>1, <2>1, PTL DEF Spec, RelationsSpec
<1>15. Spec => (part = "records" => RecordsSpec)
  <2>1. part = "records" /\ [Next]_vars => (part = "records")' /\ [RecordsNext]_compared
    BY DEF Next, vars
  <2> QED BY <1>1, <2>1, PTL DEF Spec, RecordsSpec
<1> QED BY <1>2, <1>3, <1>4, <1>5, <1>6, <1>7, <1>8, <1>9, <1>10, <1>11, <1>12, <1>13, <1>14, <1>15
-------------------------------------------------------------------------------
(* Each component keeps its types; those of three are stated where their    *)
(* own properties are proved.                                               *)
LEMMA LimiterTyped == LimiterSpec => []LimiterTypeOK
<1>1. LimiterInv => LimiterTypeOK
  BY DEF LimiterInv
<1> QED BY <1>1, LimiterBegins, LimiterKeeps, PTL DEF LimiterSpec

LEMMA KeysTyped == KeysSpec => []KeysTypeOK
<1>1. KeysInv => KeysTypeOK
  BY DEF KeysInv, KeysCore
<1> QED BY <1>1, KeysBegin, KeysKept, PTL DEF KeysSpec

LEMMA KeyLimitsTyped == KeyLimitsSpec => []KeyLimitsTypeOK
<1>1. KeyLimitsInv => KeyLimitsTypeOK
  BY DEF KeyLimitsInv
<1> QED BY <1>1, KeyLimitsBegin, KeyLimitsKept, PTL DEF KeyLimitsSpec

LEMMA ServerTableTyped == ServerTableSpec => []ServerTableTypeOK
<1>1. HealthInv => ServerTableTypeOK
  BY DEF HealthInv
<1> QED BY <1>1, HealthInvInit, HealthInvNext, PTL DEF ServerTableSpec

LEMMA SetupTyped == SetupSpec => []SetupTypeOK
<1>1. SetupInv => SetupTypeOK
  <2> SUFFICES ASSUME SetupInv PROVE SetupTypeOK OBVIOUS
  <2>1. applying \in [cfg : LibraryConfig, left : Rests, stored : BOOLEAN, failed : BOOLEAN]
    BY DEF SetupInv
  <2>2. applying.left \in Seq(SectionNames)
    BY <2>1, RestTaken
  <2> QED BY <2>1, <2>2, NamesOfSections DEF SetupInv, SetupTypeOK
<1> QED BY <1>1, SetupBegin, SetupKept, PTL DEF SetupSpec

LEMMA HistoryTyped == HistorySpec => []HistoryTypeOK
<1>1. HistoryInv => HistoryTypeOK
  BY DEF HistoryInv
<1> QED BY <1>1, InitHistoryInv, NextHistoryInv, PTL DEF HistorySpec

LEMMA AggregatorTypes == AggregatorSpec => []AggregatorTypeOK
<1>1. AggregatorInv => AggregatorTypeOK
  BY DEF AggregatorInv
<1> QED BY <1>1, AggregatorBegin, AggregatorKept, PTL DEF AggregatorSpec

LEMMA CorrelationTyped == CorrelationSpec => []CorrelationTypeOK
<1>1. CorrelationInv => CorrelationTypeOK
  BY DEF CorrelationInv
<1> QED BY <1>1, CorrelationInitInv, CorrelationNextInv, PTL DEF CorrelationSpec

LEMMA MetricsTyped == MetricsSpec => []MetricsTypeOK
<1>1. MetricsInv => MetricsTypeOK
  BY DEF MetricsInv
<1> QED BY <1>1, MetricsBegin, MetricsStep, PTL DEF MetricsSpec

LEMMA ObservabilityTyped == ObservabilitySpec => []ObservabilityTypeOK
<1>1. ObservabilityInv => ObservabilityTypeOK
  BY DEF ObservabilityInv
<1> QED BY <1>1, ObservabilityBegin, ObservabilityKept, PTL DEF ObservabilitySpec

LEMMA LookupsTyped == LookupsSpec => []LookupsTypeOK
<1>1. LookupsInv => LookupsTypeOK
  BY DEF LookupsInv
<1> QED BY <1>1, LookupsBegin, LookupsKept, PTL DEF LookupsSpec

(* The component that runs keeps its types.                                 *)
THEOREM ServicesTyped == Spec => []TypeOK
<1>1. Spec => [](part = "limiter" => LimiterTypeOK)
  <2>0. Spec => (part = "limiter" => LimiterSpec)
    BY PartsRun
  <2>1. ~(part = "limiter") /\ [Next]_vars => (~(part = "limiter"))'
    BY DEF Next, vars
  <2> QED BY <2>0, <2>1, LimiterTyped, PTL DEF Spec
<1>2. Spec => [](part = "scheduler" => SchedulerTypeOK)
  <2>0. Spec => (part = "scheduler" => SchedulerSpec)
    BY PartsRun
  <2>1. ~(part = "scheduler") /\ [Next]_vars => (~(part = "scheduler"))'
    BY DEF Next, vars
  <2> QED BY <2>0, <2>1, AdaptsInRange, PTL DEF Spec
<1>3. Spec => [](part = "keys" => KeysTypeOK)
  <2>0. Spec => (part = "keys" => KeysSpec)
    BY PartsRun
  <2>1. ~(part = "keys") /\ [Next]_vars => (~(part = "keys"))'
    BY DEF Next, vars
  <2> QED BY <2>0, <2>1, KeysTyped, PTL DEF Spec
<1>4. Spec => [](part = "requests" => KeyLimitsTypeOK)
  <2>0. Spec => (part = "requests" => KeyLimitsSpec)
    BY PartsRun
  <2>1. ~(part = "requests") /\ [Next]_vars => (~(part = "requests"))'
    BY DEF Next, vars
  <2> QED BY <2>0, <2>1, KeyLimitsTyped, PTL DEF Spec
<1>5. Spec => [](part = "servers" => ServerTableTypeOK)
  <2>0. Spec => (part = "servers" => ServerTableSpec)
    BY PartsRun
  <2>1. ~(part = "servers") /\ [Next]_vars => (~(part = "servers"))'
    BY DEF Next, vars
  <2> QED BY <2>0, <2>1, ServerTableTyped, PTL DEF Spec
<1>6. Spec => [](part = "setup" => SetupTypeOK)
  <2>0. Spec => (part = "setup" => SetupSpec)
    BY PartsRun
  <2>1. ~(part = "setup") /\ [Next]_vars => (~(part = "setup"))'
    BY DEF Next, vars
  <2> QED BY <2>0, <2>1, SetupTyped, PTL DEF Spec
<1>7. Spec => [](part = "history" => HistoryTypeOK)
  <2>0. Spec => (part = "history" => HistorySpec)
    BY PartsRun
  <2>1. ~(part = "history") /\ [Next]_vars => (~(part = "history"))'
    BY DEF Next, vars
  <2> QED BY <2>0, <2>1, HistoryTyped, PTL DEF Spec
<1>8. Spec => [](part = "aggregator" => AggregatorTypeOK)
  <2>0. Spec => (part = "aggregator" => AggregatorSpec)
    BY PartsRun
  <2>1. ~(part = "aggregator") /\ [Next]_vars => (~(part = "aggregator"))'
    BY DEF Next, vars
  <2> QED BY <2>0, <2>1, AggregatorTypes, PTL DEF Spec
<1>9. Spec => [](part = "correlation" => CorrelationTypeOK)
  <2>0. Spec => (part = "correlation" => CorrelationSpec)
    BY PartsRun
  <2>1. ~(part = "correlation") /\ [Next]_vars => (~(part = "correlation"))'
    BY DEF Next, vars
  <2> QED BY <2>0, <2>1, CorrelationTyped, PTL DEF Spec
<1>10. Spec => [](part = "metrics" => MetricsTypeOK)
  <2>0. Spec => (part = "metrics" => MetricsSpec)
    BY PartsRun
  <2>1. ~(part = "metrics") /\ [Next]_vars => (~(part = "metrics"))'
    BY DEF Next, vars
  <2> QED BY <2>0, <2>1, MetricsTyped, PTL DEF Spec
<1>11. Spec => [](part = "observability" => ObservabilityTypeOK)
  <2>0. Spec => (part = "observability" => ObservabilitySpec)
    BY PartsRun
  <2>1. ~(part = "observability") /\ [Next]_vars => (~(part = "observability"))'
    BY DEF Next, vars
  <2> QED BY <2>0, <2>1, ObservabilityTyped, PTL DEF Spec
<1>12. Spec => [](part = "lookups" => LookupsTypeOK)
  <2>0. Spec => (part = "lookups" => LookupsSpec)
    BY PartsRun
  <2>1. ~(part = "lookups") /\ [Next]_vars => (~(part = "lookups"))'
    BY DEF Next, vars
  <2> QED BY <2>0, <2>1, LookupsTyped, PTL DEF Spec
<1>13. Spec => [](part = "relations" => RelationsTypeOK)
  <2>0. Spec => (part = "relations" => RelationsSpec)
    BY PartsRun
  <2>1. ~(part = "relations") /\ [Next]_vars => (~(part = "relations"))'
    BY DEF Next, vars
  <2> QED BY <2>0, <2>1, RelationsTyped, PTL DEF Spec
<1>14. Spec => [](part = "records" => RecordsTypeOK)
  <2>0. Spec => (part = "records" => RecordsSpec)
    BY PartsRun
  <2>1. ~(part = "records") /\ [Next]_vars => (~(part = "records"))'
    BY DEF Next, vars
  <2> QED BY <2>0, <2>1, RecordsTyped, PTL DEF Spec
<1> DEFINE Fore == /\ part = "limiter" => LimiterTypeOK
                   /\ part = "scheduler" => SchedulerTypeOK
                   /\ part = "keys" => KeysTypeOK
                   /\ part = "requests" => KeyLimitsTypeOK
                   /\ part = "servers" => ServerTableTypeOK
           Mid  == /\ part = "setup" => SetupTypeOK
                   /\ part = "history" => HistoryTypeOK
                   /\ part = "aggregator" => AggregatorTypeOK
                   /\ part = "correlation" => CorrelationTypeOK
                   /\ part = "metrics" => MetricsTypeOK
           Aft  == /\ part = "observability" => ObservabilityTypeOK
                   /\ part = "lookups" => LookupsTypeOK
                   /\ part = "relations" => RelationsTypeOK
                   /\ part = "records" => RecordsTypeOK
<1>15. Fore /\ Mid /\ Aft /\ part \in Parts => TypeOK
  <2> SUFFICES ASSUME part \in Parts, Fore, Mid, Aft PROVE TypeOK
    OBVIOUS
  <2>1. CASE part = "limiter" BY <2>1 DEF TypeOK
  <2>2. CASE part = "scheduler" BY <2>2 DEF TypeOK
  <2>3. CASE part = "keys" BY <2>3 DEF TypeOK
  <2>4. CASE part = "requests" BY <2>4 DEF TypeOK
  <2>5. CASE part = "servers" BY <2>5 DEF TypeOK
  <2>6. CASE part = "setup" BY <2>6 DEF TypeOK
  <2>7. CASE part = "history" BY <2>7 DEF TypeOK
  <2>8. CASE part = "aggregator" BY <2>8 DEF TypeOK
  <2>9. CASE part = "correlation" BY <2>9 DEF TypeOK
  <2>10. CASE part = "metrics" BY <2>10 DEF TypeOK
  <2>11. CASE part = "observability" BY <2>11 DEF TypeOK
  <2>12. CASE part = "lookups" BY <2>12 DEF TypeOK
  <2>13. CASE part = "relations" BY <2>13 DEF TypeOK
  <2>14. CASE part = "records" BY <2>14 DEF TypeOK
  <2> QED BY <2>1, <2>2, <2>3, <2>4, <2>5, <2>6, <2>7, <2>8, <2>9, <2>10, <2>11, <2>12, <2>13, <2>14 DEF Parts
<1>16. Spec => []Fore
  BY <1>1, <1>2, <1>3, <1>4, <1>5, PTL
<1>17. Spec => []Mid
  BY <1>6, <1>7, <1>8, <1>9, <1>10, PTL
<1>18. Spec => []Aft
  BY <1>11, <1>12, <1>13, <1>14, PTL
<1> HIDE DEF Fore, Mid, Aft
<1> QED BY <1>15, <1>16, <1>17, <1>18, PartStays, PTL
===============================================================================
