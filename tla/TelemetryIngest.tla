--------------------------- MODULE TelemetryIngest ---------------------------
(***************************************************************************)
(* TelemetryPipeline of                                                    *)
(* labs/observability/01-telemetry-pipeline/telemetry_lab.py: one call of   *)
(* ingest, one action per item in order of priority, then the report.  An   *)
(* item is known by its position; what is undecided is the rest of the list *)
(* "ordered", the soonest of which is next.                                *)
(*                                                                         *)
(* An item's attributes are abstracted to what _cardinality_reason tells    *)
(* apart: "plain", "forbidden" (one of FORBIDDEN_METRIC_LABELS is among the  *)
(* labels), "long" (a value exceeds the limit) or "both".                  *)
(***************************************************************************)
EXTENDS Integers, FiniteSetsExt, SequencesExt, Sums

CONSTANTS
    Items,           \* the items that a call is given
    MaxItems,        \* bound: the number of items of a call
    Pipelines        \* the pipelines: capacity and tenant quota

\* TelemetryItem and TelemetryPipeline reject anything else.
TelemetryItem ==
    [item_id : STRING, tenant : STRING, signal : {"metric", "log", "trace", "synthetic"},
     priority : {"critical", "normal", "debug"}, size_units : Nat \ {0},
     attributes : {"plain", "forbidden", "long", "both"}, age_seconds : Nat]

ASSUME TelemetryAssumption ==
    /\ Items \subseteq TelemetryItem
    /\ Pipelines \subseteq [capacity_units : Nat \ {0}, per_tenant_units : Nat \ {0}]
    /\ MaxItems \in Nat

VARIABLES
    pipeline,          \* the pipeline called, or <<>> before the call
    items,             \* the items of the call
    acceptedUnits,     \* the counters of the loop
    droppedUnits,
    tenantUnits,
    acceptedAges,
    outcome,           \* the decision on each position decided so far
    ingestReport       \* the PipelineReport, or <<>> before ingest returns

telemetryVars == <<pipeline, items, acceptedUnits, droppedUnits, tenantUnits,
                   acceptedAges, outcome, ingestReport>>

Sources == {item.tenant : item \in Items}

Sizes == [i \in DOMAIN items |-> items[i].size_units]

\* The size of the items at some positions of the call.
Size(S) == Total(Sizes, S)

\* priority_rank
Rank(priority) == CASE priority = "critical" -> 0 [] priority = "normal" -> 1 [] OTHER -> 2

\* The key that ingest sorts by: priority, then arrival.
Earlier(i, j) ==
    \/ Rank(items[i].priority) < Rank(items[j].priority)
    \/ items[i].priority = items[j].priority /\ i < j

Waiting == DOMAIN items \ DOMAIN outcome

TelemetryInit ==
    /\ pipeline = <<>> /\ items = <<>>
    /\ acceptedUnits = 0 /\ droppedUnits = 0
    /\ tenantUnits = [t \in Sources |-> 0]
    /\ acceptedAges = {} /\ outcome = <<>> /\ ingestReport = <<>>

\* ingest is called.
Ingest ==
    /\ pipeline = <<>>
    /\ pipeline' \in Pipelines
    /\ items' \in BoundedSeq(Items, MaxItems)
    /\ UNCHANGED <<acceptedUnits, droppedUnits, tenantUnits, acceptedAges, outcome,
                   ingestReport>>

CardinalityReason(item) ==
    IF item.signal # "metric" THEN "none"
    ELSE IF item.attributes \in {"forbidden", "both"} THEN "forbidden_metric_label"
    ELSE IF item.attributes = "long" THEN "metric_label_value_too_long"
    ELSE "none"

\* The checks of the loop, in its order.
Outcome(item) ==
    IF CardinalityReason(item) # "none" THEN CardinalityReason(item)
    ELSE IF tenantUnits[item.tenant] + item.size_units > pipeline.per_tenant_units
    THEN "tenant_quota"
    ELSE IF acceptedUnits + item.size_units > pipeline.capacity_units
    THEN "queue_full"
    ELSE "accepted"

\* Mutated form: what a full queue refuses still counts against its tenant.
ChargedAlways(item) ==
    IF Outcome(item) \in {"accepted", "queue_full"} THEN item.size_units ELSE 0

\* What an item adds to the use of its tenant.
Charged(item) == IF Outcome(item) = "accepted" THEN item.size_units ELSE 0

\* One iteration of the loop.
DecideItem ==
    \E i \in Waiting :
        /\ \A j \in Waiting \ {i} : Earlier(i, j)
        /\ LET item == items[i]
           IN  /\ outcome' = [j \in DOMAIN outcome \cup {i} |->
                        IF j = i THEN Outcome(item) ELSE outcome[j]]
               /\ tenantUnits' = [tenantUnits EXCEPT ![item.tenant] = @ + Charged(item)]
               /\ IF Outcome(item) = "accepted"
                  THEN /\ acceptedUnits' = acceptedUnits + item.size_units
                       /\ acceptedAges' = acceptedAges \cup {item.age_seconds}
                       /\ UNCHANGED droppedUnits
                  ELSE /\ droppedUnits' = droppedUnits + item.size_units
                       /\ UNCHANGED <<acceptedUnits, acceptedAges>>
        /\ UNCHANGED <<pipeline, items, ingestReport>>

Accepted == {i \in DOMAIN outcome : outcome[i] = "accepted"}

\* by_id: of several decisions on one id, the last one taken.
OutcomeOf(id) ==
    LET named == {j \in DOMAIN outcome : items[j].item_id = id}
    IN  outcome[CHOOSE i \in named : \A j \in named \ {i} : Earlier(j, i)]

\* The report is made from by_id, item by item, but for the units and ages.
ReportIngest ==
    /\ pipeline # <<>> /\ Waiting = {} /\ ingestReport = <<>>
    /\ LET stable == [i \in DOMAIN items |-> OutcomeOf(items[i].item_id)]
           acceptedItems == Cardinality({i \in DOMAIN items : stable[i] = "accepted"})
       IN  ingestReport' =
            [decisions |-> stable,
             accepted_units |-> acceptedUnits, dropped_units |-> droppedUnits,
             accepted_items |-> acceptedItems,
             dropped_items |-> Len(items) - acceptedItems,
             max_accepted_age_seconds |-> Max(acceptedAges \cup {0})]
    /\ UNCHANGED <<pipeline, items, acceptedUnits, droppedUnits, tenantUnits,
                   acceptedAges, outcome>>

TelemetryNext ==
    \/ Ingest
    \/ DecideItem
    \/ ReportIngest

-----------------------------------------------------------------------------
\* The counters agree with the items decided so far.
TelemetryTypeOK ==
    /\ pipeline \in Pipelines \cup {<<>>}
    /\ items \in Seq(Items) /\ Len(items) <= MaxItems
    /\ DOMAIN outcome \subseteq DOMAIN items
    /\ acceptedUnits = Size(Accepted)
    /\ droppedUnits = Size(DOMAIN outcome \ Accepted)
    /\ tenantUnits = [t \in Sources |-> Size({i \in Accepted : items[i].tenant = t})]
    /\ acceptedAges = {items[i].age_seconds : i \in Accepted}

\* The accepted items that are more urgent than the one at i, or as urgent and earlier.
Before(i) ==
    {j \in Accepted :
        \/ items[j].priority = "critical" /\ items[i].priority # "critical"
        \/ items[j].priority = "normal" /\ items[i].priority = "debug"
        \/ items[j].priority = items[i].priority /\ j < i}

\* Whether the item at i has its labels in order and fits behind the accepted ones
\* that go before it, from the sums alone.
MayStay(i) ==
    LET with == Before(i) \cup {i}
        sameTenant == {j \in with : items[j].tenant = items[i].tenant}
    IN  /\ CardinalityReason(items[i]) = "none"
        /\ Size(sameTenant) <= pipeline.per_tenant_units
        /\ Size(with) <= pipeline.capacity_units

DistinctItemIds == IsInjective([i \in DOMAIN items |-> items[i].item_id])

\* The lab's promises: bounded queues, critical signals first, tenant quotas, loss
\* that is visible.  Critical and normal signals survive whatever debug data comes:
\* an item is dropped only for its labels, or because it does not fit behind the
\* accepted items that are at least as urgent, and every unit is accounted for.  So
\* is every item, when ids are distinct: by_id merges items that share one.
LossOnlyByPolicy ==
    ingestReport # <<>> =>
        /\ \A i \in DOMAIN items : i \in Accepted <=> MayStay(i)
        /\ ingestReport.accepted_units = Size(Accepted)
        /\ ingestReport.dropped_units = Size(DOMAIN items \ Accepted)
        /\ \A i \in Accepted :
                items[i].age_seconds <= ingestReport.max_accepted_age_seconds
        /\ DistinctItemIds =>
            /\ \A i \in DOMAIN items : ingestReport.decisions[i] = outcome[i]
            /\ ingestReport.accepted_items = Cardinality(Accepted)
            /\ ingestReport.dropped_items = Len(items) - Cardinality(Accepted)

=============================================================================
