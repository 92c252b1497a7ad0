------------------------------ MODULE MCPlanners ------------------------------
(***************************************************************************)
(* The labs that decide on a batch of inputs: admission, telemetry, the     *)
(* fleet planner, autoscaling and the retry chain.  They share nothing, so a *)
(* behaviour runs one of them, the one that "lab" names.                   *)
(***************************************************************************)
EXTENDS AdmissionControl, TelemetryIngest, RolloutPlanner, CapacityPlanner, RetryChain

VARIABLE lab

Labs == {"admission", "telemetry", "rollout", "capacity", "retry"}

plannersVars == <<admissionVars, telemetryVars, rolloutVars, capacityVars, retryVars>>

Init ==
    /\ lab \in Labs
    /\ AdmissionInit /\ TelemetryInit /\ RolloutInit /\ CapacityInit /\ RetryInit

Next ==
    /\ UNCHANGED lab
    /\ \/ /\ lab = "admission" /\ AdmissionNext
          /\ UNCHANGED <<telemetryVars, rolloutVars, capacityVars, retryVars>>
       \/ /\ lab = "telemetry" /\ TelemetryNext
          /\ UNCHANGED <<admissionVars, rolloutVars, capacityVars, retryVars>>
       \/ /\ lab = "rollout" /\ RolloutNext
          /\ UNCHANGED <<admissionVars, telemetryVars, capacityVars, retryVars>>
       \/ /\ lab = "capacity" /\ CapacityNext
          /\ UNCHANGED <<admissionVars, telemetryVars, rolloutVars, retryVars>>
       \/ /\ lab = "retry" /\ RetryNext
          /\ UNCHANGED <<admissionVars, telemetryVars, rolloutVars, capacityVars>>

Spec == Init /\ [][Next]_<<lab, plannersVars>>

\* The counters of every loop agree with the work done so far, and the values have
\* their types.
TypeOK ==
    AdmissionTypeOK /\ TelemetryTypeOK /\ RolloutTypeOK /\ CapacityTypeOK /\ RetryTypeOK

-----------------------------------------------------------------------------
Request(id, tenant, priority, work) ==
    [request_id |-> id, tenant |-> tenant, priority |-> priority, work_units |-> work]

\* Two tenants, both priorities, and two requests that share an id.
SomeRequests ==
    {Request("a", "t1", "critical", 1), Request("b", "t2", "critical", 2),
     Request("c", "t1", "optional", 1), Request("d", "t2", "optional", 2),
     Request("a", "t2", "optional", 3)}

SomeControllers ==
    {[capacity_units |-> n, critical_reserve_units |-> r, per_tenant_units |-> t] :
        n \in {4, 5}, r \in {0, 2, 4}, t \in {3, 5}}

Item(id, tenant, signal, priority, size, attributes, age) ==
    [item_id |-> id, tenant |-> tenant, signal |-> signal, priority |-> priority, size_units |-> size,
     attributes |-> attributes, age_seconds |-> age]

\* Two tenants, every signal and priority, and two items that share an id.
SomeItems ==
    {Item("a", "t1", "log", "debug", 3, "plain", 5), Item("b", "t1", "log", "debug", 2, "plain", 7),
     Item("c", "t1", "metric", "normal", 1, "plain", 0),
     Item("d", "t2", "metric", "critical", 2, "long", 9),
     Item("e", "t2", "trace", "critical", 2, "both", 1),
     Item("b", "t2", "metric", "normal", 2, "both", 0),
     Item("f", "t1", "synthetic", "critical", 1, "plain", 3)}

SomePipelines ==
    {[capacity_units |-> n, per_tenant_units |-> t] : n \in {3, 5}, t \in {2, 4}}

Policy(order, predecessors, size, perDomain, window) ==
    [ringOrder |-> order, predecessors |-> predecessors, maximumBatchSize |-> size,
     maximumPerFailureDomain |-> perDomain, maximumAge |-> 24, requireWindow |-> window]

\* Rings 1 and 2, in either order; the last two policies are refused.
SomePolicies ==
    {Policy(<<1, 2>>, 2 :> {1}, 2, 1, TRUE), Policy(<<2, 1>>, 1 :> {2}, 3, 2, FALSE),
     Policy(<<1, 2>>, <<>>, 1, 2, TRUE), Policy(<<1, 2>>, 1 :> {2}, 2, 1, TRUE),
     Policy(<<1, 2>>, 2 :> {3}, 2, 1, TRUE)}

Cluster(id, ring, domain, fit, conformance, start, duration) ==
    [clusterId |-> id, ring |-> ring, failureDomain |-> domain, fit |-> fit,
     conformance |-> conformance, start |-> start, duration |-> duration]

\* Windows that end at midnight, run past it, last a day or are out of range.
SomeClusters ==
    {Cluster(1, 1, 1, TRUE, 40, 22, 4), Cluster(2, 1, 1, TRUE, 40, 20, 4),
     Cluster(3, 1, 2, TRUE, 24, 9, 24), Cluster(4, 2, 1, TRUE, 47, 23, 1),
     Cluster(5, 1, 1, TRUE, 30, 0, 12), Cluster(6, 2, 2, FALSE, 40, 0, 24),
     Cluster(1, 2, 1, TRUE, 40, 0, 24), Cluster(7, 1, 1, TRUE, 40, 9, 25)}

\* 23:00 on one day, 0:00 and 2:00 on the next.
SomeHours == {47, 48, 50}

SomeHPAInputs ==
    [current_replicas : {1, 2, 5}, average_usage : {0, 20, 22, 50, 110},
     average_request : {100}, target_percent : {20}, min_replicas : {1, 4},
     max_replicas : {6, 12}, tolerance_percent : {0, 10},
     max_scale_up_replicas : {NoLimit, 1, 3}]

SomeCapacityInputs ==
    [demand_rps : {0, 20, 45}, current_ready_replicas : {0, 2, 5}, safe_rps_per_pod : {10},
     warm_pod_slots : {0, 2}, pods_per_new_node : {2, 3}, control_seconds : {3},
     node_seconds : {0, 4}, startup_seconds : {2},
     dependency_capacity_rps : {NoLimit, 15, 45}]

SomeConfigs ==
    [logical_requests : {1, 2}, service_layers : {1, 2, 3}, retries_per_layer : {0, 1, 2},
     failure_rate : {"0", "between", "1"}, mode : {"none", "edge", "layered"}]

=============================================================================
