--------------------------- MODULE CapacityPlanner ---------------------------
(***************************************************************************)
(* labs/aws/05-autoscaling-control-loop/autoscaling_sim.py: run_scenario,   *)
(* one step for calculate_hpa and one for simulate_capacity_realization.    *)
(*                                                                         *)
(* Usage, request, rates and times are whole numbers.  calculate_hpa works  *)
(* with floats: where the exact ratio lies on the edge of the tolerance, or *)
(* the exact product is a whole number, the rounded one may lie on either   *)
(* side, and the model takes both.                                         *)
(*                                                                         *)
(* The delays are summed where the code only uses their sum: control is the *)
(* metric delay, the HPA and the workload controller (T0 to T3), node the   *)
(* decision and the launch (T4 to T6), startup the pod and its target.      *)
(***************************************************************************)
EXTENDS Integers, FiniteSetsExt

CONSTANTS
    HPAInputs,       \* the inputs of calculate_hpa
    CapacityInputs   \* the inputs of simulate_capacity_realization but desired_replicas

NoLimit == -1        \* None, for max_scale_up_replicas and dependency_capacity_rps

\* What both functions accept, in whole numbers: they raise AutoscalingError on a
\* divisor, a bound or a limit outside these ranges.  They would also take fractions
\* and a usage below zero, which no cluster reports.
ASSUME CapacityAssumption ==
    /\ \A h \in HPAInputs :
            /\ {h.current_replicas, h.average_request, h.target_percent,
                h.min_replicas} \subseteq Nat \ {0}
            /\ h.average_usage \in Nat
            /\ h.max_replicas \in Nat /\ h.max_replicas >= h.min_replicas
            /\ h.tolerance_percent \in Nat
            /\ h.max_scale_up_replicas \in Nat \cup {NoLimit}
    /\ \A c \in CapacityInputs :
            /\ {c.demand_rps, c.current_ready_replicas, c.warm_pod_slots,
                c.control_seconds, c.node_seconds, c.startup_seconds} \subseteq Nat
            /\ {c.safe_rps_per_pod, c.pods_per_new_node} \subseteq Nat \ {0}
            /\ c.dependency_capacity_rps \in Nat \cup {NoLimit}

VARIABLES
    hpaInput,          \* the input of calculate_hpa, or <<>> before the call
    hpa,               \* its result, or <<>>
    capacityInput,     \* the input of simulate_capacity_realization, or <<>>
    capacity           \* its result, or <<>>

capacityVars == <<hpaInput, hpa, capacityInput, capacity>>

CapacityInit == hpaInput = <<>> /\ hpa = <<>> /\ capacityInput = <<>> /\ capacity = <<>>

AtMost(a, b) == Min({a, b})
AtLeast(a, b) == Max({a, b})

\* math.ceil of a fraction of whole numbers.
Ceiling(a, b) == (a + b - 1) \div b

\* The usage and the target as whole numbers with the same unit: their ratio is
\* the code's ratio.
Usage(h) == 100 * h.average_usage
Target(h) == h.average_request * h.target_percent

\* abs(ratio - 1.0) <= tolerance_ratio, with either answer on the edge.
Deviation(h) == 100 * AtLeast(Usage(h) - Target(h), Target(h) - Usage(h))
MayTolerate(h) == Deviation(h) <= h.tolerance_percent * Target(h)
MayReact(h) == Deviation(h) >= h.tolerance_percent * Target(h)

\* math.ceil(current_replicas * ratio), with either answer at a whole number; zero
\* usage is exact.
RatioReplicas(h) ==
    LET product == h.current_replicas * Usage(h)
        exact == Ceiling(product, Target(h))
    IN  {exact} \cup IF product > 0 /\ product % Target(h) = 0 THEN {exact + 1} ELSE {}

\* The pairs of raw_desired and the first reason that calculate_hpa can reach.
RawDesired(h) ==
    (IF MayTolerate(h) THEN {<<h.current_replicas, "within-tolerance">>} ELSE {})
    \cup (IF MayReact(h) THEN {<<n, "metric-ratio">> : n \in RatioReplicas(h)} ELSE {})

Bounded(h, raw) == AtLeast(h.min_replicas, AtMost(raw, h.max_replicas))

RateLimited(h, raw) ==
    /\ h.max_scale_up_replicas # NoLimit
    /\ Bounded(h, raw) > h.current_replicas + h.max_scale_up_replicas

\* calculate_hpa
CalculateHPA(h) ==
    /\ hpaInput = <<>>
    /\ hpaInput' = h
    /\ \E choice \in RawDesired(h) :
        LET raw == choice[1]
        IN  hpa' = [raw_desired_replicas |-> raw,
                    desired_replicas |->
                        IF RateLimited(h, raw)
                        THEN h.current_replicas + h.max_scale_up_replicas
                        ELSE Bounded(h, raw),
                    scaling_limited |-> Bounded(h, raw) # raw \/ RateLimited(h, raw),
                    reason |->
                        IF raw > h.max_replicas THEN "max-replicas-limited"
                        ELSE IF raw < h.min_replicas THEN "min-replicas-limited"
                        ELSE IF RateLimited(h, raw) THEN "scale-up-rate-limited"
                        ELSE choice[2]]
    /\ UNCHANGED <<capacityInput, capacity>>

Additional(c, desired) == AtLeast(desired - c.current_ready_replicas, 0)
Immediate(c, desired) == AtMost(Additional(c, desired), c.warm_pod_slots)
NodeBacked(c, desired) == Additional(c, desired) - Immediate(c, desired)

\* T7 and T8: when the pods of a wave are healthy.
WarmReady(c) == c.control_seconds + c.startup_seconds
NodeWaveReady(c) == c.control_seconds + c.node_seconds + c.startup_seconds

\* What a number of ready pods serves within the dependency's limit.
Effective(c, pods) ==
    LET served == pods * c.safe_rps_per_pod
    IN  IF c.dependency_capacity_rps = NoLimit THEN served
        ELSE AtMost(served, c.dependency_capacity_rps)

Recovery(t, cause) == [recovered |-> TRUE, seconds |-> t, bottleneck |-> cause]
NoRecovery(cause) == [recovered |-> FALSE, seconds |-> NoLimit, bottleneck |-> cause]

\* Mutated form: the warm wave counts for all the replicas requested.
AllAtOnce(c, desired) == Effective(c, c.current_ready_replicas + Additional(c, desired))

\* The capacity after the warm wave.
WarmCapacity(c, desired) == Effective(c, c.current_ready_replicas + Immediate(c, desired))

FinalPods(c, desired) == c.current_ready_replicas + Additional(c, desired)

\* The chain that sets recovered, recovery_seconds and bottleneck.
Outcomes(c, desired) ==
    IF Effective(c, c.current_ready_replicas) >= c.demand_rps
    THEN Recovery(0, "none-current-capacity-sufficient")
    ELSE IF Immediate(c, desired) > 0 /\ WarmCapacity(c, desired) >= c.demand_rps
    THEN Recovery(WarmReady(c), "warm-pod-startup-and-target-health")
    ELSE IF /\ NodeBacked(c, desired) > 0
            /\ Effective(c, FinalPods(c, desired)) >= c.demand_rps
    THEN Recovery(NodeWaveReady(c), "node-provisioning-and-pod-startup")
    ELSE IF c.dependency_capacity_rps \in 0..(c.demand_rps - 1)
    THEN NoRecovery("downstream-dependency-capacity")
    ELSE IF FinalPods(c, desired) * c.safe_rps_per_pod < c.demand_rps
    THEN NoRecovery("desired-replica-capacity-insufficient")
    ELSE NoRecovery("capacity-not-realized")

\* simulate_capacity_realization, with the replicas that the HPA asked for.
Realize(c) ==
    /\ hpa # <<>> /\ capacity = <<>>
    /\ capacityInput' = c
    /\ LET desired == hpa.desired_replicas
       IN  capacity' =
            [immediate_replicas |-> Immediate(c, desired),
             node_backed_replicas |-> NodeBacked(c, desired),
             nodes_requested |-> Ceiling(NodeBacked(c, desired), c.pods_per_new_node),
             outcome |-> Outcomes(c, desired)]
    /\ UNCHANGED <<hpaInput, hpa>>

CapacityNext ==
    \/ \E h \in HPAInputs : CalculateHPA(h)
    \/ \E c \in CapacityInputs : Realize(c)

-----------------------------------------------------------------------------
CapacityTypeOK ==
    /\ hpaInput \in HPAInputs \cup {<<>>} /\ capacityInput \in CapacityInputs \cup {<<>>}
    /\ hpa # <<>> =>
        /\ hpa.raw_desired_replicas \in Nat /\ hpa.desired_replicas \in Nat \ {0}
        /\ hpa.scaling_limited \in BOOLEAN
    /\ capacity # <<>> =>
        /\ {capacity.immediate_replicas, capacity.node_backed_replicas,
            capacity.nodes_requested} \subseteq Nat

\* The pods ready at a time, wave by wave.
PodsReady(t) ==
    capacityInput.current_ready_replicas
        + (IF t >= WarmReady(capacityInput) THEN capacity.immediate_replicas ELSE 0)
        + (IF t >= NodeWaveReady(capacityInput) THEN capacity.node_backed_replicas ELSE 0)

\* The demand is served at a time: enough pods, and a dependency that keeps up.
Served(t) ==
    /\ PodsReady(t) * capacityInput.safe_rps_per_pod >= capacityInput.demand_rps
    /\ capacityInput.dependency_capacity_rps # NoLimit =>
            capacityInput.dependency_capacity_rps >= capacityInput.demand_rps

\* The lab's lesson: desired replicas are not capacity.  The recovery time reported
\* is the first second at which the ready pods and the dependency serve the demand,
\* no recovery is reported exactly when there is no such second, the bottleneck then
\* is the dependency exactly when it is below the demand, and the last branch
\* (capacity-not-realized) is never taken.  The nodes requested hold the replicas
\* that need them, with none to spare.  The HPA never passes the maximum, never adds
\* more than the rate limit, falls below the minimum only because of that limit, and
\* says so when a limit changed its answer.
RecoveryIsEarliest ==
    /\ capacity # <<>> =>
        LET times == 0..NodeWaveReady(capacityInput)
            outcome == capacity.outcome
        IN  /\ outcome.recovered =>
                    Served(outcome.seconds) /\ \A t \in times : Served(t) => t >= outcome.seconds
            /\ ~outcome.recovered => \A t \in times : ~Served(t)
            /\ outcome.bottleneck # "capacity-not-realized"
            /\ outcome.bottleneck = "downstream-dependency-capacity" <=>
                    capacityInput.dependency_capacity_rps \in 0..(capacityInput.demand_rps - 1)
                    /\ ~outcome.recovered
            /\ capacity.nodes_requested =
                    Min({n \in 0..capacity.node_backed_replicas :
                            n * capacityInput.pods_per_new_node >= capacity.node_backed_replicas})
    /\ hpa # <<>> =>
        /\ hpa.desired_replicas <= hpaInput.max_replicas
        /\ hpa.desired_replicas < hpaInput.min_replicas =>
                hpa.desired_replicas = hpaInput.current_replicas + hpaInput.max_scale_up_replicas
        /\ hpaInput.max_scale_up_replicas # NoLimit =>
                hpa.desired_replicas <= hpaInput.current_replicas + hpaInput.max_scale_up_replicas
        /\ hpa.desired_replicas # hpa.raw_desired_replicas => hpa.scaling_limited

=============================================================================
