--------------------------- MODULE RolloutPlanner ---------------------------
(***************************************************************************)
(* labs/platform-engineering/05-fleet-rollout-planner/plan_rollout.py: one  *)
(* run of main.  Reading the inputs and deciding every cluster is one step, *)
(* then create_batches takes one step per ring, one per cluster considered  *)
(* for a batch and one per batch.  The clusters of a batch are a set: their *)
(* order in the file printed is that of their sort key.                     *)
(*                                                                         *)
(* Rings, cluster ids and failure domains are numbers that stand for their  *)
(* strings and keep their order.  Times are hours.  "fit" says that class,  *)
(* lifecycle state and Kubernetes minor are among the policy's and that the *)
(* candidate baseline is not installed yet.                                *)
(***************************************************************************)
EXTENDS Integers, FiniteSets, SequencesExt

CONSTANTS
    Policies,        \* the policy files
    Fleet,           \* the entries that a clusters file is made of
    MaxClusters,     \* bound: the length of a clusters file
    PlanningHours    \* the values of --now

\* Fields of the right JSON type: require_string_list, require_bool and
\* require_positive_int reject anything else.
WellTyped(p) ==
    /\ p.ringOrder \in Seq(Nat) /\ Len(p.ringOrder) > 0 /\ IsInjective(p.ringOrder)
    /\ \A ring \in DOMAIN p.predecessors : p.predecessors[ring] \subseteq Nat
    /\ p.requireWindow \in BOOLEAN
    /\ {p.maximumBatchSize, p.maximumPerFailureDomain, p.maximumAge} \subseteq Nat \ {0}

ASSUME RolloutAssumption ==
    /\ <<>> \notin Policies /\ MaxClusters \in Nat
    /\ \A p \in Policies : WellTyped(p)
    /\ Fleet \subseteq
            [clusterId : Nat, ring : Nat, failureDomain : Nat, fit : BOOLEAN,
             conformance : Nat, start : Int, duration : Int]
    /\ PlanningHours \subseteq Nat

VARIABLES
    policy,            \* the policy file read, or <<>> before main runs
    fleet,             \* the clusters file
    now,               \* --now
    ringsTaken,        \* how many rings create_batches has taken
    remaining,         \* the clusters of the current ring still to be considered
    selected,          \* the clusters selected for the current batch
    deferred,          \* deferred_for_batch
    batchNumber,
    planned,           \* the batches so far
    exit               \* "none", "ERROR", "NO_PLAN" or "PLANNED"

batchVars == <<remaining, selected, deferred>>

rolloutVars == <<policy, fleet, now, ringsTaken, batchVars, batchNumber, planned, exit>>

RolloutInit ==
    /\ policy = <<>> /\ fleet = <<>> /\ now = 0
    /\ ringsTaken = 0 /\ remaining = {} /\ selected = {} /\ deferred = {}
    /\ batchNumber = 0 /\ planned = <<>> /\ exit = "none"

RingOrder(p) == ToSet(p.ringOrder)

\* ring_order.index
RingIndex(p, ring) == CHOOSE i \in DOMAIN p.ringOrder : p.ringOrder[i] = ring

\* parse_policy accepts predecessors that are rings and come earlier.
PolicyAccepted(p) ==
    \A ring \in DOMAIN p.predecessors :
        /\ ring \in RingOrder(p)
        /\ p.predecessors[ring] \subseteq RingOrder(p)
        /\ \A before \in p.predecessors[ring] : RingIndex(p, before) < RingIndex(p, ring)

\* decide_cluster and within_maintenance_window accept the entry.
ClusterAccepted(p, c, t) ==
    /\ c.ring \in RingOrder(p)
    /\ c.conformance <= t
    /\ c.start \in 0..23
    /\ c.duration \in 1..24

\* Mutated form: a window that runs past midnight is never open.
WindowOfOneDay(t, start, duration) ==
    \/ duration = 24
    \/ start <= t % 24 /\ t % 24 < (start + duration) % 24

WithinMaintenanceWindow(t, start, duration) ==
    LET current == t % 24
        end == (start + duration) % 24
    IN  \/ duration = 24
        \/ start < end /\ start <= current /\ current < end
        \/ start >= end /\ (start <= current \/ current < end)

\* The status that decide_cluster gives an accepted entry.
Status(p, c, t) ==
    IF ~c.fit \/ t - c.conformance > p.maximumAge THEN "BLOCKED"
    ELSE IF p.requireWindow /\ ~WithinMaintenanceWindow(t, c.start, c.duration)
    THEN "DEFERRED"
    ELSE "ELIGIBLE"

\* main refuses an empty file and entries that share a clusterId.
InputsAccepted(p, cs, t) ==
    /\ cs # <<>>
    /\ PolicyAccepted(p)
    /\ \A i \in DOMAIN cs : ClusterAccepted(p, cs[i], t)
    /\ IsInjective([i \in DOMAIN cs |-> cs[i].clusterId])

\* main reads its inputs; a refused input is the exit code 2.
ReadInputs ==
    /\ policy = <<>>
    /\ \E p \in Policies, cs \in BoundedSeq(Fleet, MaxClusters), t \in PlanningHours :
        /\ policy' = p /\ fleet' = cs /\ now' = t
        /\ IF InputsAccepted(p, cs, t)
           THEN UNCHANGED exit
           ELSE exit' = "ERROR"
    /\ UNCHANGED <<ringsTaken, batchVars, batchNumber, planned>>

Clusters == ToSet(fleet)

Eligible == {c \in Clusters : Status(policy, c, now) = "ELIGIBLE"}

\* A ring is done, or none is begun.
RingDone == remaining = {} /\ selected = {} /\ deferred = {}

\* The for statement of create_batches: the eligible clusters of the next ring.
TakeRing ==
    /\ policy # <<>> /\ exit = "none" /\ RingDone
    /\ ringsTaken < Len(policy.ringOrder)
    /\ ringsTaken' = ringsTaken + 1
    /\ remaining' = {c \in Eligible : c.ring = policy.ringOrder[ringsTaken + 1]}
    /\ batchNumber' = 1
    /\ UNCHANGED <<policy, fleet, now, selected, deferred, planned, exit>>

\* The sort key: failure domain, then id.
SortsBefore(c, d) ==
    \/ c.failureDomain < d.failureDomain
    \/ c.failureDomain = d.failureDomain /\ c.clusterId < d.clusterId

InDomain(members, d) == {c \in members : c.failureDomain = d}

\* Neither limit is reached for the cluster.
Joins(members, c) ==
    /\ Cardinality(members) < policy.maximumBatchSize
    /\ Cardinality(InDomain(members, c.failureDomain)) < policy.maximumPerFailureDomain

\* One iteration of the inner for statement: the next cluster is selected or deferred.
ConsiderCluster ==
    /\ exit = "none" /\ remaining # {}
    /\ LET c == CHOOSE x \in remaining : \A y \in remaining \ {x} : SortsBefore(x, y)
       IN  /\ remaining' = remaining \ {c}
           /\ IF Joins(selected, c)
              THEN selected' = selected \cup {c} /\ UNCHANGED deferred
              ELSE deferred' = deferred \cup {c} /\ UNCHANGED selected
    /\ UNCHANGED <<policy, fleet, now, ringsTaken, batchNumber, planned, exit>>

\* The end of an iteration of the while statement; a batch without members is an
\* InputError.
CreateBatch ==
    /\ exit = "none" /\ remaining = {} /\ ~RingDone
    /\ IF selected = {}
       THEN exit' = "ERROR" /\ UNCHANGED <<planned, batchNumber, batchVars>>
       ELSE /\ planned' = Append(planned, [ring |-> policy.ringOrder[ringsTaken],
                                           number |-> batchNumber, members |-> selected])
            /\ batchNumber' = batchNumber + 1
            /\ remaining' = deferred /\ selected' = {} /\ deferred' = {}
            /\ UNCHANGED exit
    /\ UNCHANGED <<policy, fleet, now, ringsTaken>>

\* main prints the batches and returns.
PrintPlan ==
    /\ policy # <<>> /\ exit = "none" /\ RingDone /\ ringsTaken = Len(policy.ringOrder)
    /\ exit' = IF planned = <<>> THEN "NO_PLAN" ELSE "PLANNED"
    /\ UNCHANGED <<policy, fleet, now, ringsTaken, batchVars, batchNumber, planned>>

RolloutNext ==
    \/ ReadInputs
    \/ TakeRing
    \/ ConsiderCluster
    \/ CreateBatch
    \/ PrintPlan

-----------------------------------------------------------------------------
RolloutTypeOK ==
    /\ policy \in Policies \cup {<<>>}
    /\ fleet \in Seq(Fleet) /\ Len(fleet) <= MaxClusters
    /\ now \in PlanningHours \cup {0}
    /\ exit \in {"none", "ERROR", "NO_PLAN", "PLANNED"}
    /\ ringsTaken \in 0..(IF policy = <<>> THEN 0 ELSE Len(policy.ringOrder))
    /\ remaining \cup selected \cup deferred \subseteq Clusters
    /\ batchNumber \in 0..(Len(planned) + 1)

Members(k) == planned[k].members

\* What a cluster must be, in words of its own: the current hour is one of the
\* hours of the window, counted from its start around the clock.
MayRollOut(c) ==
    /\ c.fit
    /\ now <= c.conformance + policy.maximumAge
    /\ policy.requireWindow =>
            \E k \in 0..(c.duration - 1) : now % 24 = (c.start + k) % 24

\* The planner's promises: a bounded plan in ring order.  A plan that main prints
\* holds every cluster that may roll out exactly once and no other; no batch exceeds
\* a limit, and none leaves out a later member of its ring that it had room for; the
\* batches of the rings that must succeed first come first; and inputs that are
\* accepted never run into the no-progress error.
PlanSound ==
    /\ exit \in {"NO_PLAN", "PLANNED"} =>
        /\ \A c \in Clusters :
                Cardinality({k \in DOMAIN planned : c \in Members(k)})
                    = IF MayRollOut(c) THEN 1 ELSE 0
        /\ \A k \in DOMAIN planned :
            /\ Cardinality(Members(k)) \in 1..policy.maximumBatchSize
            /\ \A c \in Members(k) :
                /\ c \in Clusters /\ c.ring = planned[k].ring
                /\ Cardinality(InDomain(Members(k), c.failureDomain))
                        <= policy.maximumPerFailureDomain
        /\ \A j, k \in DOMAIN planned :
            LET earlier == planned[j].ring
                later == planned[k].ring
            IN  /\ j < k /\ earlier = later => \A c \in Members(k) : ~Joins(Members(j), c)
                /\ later \in DOMAIN policy.predecessors
                   /\ earlier \in policy.predecessors[later] => j < k
    /\ exit = "ERROR" => ~InputsAccepted(policy, fleet, now)

=============================================================================
