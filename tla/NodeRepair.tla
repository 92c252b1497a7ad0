----------------------------- MODULE NodeRepair -----------------------------
(***************************************************************************)
(* The node-repair controller of                                           *)
(* labs/kubernetes/01-node-repair-state-machine/node_repair.py.             *)
(*                                                                         *)
(* evaluate_repair looks at a snapshot of the fleet: it either opens its    *)
(* circuit breaker or decides about one candidate after the other.  Its     *)
(* result reaches the fleet with apply_decisions.  The nodes go on failing, *)
(* recovering, being fenced and becoming ready before and after either      *)
(* call, not during one: both work on the list they were given.             *)
(*                                                                         *)
(* The three fences of a node are one: the code asks for all of them.  The  *)
(* signature of a node's failure is fixed (the breaker ignores it unless    *)
(* the node has failed).  Percentages of the policy may be fractions; those  *)
(* of the fleet are compared with them exactly, without the rounding of the  *)
(* quotient, which is the same wherever one set of nodes is compared.        *)
(***************************************************************************)
EXTENDS Integers, FiniteSets, FiniteSetsExt

CONSTANTS
    Nodes, Zones, Images, Signatures,
    ZoneOf, ImageOf, Capacity, Critical, Writer,  \* fields of Node
    SignatureOf,    \* failure_signature of the node when it fails
    NoSignature,    \* None
    Rank,           \* position of the node by zone, then by name
    \* fields of FleetPolicy; Full is 100 percent in units of its percentages
    Full,
    MaxCluster, MaxPerZone, MinCapacityPercent, ImageFailurePercent,
    SignatureZones, RestartLimit, RequireReady,
    MaxFailures     \* bound: failures of a node that are told apart

\* _validate_nodes: the fleet is a list that is not empty, of distinct names.
ValidNodes ==
    /\ IsFiniteSet(Nodes) /\ Nodes # {}
    /\ \A m, n \in Nodes : Rank[m] = Rank[n] => m = n
    /\ Capacity \in [Nodes -> Nat \ {0}]

\* _validate_policy
ValidPolicy ==
    /\ MaxCluster \in Nat \ {0} /\ MaxPerZone \in Nat \ {0}
    /\ MinCapacityPercent \in 1..Full /\ ImageFailurePercent \in 1..Full
    /\ SignatureZones \in Nat \ {0} /\ RestartLimit \in Nat
    /\ RequireReady \in BOOLEAN

ASSUME FleetAssumption ==
    /\ ValidNodes /\ ValidPolicy
    /\ ZoneOf \in [Nodes -> Zones]
    /\ ImageOf \in [Nodes -> Images]
    /\ Critical \in [Nodes -> BOOLEAN]
    /\ Writer \in [Nodes -> BOOLEAN]
    /\ SignatureOf \in [Nodes -> Signatures \cup {NoSignature}]
    /\ NoSignature \notin Signatures
    /\ Rank \in [Nodes -> Nat]
    /\ Full \in Nat \ {0}
    /\ MaxFailures \in Nat /\ MaxFailures > RestartLimit

VARIABLES
    state,      \* NodeState of each node
    failures,   \* failure_count
    fenced,     \* traffic, storage and identity fencing are proved
    ready,      \* replacement_ready
    phase,      \* "idle", "deciding" in evaluate_repair, "decided" before apply
    decisions,  \* what evaluate_repair has decided about each node so far
    restarts,   \* history: restarts of the node since it was new
    served      \* history: the nodes that served when the round was evaluated

vars == <<state, failures, fenced, ready, phase, decisions, restarts, served>>

\* No code makes a node CORDONED or DRAINING.
NodeStates == {"healthy", "suspect", "degraded", "fenced", "replacing",
               "verifying", "quarantined"}

RepairStates == {"fenced", "replacing", "verifying"}

Actions == {"hold", "restart", "fence", "replace"}

-----------------------------------------------------------------------------
(* What evaluate_repair computes from the fleet. *)

InState(S) == {n \in Nodes : state[n] \in S}

Serving == InState({"healthy", "suspect"})

Units(S) == MapThenSumSet(LAMBDA n : Capacity[n], S)

\* At least the minimum percentage of the fleet's capacity, were only S to serve.
AboveFloor(S) == Full * Units(S) >= MinCapacityPercent * Units(Nodes)

Unhealthy == {n \in Nodes \ Serving : SignatureOf[n] # NoSignature}

BadImage(image) ==
    LET population == {n \in Nodes : ImageOf[n] = image}
        failed == Unhealthy \cap population
    IN  failed # {} /\ Full * Cardinality(failed) >= ImageFailurePercent * Cardinality(population)

WideSignature(s) ==
    LET zones == {ZoneOf[n] : n \in {m \in Unhealthy : SignatureOf[m] = s}} IN
    zones # {} /\ Cardinality(zones) >= SignatureZones

Systemic == (\E image \in Images : BadImage(image)) \/ (\E s \in Signatures : WideSignature(s))

\* Mutated form: the limit is off by one.
MayRestartOnceMore(n) == state[n] = "suspect" /\ failures[n] <= RestartLimit + 1

MayRestart(n) == state[n] = "suspect" /\ failures[n] <= RestartLimit

Decided(action) == {n \in Nodes : decisions[n] = action}

Candidates == InState({"suspect", "degraded"})

\* The sort key: critical nodes first, then the most failures, then zone and name.
Before(m, n) ==
    \/ Critical[m] /\ ~Critical[n]
    \/ Critical[m] = Critical[n] /\ failures[m] > failures[n]
    \/ Critical[m] = Critical[n] /\ failures[m] = failures[n] /\ Rank[m] < Rank[n]

IsNext(n) ==
    /\ n \in Candidates \cap Decided("none")
    /\ \A m \in (Candidates \cap Decided("none")) \ {n} : Before(n, m)

\* Mutated form: fencing a node does not count as a repair.
RepairsReplaceOnly == InState(RepairStates) \cup Decided("replace")

\* cluster_repairs and zone_repairs: those under way and those decided.
Repairs == InState(RepairStates) \cup Decided("fence") \cup Decided("replace")

WithinLimits(n) ==
    /\ Cardinality(Repairs) < MaxCluster
    /\ Cardinality({m \in Repairs : ZoneOf[m] = ZoneOf[n]}) < MaxPerZone

GateOpen ==
    RequireReady =>
        /\ Decided("replace") = {}
        /\ InState({"replacing"}) # {} => \E n \in InState({"replacing"}) : ready[n]

\* Mutated form: the projection forgets to leave the node out.
RemovableUnprojected(n) == WithinLimits(n) /\ GateOpen /\ AboveFloor(Serving)

Removable(n) == WithinLimits(n) /\ GateOpen /\ AboveFloor(Serving \ {n})

\* Mutated form: the fences are asked of degraded writers only.
MustFenceDegraded(n) == Writer[n] /\ ~fenced[n] /\ state[n] = "degraded"

MustFence(n) == Writer[n] /\ ~fenced[n]

Decision(n) ==
    IF MayRestart(n) THEN "restart"
    ELSE IF ~Removable(n) THEN "hold"
    ELSE IF MustFence(n) THEN "fence" ELSE "replace"

-----------------------------------------------------------------------------
(* The controller. *)

fleet == <<state, failures, fenced, ready>>

Undecided == [n \in Nodes |-> "none"]

\* With global_disable, or a systemic failure, the result has no decisions.
Evaluate(global_disable) ==
    /\ phase = "idle"
    /\ phase' = IF global_disable \/ Systemic THEN "decided" ELSE "deciding"
    /\ served' = Serving
    /\ UNCHANGED <<fleet, decisions, restarts>>

Decide(n) ==
    /\ phase = "deciding"
    /\ IsNext(n)
    /\ decisions' = [decisions EXCEPT ![n] = Decision(n)]
    /\ UNCHANGED <<fleet, phase, restarts, served>>

Return ==
    /\ phase = "deciding"
    /\ Candidates \cap Decided("none") = {}
    /\ phase' = "decided"
    /\ UNCHANGED <<fleet, decisions, restarts, served>>

NextState(n) ==
    CASE decisions[n] = "restart" -> "verifying"
      [] decisions[n] = "fence"   -> "fenced"
      [] decisions[n] = "replace" -> "replacing"
      [] OTHER                    -> state[n]

\* Mutated form: the decisions are not used up.
ApplyDecisionsKept ==
    /\ phase = "decided"
    /\ phase' = "idle"
    /\ state' = [n \in Nodes |-> NextState(n)]
    /\ restarts' = [n \in Nodes |->
            IF decisions[n] = "restart" THEN restarts[n] + 1 ELSE restarts[n]]
    /\ served' = {}
    /\ UNCHANGED <<failures, fenced, ready, decisions>>

ApplyDecisions ==
    /\ phase = "decided"
    /\ phase' = "idle"
    /\ state' = [n \in Nodes |-> NextState(n)]
    /\ decisions' = Undecided
    /\ restarts' = [n \in Nodes |->
            IF decisions[n] = "restart" THEN restarts[n] + 1 ELSE restarts[n]]
    /\ served' = {}
    /\ UNCHANGED <<failures, fenced, ready>>

-----------------------------------------------------------------------------
(* The fleet, as its owner learns of it: the lab's README.md:104-112 says    *)
(* what makes a node enter and leave each state.                             *)

Moves(n, from, to) ==
    /\ phase # "deciding"
    /\ state[n] \in from
    /\ state' = [state EXCEPT ![n] = to]
    /\ UNCHANGED <<phase, decisions, served>>

\* A new anomaly, the failed verification of a restart, or a failure that repeats.
Fails(n) ==
    /\ \/ Moves(n, {"healthy"}, "suspect")
       \/ ~ready[n] /\ Moves(n, {"verifying"}, "suspect")
       \/ Moves(n, {"suspect"}, "degraded")
    /\ failures' = [failures EXCEPT ![n] = IF @ < MaxFailures THEN @ + 1 ELSE @]
    /\ UNCHANGED <<fenced, ready, restarts>>

\* A suspicion that clears, or a restart that is verified.
Recovers(n) ==
    /\ \/ Moves(n, {"suspect"}, "healthy")
       \/ ~ready[n] /\ Moves(n, {"verifying"}, "healthy")
    /\ UNCHANGED <<failures, fenced, ready, restarts>>

ProveFences(n) ==
    /\ Writer[n] /\ ~fenced[n]
    /\ Moves(n, {"degraded", "fenced"}, state[n])
    /\ fenced' = [fenced EXCEPT ![n] = TRUE]
    /\ UNCHANGED <<failures, ready, restarts>>

\* The operator replaces a node whose fences are complete.
HardReplace(n) ==
    /\ fenced[n]
    /\ Moves(n, {"fenced"}, "replacing")
    /\ UNCHANGED <<failures, fenced, ready, restarts>>

BecomesReady(n) ==
    /\ ~ready[n]
    /\ Moves(n, {"replacing"}, "replacing")
    /\ ready' = [ready EXCEPT ![n] = TRUE]
    /\ UNCHANGED <<failures, fenced, restarts>>

StartsVerifying(n) ==
    /\ ready[n]
    /\ Moves(n, {"replacing"}, "verifying")
    /\ UNCHANGED <<failures, fenced, ready, restarts>>

\* The replacement is a new node, or one that is not trusted.
VerifiesReplacement(n) ==
    /\ ready[n]
    /\ \/ /\ Moves(n, {"verifying"}, "healthy")
          /\ failures' = [failures EXCEPT ![n] = 0]
          /\ fenced' = [fenced EXCEPT ![n] = FALSE]
          /\ ready' = [ready EXCEPT ![n] = FALSE]
          /\ restarts' = [restarts EXCEPT ![n] = 0]
       \/ /\ Moves(n, {"verifying"}, "quarantined")
          /\ UNCHANGED <<failures, fenced, ready, restarts>>

Init ==
    /\ state = [n \in Nodes |-> "healthy"]
    /\ failures = [n \in Nodes |-> 0]
    /\ fenced = [n \in Nodes |-> FALSE]
    /\ ready = [n \in Nodes |-> FALSE]
    /\ phase = "idle"
    /\ decisions = Undecided
    /\ restarts = [n \in Nodes |-> 0]
    /\ served = {}

Controller ==
    \/ \E global_disable \in BOOLEAN : Evaluate(global_disable)
    \/ \E n \in Nodes : Decide(n)
    \/ Return
    \/ ApplyDecisions

FleetChanges(n) ==
    \/ Fails(n)
    \/ Recovers(n)
    \/ ProveFences(n)
    \/ HardReplace(n)
    \/ BecomesReady(n)
    \/ StartsVerifying(n)
    \/ VerifiesReplacement(n)

Next == Controller \/ \E n \in Nodes : FleetChanges(n)

Spec == Init /\ [][Next]_vars

-----------------------------------------------------------------------------
(* Correctness. *)

\* Types, and the shape of a result: a decision is taken only in a round, once,
\* and none is left when the next round begins.
TypeOK ==
    /\ state \in [Nodes -> NodeStates]
    /\ failures \in [Nodes -> 0 .. MaxFailures]
    /\ fenced \in [Nodes -> BOOLEAN]
    /\ ready \in [Nodes -> BOOLEAN]
    /\ phase \in {"idle", "deciding", "decided"}
    /\ decisions \in [Nodes -> Actions \cup {"none"}]
    /\ restarts \in [Nodes -> Nat]
    /\ served \subseteq Nodes
    /\ phase = "idle" => decisions = Undecided

\* README: the per-zone and cluster limits hold for the nodes that are being
\* replaced, or fenced to be replaced, at any time, although a result is applied to
\* a fleet that has changed since.  (Restarts are not limited: see the README.)
RepairsWithinLimits ==
    LET out == InState({"fenced", "replacing"}) IN
    /\ Cardinality(out) <= MaxCluster
    /\ \A z \in Zones : Cardinality({n \in out : ZoneOf[n] = z}) <= MaxPerZone

\* README: a writer is fenced before it is replaced, whichever of the two ways to
\* REPLACING it takes and whatever happens between a decision and its application.
WriterFencedBeforeReplaced ==
    \A n \in Nodes : Writer[n] /\ state[n] = "replacing" => fenced[n]

\* README, "endless restart loops": a node is restarted at most RestartLimit times
\* before it is replaced, however its failures and the rounds interleave.
RestartsBounded == \A n \in Nodes : restarts[n] <= RestartLimit

\* The nodes that a result takes out by its guarded branches.
Removed == Decided("fence") \cup Decided("replace")

\* apply_decisions on a fleet in which the same nodes serve as when it was evaluated.
AppliesInTime == ApplyDecisions /\ served = Serving

\* What the check of one candidate at a time does promise: a result that restarts no
\* node and removes some, at most one of them serving, leaves, once it is applied in
\* time, a fleet at or above the floor.  (A restart takes its node out of capacity with no
\* check of the floor, and two removals are each checked without the other.)
LoneRemovalKeepsFloor ==
    [][(/\ AppliesInTime
        /\ Decided("restart") = {}
        /\ Removed # {}
        /\ Cardinality(Removed \cap Serving) <= 1) => AboveFloor(Serving')]_vars

\* README, first safety invariant, for the round as a whole: repair removes
\* capacity only when the fleet that is left remains above policy.
RoundKeepsFloor ==
    [][AppliesInTime /\ Serving' # Serving => AboveFloor(Serving')]_vars

=============================================================================
