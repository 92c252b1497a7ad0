-------------------------- MODULE NodeRepairProofs --------------------------
(***************************************************************************)
(* Machine-checked proofs about NodeRepair, for every fleet and policy: the *)
(* types, the fencing of writers, the bound on restarts and the limits on   *)
(* repairs, although a result is applied to a fleet that has changed since;  *)
(* and what a round leaves of the capacity when it has not.                  *)
(***************************************************************************)
EXTENDS NodeRepair, FiniteSetTheorems, TLAPS

\* A decision is about a node that has not left the states a candidate can reach
\* by failing and recovering.
PendingOpen ==
    \A n \in Nodes : decisions[n] # "none" => state[n] \in {"healthy", "suspect", "degraded"}

\* Readiness is that of a replacement, from the time it exists.
ReadyOnlyReplacement ==
    \A n \in Nodes : ready[n] => state[n] \in {"replacing", "verifying", "quarantined"}

\* Every restart answers a failure of its own, so a node that has failed has one
\* restart fewer than failures, and so has one that is to be restarted.
RestartsCounted ==
    \A n \in Nodes :
        /\ restarts[n] <= failures[n]
        /\ state[n] \in {"suspect", "degraded"} => restarts[n] < failures[n]
        /\ decisions[n] = "restart" => restarts[n] < failures[n] /\ restarts[n] < RestartLimit

\* Nothing withdraws the fences between a decision to replace and its application.
PendingFenced ==
    \A n \in Nodes : Writer[n] /\ decisions[n] = "replace" => fenced[n]

\* The nodes out for repair, and those that will be once the result is applied.
Committed == InState({"fenced", "replacing"}) \cup Decided("fence") \cup Decided("replace")

InZone(S, z) == {n \in S : ZoneOf[n] = z}

CommittedWithinLimits ==
    /\ Cardinality(Committed) <= MaxCluster
    /\ \A z \in Zones : Cardinality(InZone(Committed, z)) <= MaxPerZone

RepairInv ==
    /\ TypeOK
    /\ PendingOpen
    /\ ReadyOnlyReplacement
    /\ RestartsCounted
    /\ RestartsBounded
    /\ PendingFenced
    /\ WriterFencedBeforeReplaced

-----------------------------------------------------------------------------
(* The invariant of each node. *)

LEMMA InitRepairInv == Init => RepairInv
<1> SUFFICES ASSUME Init PROVE RepairInv
  OBVIOUS
<1>1. TypeOK
  BY FleetAssumption DEF Init, TypeOK, FleetAssumption, NodeStates, Actions, Undecided
<1>2. PendingOpen /\ ReadyOnlyReplacement /\ PendingFenced /\ WriterFencedBeforeReplaced
  BY DEF Init, Undecided, PendingOpen, ReadyOnlyReplacement, PendingFenced,
         WriterFencedBeforeReplaced
<1>3. RestartsCounted /\ RestartsBounded
  BY FleetAssumption
  DEF Init, Undecided, FleetAssumption, ValidPolicy, RestartsCounted, RestartsBounded
<1>4. QED
  BY <1>1, <1>2, <1>3 DEF RepairInv

\* evaluate_repair decides about a suspect or degraded node: a restart while its
\* failures are within the limit, a replacement of a writer once it is fenced.
LEMMA DecideRepairInv ==
    ASSUME RepairInv, NEW n \in Nodes, Decide(n)
    PROVE  RepairInv'
<1>1. /\ Decision(n) \in Actions
      /\ Decision(n) = "restart" => state[n] = "suspect" /\ failures[n] <= RestartLimit
      /\ Decision(n) = "replace" /\ Writer[n] => fenced[n]
  BY DEF Decision, MayRestart, MustFence, Actions
<1>2. state[n] \in {"suspect", "degraded"}
  BY DEF Decide, IsNext, Candidates, InState
<1>3. /\ decisions' = [decisions EXCEPT ![n] = Decision(n)]
      /\ phase = "deciding"
      /\ UNCHANGED <<state, failures, fenced, ready, phase, restarts, served>>
  BY DEF Decide, fleet
<1>4. TypeOK'
  BY <1>1, <1>3 DEF RepairInv, TypeOK
<1>5. PendingOpen' /\ PendingFenced' /\ ReadyOnlyReplacement'
  BY <1>1, <1>2, <1>3 DEF RepairInv, TypeOK, PendingOpen, PendingFenced, ReadyOnlyReplacement
<1>6. RestartsCounted'
  BY <1>1, <1>2, <1>3, FleetAssumption
  DEF RepairInv, TypeOK, RestartsCounted, FleetAssumption, ValidPolicy
<1>7. RestartsBounded' /\ WriterFencedBeforeReplaced'
  BY <1>3 DEF RepairInv, RestartsBounded, WriterFencedBeforeReplaced
<1>8. QED
  BY <1>4, <1>5, <1>6, <1>7 DEF RepairInv

\* apply_decisions restarts, fences and replaces what was decided, whatever has
\* become of the nodes since.
LEMMA ApplyRepairInv ==
    ASSUME RepairInv, ApplyDecisions
    PROVE  RepairInv'
<1>1. /\ \A n \in Nodes : state'[n] = NextState(n)
      /\ \A n \in Nodes : restarts'[n] =
            IF decisions[n] = "restart" THEN restarts[n] + 1 ELSE restarts[n]
      /\ \A n \in Nodes : decisions'[n] = "none"
      /\ UNCHANGED <<failures, fenced, ready>>
  BY DEF ApplyDecisions, Undecided
<1>2. ASSUME NEW n \in Nodes
      PROVE  /\ NextState(n) \in NodeStates
             /\ decisions[n] = "restart" => NextState(n) = "verifying"
             /\ decisions[n] = "fence" => NextState(n) = "fenced"
             /\ decisions[n] = "replace" => NextState(n) = "replacing"
             /\ decisions[n] \notin {"restart", "fence", "replace"} => NextState(n) = state[n]
  BY DEF NextState, RepairInv, TypeOK, NodeStates
<1>3. TypeOK'
  <2>1. restarts' \in [Nodes -> Nat]
    BY DEF ApplyDecisions, RepairInv, TypeOK
  <2>2. state' \in [Nodes -> NodeStates]
    BY <1>2 DEF ApplyDecisions
  <2>3. QED
    BY <2>1, <2>2 DEF ApplyDecisions, RepairInv, TypeOK, Undecided
<1>4. PendingOpen' /\ PendingFenced'
  BY <1>1 DEF PendingOpen, PendingFenced
<1>5. ReadyOnlyReplacement'
  BY <1>1, <1>2 DEF RepairInv, TypeOK, Actions, PendingOpen, ReadyOnlyReplacement
<1>6. RestartsCounted' /\ RestartsBounded'
  BY <1>1, <1>2, FleetAssumption
  DEF RepairInv, TypeOK, Actions, RestartsCounted, RestartsBounded, FleetAssumption, ValidPolicy
<1>7. WriterFencedBeforeReplaced'
  BY <1>1, <1>2 DEF RepairInv, PendingFenced, WriterFencedBeforeReplaced
<1>8. QED
  BY <1>3, <1>4, <1>5, <1>6, <1>7 DEF RepairInv

-----------------------------------------------------------------------------
(* The fleet's own steps. *)

LEMMA FailsRepairInv ==
    ASSUME RepairInv, NEW n \in Nodes, Fails(n)
    PROVE  RepairInv'
<1> DEFINE to == IF state[n] = "suspect" THEN "degraded" ELSE "suspect"
<1>1. /\ state[n] \in {"healthy", "verifying", "suspect"}
      /\ state[n] = "verifying" => ~ready[n]
      /\ state' = [state EXCEPT ![n] = to]
      /\ failures' = [failures EXCEPT ![n] = IF @ < MaxFailures THEN @ + 1 ELSE @]
      /\ UNCHANGED <<phase, decisions, fenced, ready, restarts, served>>
  BY DEF Fails, Moves
<1>2. TypeOK'
  BY <1>1, FleetAssumption DEF RepairInv, TypeOK, NodeStates, FleetAssumption
<1>3. PendingOpen' /\ PendingFenced' /\ WriterFencedBeforeReplaced'
  BY <1>1 DEF RepairInv, TypeOK, PendingOpen, PendingFenced, WriterFencedBeforeReplaced
<1>4. ReadyOnlyReplacement'
  BY <1>1 DEF RepairInv, TypeOK, ReadyOnlyReplacement
<1>5. RestartsBounded'
  BY <1>1 DEF RepairInv, RestartsBounded
<1>6. RestartsCounted'
  <2> SUFFICES ASSUME NEW m \in Nodes
               PROVE  RestartsCounted!(m)'
    BY DEF RestartsCounted
  <2>1. /\ restarts[m] \in Nat /\ failures[m] \in 0 .. MaxFailures
        /\ MaxFailures \in Nat /\ RestartLimit \in Nat /\ RestartLimit < MaxFailures
        /\ restarts[m] <= RestartLimit
        /\ RestartsCounted!(m)
    BY FleetAssumption
    DEF RepairInv, TypeOK, FleetAssumption, ValidPolicy, RestartsBounded, RestartsCounted
  <2>2. CASE m = n
    <3>1. failures'[m] = IF failures[m] < MaxFailures THEN failures[m] + 1 ELSE failures[m]
      BY <1>1, <2>2 DEF RepairInv, TypeOK
    <3>2. restarts[m] < failures'[m]
      BY <2>1, <3>1
    <3>3. QED
      BY <1>1, <2>1, <3>1, <3>2
  <2>3. CASE m # n
    <3>1. state'[m] = state[m] /\ failures'[m] = failures[m]
      BY <1>1, <2>3 DEF RepairInv, TypeOK
    <3>2. QED
      BY <1>1, <2>1, <3>1
  <2>4. QED
    BY <2>2, <2>3
<1>7. QED
  BY <1>2, <1>3, <1>4, <1>5, <1>6 DEF RepairInv

\* The steps that neither count a failure nor renew the node: it recovers, its
\* fences are proved, it is replaced, becomes ready, is verified or is quarantined.
LEMMA MovesRepairInv ==
    ASSUME RepairInv, NEW n \in Nodes, NEW to \in NodeStates,
           state' = [state EXCEPT ![n] = to],
           to \in {"suspect", "degraded"} => state[n] = to,
           decisions[n] # "none" => to \in {"healthy", "suspect", "degraded"},
           fenced' \in [Nodes -> BOOLEAN],
           \A m \in Nodes : fenced[m] => fenced'[m],
           to = "replacing" /\ Writer[n] => fenced'[n],
           ready' \in [Nodes -> BOOLEAN],
           \A m \in Nodes : m # n => ready'[m] = ready[m],
           ready'[n] => to \in {"replacing", "verifying", "quarantined"},
           UNCHANGED <<phase, decisions, failures, restarts, served>>
    PROVE  RepairInv'
<1>1. TypeOK'
  BY DEF RepairInv, TypeOK
<1>2. \A m \in Nodes : state'[m] = IF m = n THEN to ELSE state[m]
  BY DEF RepairInv, TypeOK
<1>3. PendingOpen'
  BY <1>2 DEF RepairInv, PendingOpen
<1>4. PendingFenced'
  BY DEF RepairInv, PendingFenced
<1>5. WriterFencedBeforeReplaced'
  BY <1>2 DEF RepairInv, WriterFencedBeforeReplaced
<1>6. ReadyOnlyReplacement'
  BY <1>2 DEF RepairInv, ReadyOnlyReplacement
<1>7. RestartsCounted' /\ RestartsBounded'
  BY <1>2 DEF RepairInv, RestartsCounted, RestartsBounded
<1>8. QED
  BY <1>1, <1>3, <1>4, <1>5, <1>6, <1>7 DEF RepairInv

\* A verified replacement is a new node: nothing of the old one is pending.
LEMMA RenewedRepairInv ==
    ASSUME RepairInv, NEW n \in Nodes,
           state[n] = "verifying",
           state' = [state EXCEPT ![n] = "healthy"],
           failures' = [failures EXCEPT ![n] = 0],
           fenced' = [fenced EXCEPT ![n] = FALSE],
           ready' = [ready EXCEPT ![n] = FALSE],
           restarts' = [restarts EXCEPT ![n] = 0],
           UNCHANGED <<phase, decisions, served>>
    PROVE  RepairInv'
<1>1. TypeOK'
  BY FleetAssumption DEF RepairInv, TypeOK, NodeStates, FleetAssumption
<1>2. decisions[n] = "none"
  BY DEF RepairInv, PendingOpen
<1>3. PendingOpen' /\ PendingFenced' /\ ReadyOnlyReplacement' /\ WriterFencedBeforeReplaced'
  BY <1>2 DEF RepairInv, TypeOK, PendingOpen, PendingFenced, ReadyOnlyReplacement,
              WriterFencedBeforeReplaced
<1>4. RestartsCounted' /\ RestartsBounded'
  BY <1>2, FleetAssumption
  DEF RepairInv, TypeOK, RestartsCounted, RestartsBounded, FleetAssumption, ValidPolicy
<1>5. QED
  BY <1>1, <1>3, <1>4 DEF RepairInv

LEMMA FleetRepairInv ==
    ASSUME RepairInv, NEW n \in Nodes, FleetChanges(n)
    PROVE  RepairInv'
<1> /\ state \in [Nodes -> NodeStates] /\ ready \in [Nodes -> BOOLEAN]
    /\ fenced \in [Nodes -> BOOLEAN]
  BY DEF RepairInv, TypeOK
<1>1. CASE Fails(n)
  BY <1>1, FailsRepairInv
<1>2. CASE Recovers(n)
  <2>1. ~ready[n]
    BY <1>2 DEF Recovers, Moves, RepairInv, ReadyOnlyReplacement
  <2>2. QED
    BY <1>2, <2>1, MovesRepairInv DEF Recovers, Moves, NodeStates
<1>3. CASE ProveFences(n)
  <2>1. state' = [state EXCEPT ![n] = state[n]] /\ state[n] \in {"degraded", "fenced"}
    BY <1>3 DEF ProveFences, Moves
  <2>2. ~ready[n] /\ (decisions[n] # "none" => state[n] = "degraded")
    BY <2>1 DEF RepairInv, ReadyOnlyReplacement, PendingOpen
  <2>3. QED
    BY <1>3, <2>1, <2>2, MovesRepairInv DEF ProveFences, Moves, NodeStates
<1>4. CASE HardReplace(n)
  <2>1. decisions[n] = "none"
    BY <1>4 DEF HardReplace, Moves, RepairInv, PendingOpen
  <2>2. QED
    BY <1>4, <2>1, MovesRepairInv DEF HardReplace, Moves, NodeStates
<1>5. CASE BecomesReady(n)
  <2>1. decisions[n] = "none" /\ (Writer[n] => fenced[n])
    BY <1>5 DEF BecomesReady, Moves, RepairInv, PendingOpen, WriterFencedBeforeReplaced
  <2>2. QED
    BY <1>5, <2>1, MovesRepairInv DEF BecomesReady, Moves, NodeStates
<1>6. CASE StartsVerifying(n)
  <2>1. decisions[n] = "none"
    BY <1>6 DEF StartsVerifying, Moves, RepairInv, PendingOpen
  <2>2. QED
    BY <1>6, <2>1, MovesRepairInv DEF StartsVerifying, Moves, NodeStates
<1>7. CASE VerifiesReplacement(n)
  <2>1. CASE Moves(n, {"verifying"}, "healthy") /\ failures' = [failures EXCEPT ![n] = 0]
             /\ fenced' = [fenced EXCEPT ![n] = FALSE] /\ ready' = [ready EXCEPT ![n] = FALSE]
             /\ restarts' = [restarts EXCEPT ![n] = 0]
    BY <2>1, RenewedRepairInv DEF Moves
  <2>2. CASE Moves(n, {"verifying"}, "quarantined")
             /\ UNCHANGED <<failures, fenced, ready, restarts>>
    <3>1. decisions[n] = "none"
      BY <2>2 DEF Moves, RepairInv, PendingOpen
    <3>2. QED
      BY <2>2, <3>1, MovesRepairInv DEF Moves, NodeStates
  <2>3. QED
    BY <1>7, <2>1, <2>2 DEF VerifiesReplacement
<1>8. QED
  BY <1>1, <1>2, <1>3, <1>4, <1>5, <1>6, <1>7 DEF FleetChanges

LEMMA NextRepairInv == RepairInv /\ [Next]_vars => RepairInv'
<1> SUFFICES ASSUME RepairInv, [Next]_vars PROVE RepairInv'
  OBVIOUS
<1>1. CASE \/ \E global_disable \in BOOLEAN : Evaluate(global_disable)
           \/ Return
           \/ UNCHANGED vars
  <2>1. UNCHANGED <<state, failures, fenced, ready, decisions, restarts>>
        /\ phase' \in {"deciding", "decided", phase}
        /\ (phase' = "idle" => phase = "idle")
        /\ served' \in {served, Serving}
    BY <1>1 DEF Evaluate, Return, vars, fleet
  <2>2. TypeOK'
    BY <2>1 DEF RepairInv, TypeOK, Serving, InState
  <2>3. QED
    BY <2>1, <2>2 DEF RepairInv, PendingOpen, ReadyOnlyReplacement, RestartsCounted,
        RestartsBounded, PendingFenced, WriterFencedBeforeReplaced
<1>2. CASE \E n \in Nodes : Decide(n)
  BY <1>2, DecideRepairInv
<1>3. CASE ApplyDecisions
  BY <1>3, ApplyRepairInv
<1>4. CASE \E n \in Nodes : FleetChanges(n)
  BY <1>4, FleetRepairInv
<1>5. QED
  BY <1>1, <1>2, <1>3, <1>4 DEF Next, Controller

-----------------------------------------------------------------------------
(* The limits. *)

LEMMA NodesFinite ==
    ASSUME NEW S \in SUBSET Nodes, NEW T \in SUBSET S
    PROVE  /\ IsFiniteSet(S)
           /\ Cardinality(S) \in Nat
           /\ Cardinality(T) \in Nat
           /\ Cardinality(T) <= Cardinality(S)
<1>1. IsFiniteSet(S) /\ IsFiniteSet(T)
  BY FleetAssumption, FS_Subset DEF FleetAssumption, ValidNodes
<1>2. QED
  BY <1>1, FS_Subset, FS_CardinalityType

\* Sets of nodes within the limits keep within them when they lose nodes.
LEMMA SubsetWithinLimits ==
    ASSUME CommittedWithinLimits, Committed' \subseteq Committed
    PROVE  CommittedWithinLimits'
<1>1. Committed \in SUBSET Nodes
  BY DEF Committed, InState, Decided
<1>2. Cardinality(Committed') <= MaxCluster
  <2>1. Cardinality(Committed') <= Cardinality(Committed)
        /\ Cardinality(Committed) \in Nat /\ Cardinality(Committed') \in Nat
    BY <1>1, NodesFinite
  <2>2. QED
    BY <2>1, FleetAssumption DEF CommittedWithinLimits, FleetAssumption, ValidPolicy
<1>3. ASSUME NEW z \in Zones
      PROVE  Cardinality(InZone(Committed', z)) <= MaxPerZone
  <2>1. InZone(Committed, z) \in SUBSET Nodes
        /\ InZone(Committed', z) \in SUBSET InZone(Committed, z)
    BY <1>1 DEF InZone
  <2>2. Cardinality(InZone(Committed', z)) <= Cardinality(InZone(Committed, z))
        /\ Cardinality(InZone(Committed, z)) \in Nat
        /\ Cardinality(InZone(Committed', z)) \in Nat
    BY <2>1, NodesFinite
  <2>3. Cardinality(InZone(Committed, z)) <= MaxPerZone
    BY DEF CommittedWithinLimits
  <2>4. QED
    BY <2>2, <2>3, FleetAssumption DEF FleetAssumption, ValidPolicy
<1>4. QED
  BY <1>2, <1>3 DEF CommittedWithinLimits, InZone

\* A node is decided for repair only while the repairs, of the cluster and of its
\* zone, are below their limits.
LEMMA DecideWithinLimits ==
    ASSUME RepairInv, CommittedWithinLimits, NEW n \in Nodes, Decide(n)
    PROVE  CommittedWithinLimits'
<1>1. /\ decisions' = [decisions EXCEPT ![n] = Decision(n)]
      /\ UNCHANGED state
      /\ decisions \in [Nodes -> Actions \cup {"none"}]
      /\ decisions[n] = "none"
  BY DEF Decide, fleet, IsNext, Decided, RepairInv, TypeOK
<1>2. CASE Decision(n) \notin {"fence", "replace"}
  <2>1. Committed' \subseteq Committed
    BY <1>1, <1>2 DEF Committed, InState, Decided
  <2>2. QED
    BY <2>1, SubsetWithinLimits
<1>3. CASE Decision(n) \in {"fence", "replace"}
  <2>1. WithinLimits(n)
    BY <1>3 DEF Decision, Removable
  <2>2. /\ Repairs \in SUBSET Nodes
        /\ Committed \in SUBSET Repairs
        /\ Committed' \in SUBSET (Repairs \cup {n})
    BY <1>1, <1>3 DEF Committed, Repairs, RepairStates, InState, Decided
  <2>3. Cardinality(Committed') <= MaxCluster
    <3>1. IsFiniteSet(Repairs) /\ Cardinality(Repairs) \in Nat
      BY <2>2, NodesFinite
    <3>2. Cardinality(Repairs \cup {n}) \in Nat
          /\ Cardinality(Repairs \cup {n}) <= Cardinality(Repairs) + 1
      <4>1. Cardinality(Repairs \cup {n}) =
               IF n \in Repairs THEN Cardinality(Repairs) ELSE Cardinality(Repairs) + 1
        BY <3>1, FS_AddElement
      <4>2. QED
        BY <3>1, <4>1
    <3>3. Cardinality(Committed') \in Nat
          /\ Cardinality(Committed') <= Cardinality(Repairs \cup {n})
      BY <2>2, NodesFinite
    <3>4. QED
      BY <2>1, <3>1, <3>2, <3>3, FleetAssumption
      DEF WithinLimits, FleetAssumption, ValidPolicy
  <2>4. ASSUME NEW z \in Zones
        PROVE  Cardinality(InZone(Committed', z)) <= MaxPerZone
    <3>1. CASE z # ZoneOf[n]
      <4>1. InZone(Committed, z) \in SUBSET Nodes
            /\ InZone(Committed', z) \in SUBSET InZone(Committed, z)
        BY <1>1, <3>1 DEF InZone, Committed, InState, Decided
      <4>2. Cardinality(InZone(Committed', z)) <= Cardinality(InZone(Committed, z))
            /\ Cardinality(InZone(Committed, z)) \in Nat
            /\ Cardinality(InZone(Committed', z)) \in Nat
        BY <4>1, NodesFinite
      <4>3. Cardinality(InZone(Committed, z)) <= MaxPerZone
        BY DEF CommittedWithinLimits
      <4>4. QED
        BY <4>2, <4>3, FleetAssumption DEF FleetAssumption, ValidPolicy
    <3>2. CASE z = ZoneOf[n]
      <4> DEFINE R == InZone(Repairs, z)
      <4>1. R \in SUBSET Nodes /\ InZone(Committed', z) \in SUBSET (R \cup {n})
            /\ R \cup {n} \in SUBSET Nodes
        BY <2>2 DEF InZone
      <4>2. Cardinality(R) < MaxPerZone
        BY <2>1, <3>2 DEF WithinLimits, InZone
      <4>3. IsFiniteSet(R) /\ Cardinality(R) \in Nat
        BY <4>1, NodesFinite
      <4>4. Cardinality(R \cup {n}) \in Nat /\ Cardinality(R \cup {n}) <= Cardinality(R) + 1
        BY <4>3, FS_AddElement
      <4>5. Cardinality(InZone(Committed', z)) \in Nat
            /\ Cardinality(InZone(Committed', z)) <= Cardinality(R \cup {n})
        BY <4>1, NodesFinite
      <4>6. QED
        BY <4>2, <4>3, <4>4, <4>5, FleetAssumption DEF FleetAssumption, ValidPolicy
    <3>3. QED
      BY <3>1, <3>2
  <2>5. QED
    BY <2>3, <2>4 DEF CommittedWithinLimits, InZone
<1>4. QED
  BY <1>2, <1>3

LEMMA FleetWithinLimits ==
    ASSUME RepairInv, CommittedWithinLimits, NEW n \in Nodes, FleetChanges(n)
    PROVE  CommittedWithinLimits'
<1>1. ASSUME NEW from, NEW to, Moves(n, from, to),
             to \in {"fenced", "replacing"} => state[n] \in {"fenced", "replacing"}
      PROVE  Committed' \subseteq Committed
  BY <1>1 DEF Moves, Committed, InState, Decided, RepairInv, TypeOK
<1>2. CASE Fails(n) \/ Recovers(n)
  BY <1>1, <1>2, SubsetWithinLimits DEF Fails, Recovers
<1>3. CASE ProveFences(n)
  <2>1. CASE state[n] = "degraded"
    BY <1>1, <1>3, <2>1, SubsetWithinLimits DEF ProveFences
  <2>2. CASE state[n] = "fenced"
    BY <1>1, <1>3, <2>2, SubsetWithinLimits DEF ProveFences
  <2>3. QED
    BY <1>3, <2>1, <2>2 DEF ProveFences, Moves
<1>4. CASE HardReplace(n)
  <2>1. state[n] \in {"fenced", "replacing"}
    BY <1>4 DEF HardReplace, Moves
  <2>2. QED
    BY <1>1, <1>4, <2>1, SubsetWithinLimits DEF HardReplace
<1>5. CASE BecomesReady(n)
  <2>1. state[n] \in {"fenced", "replacing"}
    BY <1>5 DEF BecomesReady, Moves
  <2>2. QED
    BY <1>1, <1>5, <2>1, SubsetWithinLimits DEF BecomesReady
<1>6. CASE StartsVerifying(n)
  BY <1>1, <1>6, SubsetWithinLimits DEF StartsVerifying
<1>7. CASE VerifiesReplacement(n)
  BY <1>1, <1>7, SubsetWithinLimits DEF VerifiesReplacement
<1>8. QED
  BY <1>2, <1>3, <1>4, <1>5, <1>6, <1>7 DEF FleetChanges

LEMMA NextWithinLimits ==
    RepairInv /\ CommittedWithinLimits /\ [Next]_vars => CommittedWithinLimits'
<1> SUFFICES ASSUME RepairInv, CommittedWithinLimits, [Next]_vars
             PROVE  CommittedWithinLimits'
  OBVIOUS
<1>1. CASE \/ \E global_disable \in BOOLEAN : Evaluate(global_disable)
           \/ Return
           \/ UNCHANGED vars
  <2>1. UNCHANGED <<state, decisions>>
    BY <1>1 DEF Evaluate, Return, vars, fleet
  <2>2. QED
    BY <2>1, SubsetWithinLimits DEF Committed, InState, Decided
<1>2. CASE \E n \in Nodes : Decide(n)
  BY <1>2, DecideWithinLimits
<1>3. CASE ApplyDecisions
  <2>1. \A n \in Nodes : state'[n] \in {"fenced", "replacing"} => n \in Committed
    BY <1>3 DEF ApplyDecisions, NextState, Committed, InState, Decided
  <2>2. \A n \in Nodes : decisions'[n] = "none"
    BY <1>3 DEF ApplyDecisions, Undecided
  <2>3. Committed' \subseteq Committed
    BY <2>1, <2>2 DEF Committed, InState, Decided
  <2>4. QED
    BY <2>3, SubsetWithinLimits
<1>4. CASE \E n \in Nodes : FleetChanges(n)
  BY <1>4, FleetWithinLimits
<1>5. QED
  BY <1>1, <1>2, <1>3, <1>4 DEF Next, Controller

LEMMA InitWithinLimits == Init => CommittedWithinLimits
<1> SUFFICES ASSUME Init PROVE CommittedWithinLimits
  OBVIOUS
<1>1. Committed = {}
  BY DEF Init, Undecided, Committed, InState, Decided
<1>2. \A z \in Zones : InZone(Committed, z) = {}
  BY <1>1 DEF InZone
<1>3. Cardinality({}) = 0
  BY FS_EmptySet
<1>4. Cardinality(Committed) = 0 /\ \A z \in Zones : Cardinality(InZone(Committed, z)) = 0
  BY <1>1, <1>2, <1>3, Zenon
<1>5. MaxCluster \in Nat /\ MaxPerZone \in Nat
  BY FleetAssumption DEF FleetAssumption, ValidPolicy
<1>6. QED
  BY <1>4, <1>5 DEF CommittedWithinLimits

-----------------------------------------------------------------------------
(* The floor. *)

\* The nodes that served when a round was evaluated are those that serve while it
\* decides, and what was checked then of each node to be removed is kept till the
\* result is applied.
FloorChecked ==
    /\ phase = "deciding" => served = Serving
    /\ \A n \in Removed : AboveFloor(served \ {n})

LEMMA InitFloorChecked == Init => FloorChecked
  BY DEF Init, FloorChecked, Removed, Decided, Undecided

\* A step that neither evaluates nor decides adds no removal to those checked.
LEMMA FloorFrozen ==
    ASSUME FloorChecked, served' = served, Removed' \subseteq Removed,
           phase' = "deciding" => phase = "deciding" /\ state' = state
    PROVE  FloorChecked'
<1>1. phase' = "deciding" => served' = Serving'
  BY DEF FloorChecked, Serving, InState
<1>2. \A n \in Removed' : AboveFloor(served' \ {n})
  BY DEF FloorChecked
<1>3. QED
  BY <1>1, <1>2 DEF FloorChecked

LEMMA NextFloorChecked == RepairInv /\ FloorChecked /\ [Next]_vars => FloorChecked'
<1> SUFFICES ASSUME RepairInv, FloorChecked, [Next]_vars PROVE FloorChecked'
  OBVIOUS
<1>1. CASE \E global_disable \in BOOLEAN : Evaluate(global_disable)
  <2>1. served' = Serving' /\ decisions' = Undecided
    BY <1>1 DEF Evaluate, fleet, Serving, InState, RepairInv, TypeOK
  <2>2. Removed' = {}
    BY <2>1 DEF Removed, Decided, Undecided
  <2>3. QED
    BY <2>1, <2>2 DEF FloorChecked
<1>2. ASSUME NEW n \in Nodes, Decide(n)
      PROVE  FloorChecked'
  <2>1. /\ phase = "deciding"
        /\ decisions' = [decisions EXCEPT ![n] = Decision(n)]
        /\ decisions \in [Nodes -> Actions \cup {"none"}]
        /\ UNCHANGED <<state, phase, served>>
    BY <1>2 DEF Decide, fleet, RepairInv, TypeOK
  <2>2. Decision(n) \in {"fence", "replace"} => AboveFloor(Serving \ {n})
    BY DEF Decision, Removable
  <2>3. ASSUME NEW m \in Removed'
        PROVE  AboveFloor(served' \ {m})
    <3>1. m \in Nodes /\ decisions'[m] \in {"fence", "replace"}
      BY <2>3 DEF Removed, Decided
    <3>2. CASE m = n
      BY <2>1, <2>2, <3>1, <3>2 DEF FloorChecked
    <3>3. CASE m # n
      <4>1. m \in Removed
        BY <2>1, <3>1, <3>3 DEF Removed, Decided
      <4>2. QED
        BY <2>1, <4>1 DEF FloorChecked
    <3>4. QED
      BY <3>2, <3>3
  <2>4. served' = Serving'
    BY <2>1 DEF FloorChecked, Serving, InState
  <2>5. QED
    BY <2>3, <2>4 DEF FloorChecked
<1>3. CASE Return
  BY <1>3, FloorFrozen DEF Return, Removed, Decided
<1>4. CASE ApplyDecisions
  <2>1. Removed' = {} /\ phase' = "idle"
    BY <1>4 DEF ApplyDecisions, Removed, Decided, Undecided
  <2>2. QED
    BY <2>1 DEF FloorChecked
<1>5. ASSUME NEW n \in Nodes, FleetChanges(n)
      PROVE  FloorChecked'
  <2>1. phase # "deciding" /\ UNCHANGED <<phase, decisions, served>>
    BY <1>5 DEF FleetChanges, Fails, Recovers, ProveFences, HardReplace, BecomesReady,
       StartsVerifying, VerifiesReplacement, Moves
  <2>2. QED
    BY <2>1, FloorFrozen DEF Removed, Decided
<1>6. CASE UNCHANGED vars
  BY <1>6, FloorFrozen DEF vars, Removed, Decided
<1>7. QED
  BY <1>1, <1>2, <1>3, <1>4, <1>5, <1>6 DEF Next, Controller

\* A set of nodes that has at most one of the nodes that serve: taking it out is
\* taking out one of its members.
LEMMA LoneMember ==
    ASSUME NEW R \in SUBSET Nodes, NEW S, R # {}, Cardinality(R \cap S) <= 1
    PROVE  \E n \in R : S \ R = S \ {n}
<1>1. PICK n \in R : R \cap S \subseteq {n}
  <2>1. CASE R \cap S = {}
    BY <2>1
  <2>2. CASE R \cap S # {}
    <3>1. PICK m : m \in R \cap S
      BY <2>2
    <3>2. IsFiniteSet(R \cap S)
      <4>1. (R \cap S) \in SUBSET Nodes
        OBVIOUS
      <4>2. QED
        BY <4>1, NodesFinite
    <3>3. ASSUME NEW k \in (R \cap S), k # m
          PROVE  FALSE
      <4>1. Cardinality({k, m}) = 2
        <5>1. IsFiniteSet({m}) /\ Cardinality({m}) = 1
          BY FS_Singleton
        <5>2. Cardinality({m} \cup {k}) = Cardinality({m}) + 1
          BY <3>3, <5>1, FS_AddElement
        <5>3. {m} \cup {k} = {k, m}
          OBVIOUS
        <5>4. QED
          BY <5>1, <5>2, <5>3
      <4>2. {k, m} \in SUBSET (R \cap S)
        BY <3>1
      <4>3. Cardinality({k, m}) <= Cardinality(R \cap S)
            /\ Cardinality(R \cap S) \in Nat
        BY <3>2, <4>2, FS_Subset, FS_CardinalityType
      <4>4. QED
        BY <4>1, <4>3
    <3>4. QED
      BY <3>1, <3>3
  <2>3. QED
    BY <2>1, <2>2
<1>2. S \ R = S \ {n}
  BY <1>1
<1>3. QED
  BY <1>2

\* What serves after a result without restarts is applied: all but what it removes.
LEMMA ApplyWithoutRestarts ==
    ASSUME RepairInv, ApplyDecisions, Decided("restart") = {}
    PROVE  Serving' = Serving \ Removed
<1>1. /\ state' = [n \in Nodes |-> NextState(n)]
      /\ \A n \in Nodes : decisions[n] \in Actions \cup {"none"}
      /\ \A n \in Nodes : decisions[n] # "restart"
  BY DEF ApplyDecisions, RepairInv, TypeOK, Decided
<1>2. ASSUME NEW n \in Nodes
      PROVE  state'[n] \in {"healthy", "suspect"}
                <=> n \notin Removed /\ state[n] \in {"healthy", "suspect"}
  <2>1. CASE decisions[n] \in {"fence", "replace"}
    BY <1>1, <2>1 DEF NextState, Removed, Decided
  <2>2. CASE decisions[n] \in {"hold", "none"}
    BY <1>1, <2>2 DEF NextState, Removed, Decided
  <2>3. QED
    BY <1>1, <2>1, <2>2 DEF Actions
<1>3. QED
  BY <1>2 DEF Serving, InState, Removed, Decided

-----------------------------------------------------------------------------
(* The theorems. *)

\* The invariant of every node holds always: the types, and what its failures,
\* its readiness and a pending decision say of each other.
THEOREM RepairInvariant == Spec => []RepairInv
<1>1. QED
  BY InitRepairInv, NextRepairInv, PTL DEF Spec

\* The state of the controller and of the fleet keeps its types, and a round
\* begins with no decision left over.
THEOREM RepairTyped == Spec => []TypeOK
<1>1. RepairInv => TypeOK
  BY DEF RepairInv
<1>2. QED
  BY <1>1, RepairInvariant, PTL

\* A writer is replaced by evaluate_repair, or by its operator, only with its
\* fences proved, whatever happens between a decision and its application.
THEOREM WritersFenced == Spec => []WriterFencedBeforeReplaced
<1>1. RepairInv => WriterFencedBeforeReplaced
  BY DEF RepairInv
<1>2. QED
  BY <1>1, RepairInvariant, PTL

\* No node is restarted more than restart_limit times before it is replaced.
THEOREM RestartsAreBounded == Spec => []RestartsBounded
<1>1. RepairInv => RestartsBounded
  BY DEF RepairInv
<1>2. QED
  BY <1>1, RepairInvariant, PTL

\* The nodes fenced or replacing keep within the limits of the cluster and of their
\* zones, with those that a result not yet applied will add to them.
THEOREM LimitsKept == Spec => []RepairsWithinLimits
<1>1. Spec => []CommittedWithinLimits
  BY InitWithinLimits, NextWithinLimits, RepairInvariant, PTL DEF Spec
<1>2. CommittedWithinLimits => RepairsWithinLimits
  <2> SUFFICES ASSUME CommittedWithinLimits PROVE RepairsWithinLimits
    OBVIOUS
  <2> DEFINE out == InState({"fenced", "replacing"})
  <2>1. out \in SUBSET Committed /\ Committed \in SUBSET Nodes
    BY DEF Committed, InState, Decided
  <2>2. Cardinality(out) <= MaxCluster
    <3>1. Cardinality(out) <= Cardinality(Committed)
          /\ Cardinality(out) \in Nat /\ Cardinality(Committed) \in Nat
      BY <2>1, NodesFinite
    <3>2. QED
      BY <3>1, FleetAssumption DEF CommittedWithinLimits, FleetAssumption, ValidPolicy
  <2>3. ASSUME NEW z \in Zones
        PROVE  Cardinality({n \in out : ZoneOf[n] = z}) <= MaxPerZone
    <3>1. {n \in out : ZoneOf[n] = z} \in SUBSET InZone(Committed, z)
          /\ InZone(Committed, z) \in SUBSET Nodes
      BY <2>1 DEF InZone
    <3>2. Cardinality({n \in out : ZoneOf[n] = z}) <= Cardinality(InZone(Committed, z))
          /\ Cardinality({n \in out : ZoneOf[n] = z}) \in Nat
          /\ Cardinality(InZone(Committed, z)) \in Nat
      BY <3>1, NodesFinite
    <3>3. QED
      BY <3>2, FleetAssumption DEF CommittedWithinLimits, FleetAssumption, ValidPolicy
  <2>4. QED
    BY <2>2, <2>3 DEF RepairsWithinLimits
<1>3. QED
  BY <1>1, <1>2, PTL

\* A result that restarts no node and removes some, at most one of them serving, leaves
\* the fleet at or above the floor, if the nodes that serve when it is applied are
\* those that served when it was evaluated.
THEOREM LoneRemovalIsSafe == Spec => LoneRemovalKeepsFloor
<1>1. Spec => []FloorChecked
  BY InitFloorChecked, NextFloorChecked, RepairInvariant, PTL DEF Spec
<1>2. ASSUME RepairInv, FloorChecked, AppliesInTime, Decided("restart") = {},
             Removed # {}, Cardinality(Removed \cap Serving) <= 1
      PROVE  AboveFloor(Serving')
  <2>1. Serving' = Serving \ Removed
    BY <1>2, ApplyWithoutRestarts DEF AppliesInTime
  <2>2. Removed \in SUBSET Nodes
    BY DEF Removed, Decided
  <2>3. PICK n \in Removed : Serving \ Removed = Serving \ {n}
    BY <1>2, <2>2, LoneMember
  <2>4. AboveFloor(Serving \ {n})
    BY <1>2, <2>3 DEF FloorChecked, AppliesInTime
  <2>5. QED
    BY <2>1, <2>3, <2>4
<1>3. RepairInv /\ FloorChecked =>
        [(/\ AppliesInTime
          /\ Decided("restart") = {}
          /\ Removed # {}
          /\ Cardinality(Removed \cap Serving) <= 1) => AboveFloor(Serving')]_vars
  BY <1>2
<1>4. QED
  BY <1>1, <1>3, RepairInvariant, PTL DEF LoneRemovalKeepsFloor

=============================================================================
