# Verification of the platform-engineering handbook's lab programs

The repository is a handbook whose chapters are backed by small Python
programs: controllers, brokers, pipelines and migrations that encode the
protocols the text teaches. This directory models those programs in TLA+,
checks them with TLC and proves the central results with TLAPS. Paths below are
relative to the repository root; line numbers are those of the commit modelled.

    tlc -workers 2 -config MCDRFailover.cfg MCDRFailover.tla     # one run
    tlapm DRFailoverProofs.tla                                   # one proof module

`PROJECT.json` maps every definition to the lines it stands for, and lists runs,
mutated definitions (each property has one that breaks it), findings, hazards
and theorems.

## 1. The system and its parts

The programs are independent of each other: they share no state and send each
other no messages. What interacts is inside each one.

| Part | State | Operations | What is hard |
|---|---|---|---|
| DR controller, `labs/reliability/02-…/dr_failover.py` | a context: state, two regions (epoch, accepting writes, evidence), traffic percentage, flags | `reconcile_once`, `run_until_stable`, `write_allowed` | evidence that changes between calls, aborts in the middle of a shift, authority moving there and back, a step budget |
| Event pipeline, `tracks/aws/labs/03-…/pipeline.py` | bounded queue per shard, bounded work queue, inbox table, DLQ, counters | producer, routers, workers, retries, `run` | tasks that block each other, duplicates, joins and cancellation |
| Shard cluster, `labs/distributed-systems/05-…/shard_rebalance_demo.py` | records per node, shard map with epochs, write log, migrations, cached routes | `write`, `begin_migration`, `copy_snapshot`, `catch_up`, `cutover`, `cleanup` | writes during a move, stale routes, several migrations |
| Outbox, `labs/distributed-systems/02-…/outbox_lab.py` | orders, outbox, inbox, fulfilment in one database; deliveries in another | `create_order`, `relay`, `consume`, `reset` | two databases with a crash between their commits, concurrent processes |
| Queue, `labs/distributed-systems/06-…/queue_delivery_demo.py` | active messages, DLQ, receipts; consumer inbox | `enqueue`, `receive`, `ack`, `nack`, `process` | leases that run out under a worker, group order, receive budget |
| Node repair, `labs/kubernetes/01-…/node_repair.py` | fleet of nodes with states, failures, fences | `evaluate_repair`, `apply_decisions` | guards computed from one snapshot and applied together |
| Fencing, `labs/distributed-systems/03-…/fencing_demo.py` | active lease, next token, highest token seen | `acquire`, `write` | a paused holder |
| Cache, `labs/distributed-systems/04-…/cache_race_demo.py` | value, version, version fence | invalidate, fill | a slow fill after an invalidation, invalidations out of order |
| Admission, `labs/reliability/03-…/overload_lab.py`; telemetry, `labs/observability/01-…/telemetry_lab.py` | units consumed in all, by tenant, by priority, within one call | `admit`, `ingest` | reserves and quotas at their limits; what is refused must not count |
| Rollout planner, `labs/platform-engineering/05-…/plan_rollout.py` | remaining clusters of a ring, batches planned | decide, batch, print | two limits on one greedy pass, windows past midnight, ring order |
| Autoscaling, `labs/aws/05-…/autoscaling_sim.py` | none between calls | `calculate_hpa`, `simulate_capacity_realization` | ceilings of floats, limits that contradict, two waves of capacity |
| Retry simulator, `labs/distributed-systems/01-…/retry_simulator.py` | the stack of nested calls, calls per layer | `call`, `run` | attempts multiply along the chain |
| Mesh contract, `labs/service-mesh/01-…/mesh_contract_lab.py` | none | five formulas | nothing happens between two calls |
| Validators, error-budget calculator, probe, mock interviews | none | check or print | nothing happens between two steps |

What makes each modelled part correct is stated by its properties in section 3.

## 2. Modules

| Module | What it is |
|---|---|
| `DRFailover` | the DR controller, its evidence and its writers |
| `DRFailoverProofs` | TLAPS proofs about it |
| `EventPipeline` | the asyncio pipeline |
| `PipelineProofs` | TLAPS proofs about it |
| `ShardCluster` | the sharded store with routers and migrations |
| `ShardClusterProofs` | TLAPS proofs about it: types, epochs, former owners, survival of acknowledged writes |
| `OrderFulfilment` | what the outbox promises, abstractly |
| `TransactionalOutbox` | the outbox, shown to implement `OrderFulfilment` |
| `OutboxProofs` | TLAPS proofs about it, the refinement included |
| `QueueBroker` | the broker and its idempotent consumer |
| `QueueBrokerProofs` | TLAPS proofs about it |
| `NodeRepair` | the repair controller and the fleet it works on |
| `NodeRepairProofs` | TLAPS proofs about it |
| `NewerWins` | what a version fence promises, abstractly |
| `LeaseFencing`, `CacheFence` | the fenced resource and the fenced cache, shown to implement `NewerWins` |
| `VersionFenceProofs` | TLAPS proofs about both, the refinements included |
| `AdmissionControl`, `TelemetryIngest` | the loops of `admit` and `ingest` |
| `RolloutPlanner` | the fleet planner |
| `CapacityPlanner` | the HPA decision and the capacity that follows it |
| `RetryChain` | nested retries |
| `Sums` | sums and products over sets, for the labs that compare or multiply them |
| `PlannersProofs` | TLAPS proofs about the five modules above and `Sums` |
| `MC*` | values for constants; one `.cfg` per run |

**DRFailover.** `ctx` is the `DRContext` that its owner holds. Each branch of
`reconcile_once` is a relation `B(c, d)` between the context passed in and the
one returned; `Reconciled` is their disjunction, a function but for the rounding
of percentages. The eight
health readings of a region are the set `failing` of the gates they fail, so a
probe replaces that set. `ReconcileOnce` is one call on fresh evidence.
`run_until_stable` is the loop `RunUntilStable`, `LoopContinues`, `LoopReturns`,
`LoopRaises` on a private `current`: its evidence is frozen when it starts, each
call brings its own `maximum_steps` (`limit`), and a raised `DRError` throws the
call's work away. `Write(r)` is a client presenting any
epoch issued so far to region `r`. Evidence is external: the program's callers
set those fields. Percentages are floats, and both validators accept any in their
range, so the model does not compute with whole percents. `Full` is 100 percent in
units of the smallest difference between two percentages; a sum or a difference is
any number at most `Rounding` units from the exact one, then clamped as the code
does (`Raised`, `Lowered`). Excluded is only a traffic step that is no larger than
the error of adding it (2^-47 percent below 128): with it the traffic need not move.

**EventPipeline.** A coroutine runs from one blocking await to the next, so that
is the grain of an action. A queue's unfinished count is kept apart from its
contents, since `join` waits for the former and `task_done` lowers it later than
`get` shortens the latter. Sleeps are unbounded nondeterminism; the producer's
deadline may pass at any moment (`ProducerReturns`). A duplicate may or may not
follow each event; a failure is transient or not by choice; poison is a property
of the event. The final cancellation is `main = "done"`: no task moves after it.

**ShardCluster.** Each method of `Cluster` is an action with the method's own
guards and no others, so any number of migrations, of one shard even, may be
interleaved. A record is its sequence number. `acked` and `disciplined` are
history: the last acknowledged write of each key, and whether the callers have
kept to one migration per shard and to cutovers that find nothing left to replay
(as `simulate_rebalance(safe=True)` does). `CopySnapshot` and `CatchUp` are one
step each, as the methods are.

**TransactionalOutbox.** One action per transaction. A relay reads a list of
rows, then publishes (broker commit) and marks (application commit) row by row;
a consumer reads a list, then processes (inbox and fulfilment in one
transaction) and marks. Any number run at once on lists that have gone stale,
and each may end between two commits. `OrderFulfilment` knows only orders and
how often each was fulfilled; `Promise == INSTANCE OrderFulfilment WITH created
<- orders` is the refinement mapping (`effects` maps to itself).

**QueueBroker.** Time enters the code only as `visible_at > now`, with timeouts
chosen per call, so a message becomes visible at any time. `Receive` is the
whole pass: it dead-letters the exhausted messages it meets, which may unblock
the next of the group in the same pass, and stops at the first it can deliver.
`Process` is the consumer's inbox, effect and acknowledgement, with or without
the crash before the acknowledgement. Workers hold a delivery as long as they
like. `strict` is drawn in `Init`: both orderings are checked in one run. The
lists of messages are functions of the sequence number: the active ones are never
reordered, so the code's pass over the list is a pass by sequence number
(`Discarded` is what it dead-letters, the least of `Deliverable` what it delivers).

**NodeRepair.** `Evaluate` opens the circuit breaker or begins the loop over the
candidates, `Decide` is one turn of it, `Return` ends it. The loop's counters
are what is under way plus what the round has decided so far (`Repairs`,
`GateOpen`). `ApplyDecisions` applies the result to the fleet as it is then:
failures, recoveries, fences and replacements happen before and after it. Those
are external; the lab's README says when a node leaves a state. The three fences
are one fact, because the code asks for all of them together. A restart is not
subject to the limits or the floor (the code decides it before them), so
`RepairsWithinLimits` counts fenced and replacing nodes; but once applied it takes
a serving node out of capacity like the others, since a verifying node does not
serve. `served` is history: the nodes that served when the round was evaluated, for
the properties about the floor, which compare it with those that serve at the
application. `Full` makes fractional percentages of a policy whole; those of the
fleet are exact, without the rounding of the code's quotient, which comes out the
same wherever the capacity of the same nodes is compared.

**LeaseFencing.** `granted` keeps every lease handed out, because a worker that
paused keeps its own: `Write(i)` may use any of them at any time. `author` is the
lease that wrote the resource's value. The refinement is about leases in the order
of their grants and not about tokens, so that it says what tokens are for. It
also states the window that fencing leaves open: from the grant of a lease to its
owner's first write the resource does not know of it, and the former owner may
still write. The lab's "at most one current owner may mutate" holds from that
write on.

**CacheFence.** A read and its fill are two steps; so are a commit and its
invalidation, and the invalidations of several writers come in any order. A value
is its version. Between a commit and its invalidation the cache may serve (and a
reader may fill in) the version before: `QuietCacheIsFresh` is about the time when
no invalidation is outstanding. `announced` is a history variable, the newest
version cached or invalidated for.

**AdmissionControl, TelemetryIngest.** One call each: `Admit` and `Ingest` draw
a controller or pipeline and a batch, then one action per turn of the loop, then
the report. A request is known by its position, and the list that the code sorts
first is here the set of positions yet undecided with the sort key (`Sooner`,
`Earlier`) that picks the next. `ById` and `OutcomeOf` keep the code's dictionaries, in
which requests or items that share an id share the last verdict; then the report's
counts and its units need not agree, and `AdmissionByUrgency` and `LossOnlyByPolicy`
claim they do only for distinct ids. Attributes of a telemetry item are the class
`_cardinality_reason` puts them in.

**RolloutPlanner.** `ReadInputs` is everything `main` does up to the decisions
(any refusal is exit code 2). The three loops of `create_batches` are `TakeRing`
(one ring), `ConsiderCluster` (one cluster of the greedy pass) and `CreateBatch`
(the end of a pass). The sorted list of remaining clusters is a set with its sort
key (`SortsBefore`), and the members of a batch are a set. Strings that are only
compared are numbers.

**CapacityPlanner.** `calculate_hpa` computes with floats. The model computes with
whole numbers and takes both answers where the exact ratio is on the edge of the
tolerance or the exact replica count is whole, since the rounded float may lie on
either side: two replicas at 110 of 100 millicores with a target of 20 percent are
11 by the formula and 12 by the program. All other inputs in the bounds are far
from such an edge.

**RetryChain.** `frames` is the call stack with `attempt_index` of every layer that
waits for the next. `LayeredRetryAttempts` is the formula of `overload_lab`, so the
run also checks one program's claim against the other's behaviour.

## 3. Runs

| Run | Bounds | Properties |
|---|---|---|
| `dr_failover` | canary 10, step 30, sums and differences off by up to 1, two fallible gates per region, calls with 3 or 16 steps | `TypeOK`, `AuthorityBehindFence`, `RunStabilises`, `AuthorityMovesForward`, `ShiftGrowsOnlyWhenSafe`, `ShiftEnds` |
| `dr_traffic_unchecked` (violation) | the same | `TrafficOnlyToEligible` |
| `event_pipeline` | 3 events (one poison), up to 6 copies, 2 shards, 2 workers, shard queue 1, work queue 5, 2 attempts | `TypeOK`, `OneEffectPerEvent`, `NothingLeftBehind`, `Conservation`, `RunReturns` |
| `event_pipeline_wedge` (violation) | the same, work queue 2 | `EventuallySettled` |
| `shard_cluster` | 2 nodes, 2 shards with a key each, 2 routers, 2 writes, 3 migrations | `TypeOK`, `AcknowledgedWritesSurvive`, `EpochNamesOneOwner`, `FormerOwnerFrozen` |
| `shard_lost_write` (violation) | 3 writes, 2 migrations | `EveryAcknowledgedWriteSurvives` |
| `outbox` | 2 orders, 2 relays, 2 consumers, up to 2 copies by relays, 1 crash | `TypeOK`, `EventNeverLost`, `ConsumedMeansFulfilled`, `ExactlyOneEffect`, `EveryOrderFulfilled` |
| `queue_broker` | 3 messages of one group under 2 ids, 2 workers, 2 receives | `TypeOK`, `OneBusinessEffect`, `NoMessageLost`, `EffectsInGroupOrder`, `EveryMessageSettles` |
| `node_repair` | 2 nodes in each of 2 zones (a writer, a critical node), 2 images, limits 2 and 1, floor 60 %, 2 failures per node told apart | `TypeOK`, `RepairsWithinLimits`, `WriterFencedBeforeReplaced`, `RestartsBounded`, `LoneRemovalKeepsFloor` |
| `node_repair_floor` (violation) | the same, no restarts allowed | `RoundKeepsFloor` |
| `version_fences` | 2 workers, 3 leases of 2 instants up to instant 5; 2 readers, 4 versions | `TypeOK`, `QuietCacheIsFresh`, `OwnersInOrder`, `NoResurrection` |
| `planners` | all batches of up to 4 of 5 requests (12 controllers), of 7 telemetry items (4 pipelines), of 8 clusters (5 policies, 3 hours); 360 HPA and 216 capacity inputs; chains of up to 3 layers with up to 2 retries | `TypeOK`, `AdmissionByUrgency`, `LossOnlyByPolicy`, `PlanSound`, `RecoveryIsEarliest`, `AttemptsMatchFormula` |

Why the bounds are enough:

- *DR.* `InitialEpoch` only shifts the epochs, and authority moves at most twice
  because no code leaves `normal-restored`: epochs are finite without a bound.
  All gates are treated alike except `application`, which also triggers the
  failover; hence that one and another. Exact steps of 30 from a canary of 10 end on
  0 and 100 after three; rounded ones stop one short or overshoot, so that a shift
  takes three or four. 16 is the exact number of iterations that the longest
  `run_until_stable` takes (8 + 2 × 4): with 15 it raises, and without rounding it
  does not.
  With 3 most calls raise, promotions in them included.
- *Pipeline.* One shard holds two events, so a router is busy while its queue
  fills. Two workers and a work queue of five hold more than the six copies
  there can be: a retry may find the queue full, but never all workers at once.
  With a queue of four or less they can (below).
- *Shards.* Three migrations let a shard come back to its first owner and let
  two migrations of one shard collide. The two shards do not share records, so a
  second key serves to catch a copy or a clean-up that touches the wrong shard.
  The methods can always be called again; the run ends where the bounds end it,
  so deadlock is not checked. Routers are interchangeable (symmetry; no liveness
  is checked there).
- *Outbox.* The crash may come at every point of every list; two processes of
  each kind give every overlap of stale lists.
- *Queue.* Two receives per message reach the budget; the third message may reuse
  an id while a delivery of its first life is still being worked on.

- *Node repair.* Two zones and two nodes in each bind the zone limit, the cluster
  limit and the floor in turn, and open the breaker by image and by signature;
  equal capacities suffice because only sums are compared. Failures beyond the
  second change no decision (the restart limit is 1).

- *Fences.* Three leases make two paused owners at once, and the terms fit into
  the clock with an idle gap. Four versions put three invalidations in flight with
  two readers holding older snapshots. Leases, time and versions end there, so
  deadlock is not checked; the proofs of section 4 have no such bounds.
- *Planners.* `lab` names the program a behaviour runs, so their states add up. A
  call ends, so deadlock is not checked. Batches of four bring every limit into
  play together with a refusal before it: a request too large for the reserve, the
  tenant or the capacity; two requests with one id; an item refused by a full queue
  with a smaller one after it; four clusters of one ring in two failure domains;
  policies with predecessors that are unknown or not earlier; windows that end at
  midnight, run past it, last a day or are out of range. The HPA inputs hold
  products that are whole, ratios on the edge of the tolerance and limits that
  contradict each other (a minimum the rate limit does not reach).

### What the violations show

- `dr_traffic_unchecked`: the README's first safety invariant is not what the
  code does. Eligibility is checked before the wait for the fence and not again
  at the promotion (`dr_failover.py:253`), so the initial canary may go to a
  destination that has failed since. From the canary on, every further step does
  check, which is `ShiftGrowsOnlyWhenSafe`.
- `event_pipeline_wedge`: a worker's retry goes into the bounded queue that only
  workers drain (`pipeline.py:312`). With routers refilling it, all workers can
  wait for room at once; nothing moves and `run` never returns. The real program
  shows it with `--workers 2 --work-queue-size 2 --transient-failure-percent 0.5`.
- `shard_lost_write`: `cutover` checks that `catch_up` was called, not that
  nothing was written since (`shard_rebalance_demo.py:318`). The write in between
  is acknowledged and lost. `AcknowledgedWritesSurvive` says what callers must do
  for the README's first invariant to hold.

- `node_repair_floor`: every candidate is checked against the capacity that the
  fleet had at the start of the round (`node_repair.py:278`). Two suspect nodes,
  which still serve, may be fenced and replaced together: the result reports 75
  percent, the fleet has 50. The run allows no restarts because they break the
  sentence in a simpler way: a suspect node within its restart budget is restarted
  before the floor is looked at (`node_repair.py:234`), and is verifying, not serving,
  once the result is applied. With a restart limit of 1 the first trace is two
  restarts. What does hold is `LoneRemovalKeepsFloor`, under all of its conditions: a
  result that restarts no node and removes some, at most one of them serving, and is
  applied while the same nodes serve. If restarts, a second
  serving node or a late application were allowed, `node_repair` would violate it.

### Fairness

- *DR*: the controller is called again and again and a started loop goes on
  (`WF` of `ReconcileOnce` and of the loop). Evidence is under no fairness: it
  may never arrive. `ShiftEnds` assumes in addition that calls with too few steps
  stop at some time: an owner that only repeats those makes no progress.
- *Pipeline*: the event loop runs every ready task, and its queues wake waiters in
  order; each task has weak fairness. Routers and workers compete for slots,
  so a task may be overtaken, but only as often as there are copies.
- *Outbox*: relays and consumers are started again and again (the lab's loop);
  crashes are not fair and are bounded.
- *Queue*: time passes and workers poll. Whether a handler succeeds is never
  assumed.
- *Shards*, *node repair*, *fences*, *planners*: safety only.

## 4. Proofs

`DRFailoverProofs`, for every policy, step budget, initial epoch and set of
fallible gates that `PolicyAssumption` allows. It repeats the code's validators for
percentages in any unit and with any rounding error smaller than the traffic step,
so that the theorems are about float policies too; only a step within the rounding
error of one addition is excluded, for which `run_until_stable` has no bound.

- `InductiveInvariant`: `IInv` holds always. `AuthorityBehindFence` and
  `AuthorityMovesForward` are not inductive. `IInv` adds that exactly one region
  accepts writes and that it holds the highest epoch, that `promoting` is entered
  only behind the fence, that the loop's private context can only be later than
  its owner's (otherwise `LoopReturns` might move authority back), and that no
  accepted write carries more than the highest epoch, with equality only if it
  came from the region that still accepts.
- `TypeCorrect`, `AuthorityIsFenced`, `AuthorityNeverReturns`: its consequences.

The argument for one call is in `ReconciledType` and `ReconciledAuthority`:
only a promotion and a failback move authority, both to one above the larger
epoch.

- `TrafficGrowsSafely` (`ShiftGrowsOnlyWhenSafe`): the owner sees one step where
  `run_until_stable` took many calls, so the property must hold of a whole loop.
  `GrownSafely(ctx, current)` says of the two contexts that the evidence is the same
  and that growth since the loop started implies that this evidence is safe. It is
  kept because the only unsafe growth, the canary of a promotion, starts from states
  where the secondary has no traffic, and no call leads back to those
  (`BeforeShift`, `ShiftShape`).
- `EnoughStepsStabilise` (`RunStabilises`), a rank argument told forwards:
  `StepsTo(c, n)` bounds the steps that can lie behind each state. Eight transitions
  are outside the shifts; in a shift the traffic itself counts them, since a step
  moves at least `Pace`, the step of the policy less one rounding error, whatever the
  errors before it were (`Paced` holds the ends), and `HopsEnough` shows that fewer
  than `Hops` of them leave anything to move. For steps like 0.1, whose float sums do
  not reach 100 after the exact number, that allows another. The bound
  is 8 and not 9 plus the shifts because no loop does both of `normal -> assess`
  and the failback: one needs the application to fail and the other not to, and the
  evidence is frozen (`Detected`).

`ShardClusterProofs`, for any nodes, shards, keys, routers and placement, and any
number of writes and migrations. The only assumption is `ClusterAssumption`.

- `TypeCorrect`. The step that needs thought is `CatchUp`, which keeps the last
  write of a key: `LastExists` shows from the well-foundedness of `Nat` that a
  nonempty set of sequence numbers has a greatest one.
- `EpochsFence`: `EpochNamesOneOwner` is not inductive, because a cache could
  remember an epoch that a cutover has yet to hand out. `EpochInv` adds that no
  router or migration remembers an epoch above the shard map's; a cutover then
  goes above every remembered epoch (`EpochCutover`), and all other steps add
  only claims that were already there (`NoNewClaims`).
- `FormerOwnersStayFrozen`: a replay writes what the log holds, so the proof
  needs `LogFiled`: every logged write is filed under the shard of its key.
- `RebalanceKeepsWrites` (`AcknowledgedWritesSurvive`). `SurvivalInv` is an
  implication from `disciplined`, because an undisciplined history may lose a
  write (`shard_lost_write`). Its parts: one unfinished migration per shard; a
  migration knows its shard's owner, the source before cutover and the target
  after (`OwnersKnown`); the target has the last acknowledged write of every key
  or that write is in the log above the watermark (`TargetsFollow`), so that a
  cutover with nothing to replay finds it there; no node has a record of a key
  that was never acknowledged (`NothingInvented`); and what the owner holds is
  what was acknowledged. Clean-up is safe because it clears the source after the
  owner has changed.

`NodeRepairProofs`, for any fleet, policy and lag between `Evaluate` and
`ApplyDecisions` (`FleetAssumption`):

- `WritersFenced`: the decision to replace a writer is taken in one step and carried
  out in another. The fences still hold then (`PendingFenced`) because they lapse only when a
  replacement is declared healthy, and a node with a pending decision is not being
  replaced (`PendingOpen`).
- `RestartsAreBounded`: restarts alone are not inductive, since a decision may be
  pending. `RestartsCounted` sets them against failures: each restart answers a
  failure of its own.
- `LimitsKept` (`RepairsWithinLimits`): the nodes under repair together with those
  the pending decisions will add are within both limits. One decision adds one node
  to that set and `GateOpen` compared its cardinality before; application turns
  decisions into repairs and adds none.
- `LoneRemovalIsSafe` (`LoneRemovalKeepsFloor`): `FloorChecked` says that what a round
  checked of each node it removes was checked of the nodes in `served`, those that
  served when it began. Applied while the same nodes serve and without restarts, the
  result leaves those but for the removed ones. If these include one that serves, that
  node's own check was of the very capacity that is left; if none does, any of them
  was checked against all of it. With two the argument ends, as `RoundKeepsFloor`
  shows; a restart was not checked at all.

`OutboxProofs`, for any orders, relays and consumers, numbers of copies and crashes
(`OutboxAssumption`):

- `EventsAreNeverLost`, `AcknowledgedAfterEffect`: between publishing and marking, a
  relay holds a row that is covered by a delivery or by its effect (`RelaysCovered`);
  between the effect and the mark, a consumer holds a delivery whose effect is there
  (`ConsumersCovered`). Both survive the crash of any other process.
- `EffectExactlyOnce`: every step of the outbox is a step of `OrderFulfilment` or a
  stutter; a second effect is excluded because effects are counted by the
  fulfilment table (`EffectsCounted`).

`PipelineProofs`, for any stream, shards, workers, queue sizes and attempts
(`ConfigAssumption`):

- `PipelineTyped`: retries are bounded. `Live` says which events may be in flight: new
  ones, and retried ones with an attempt left that are no poison.
- `OneEffect`: the metrics count what the inbox holds (`EffectsCounted`).
- `CopiesConserved`: a copy is wherever it is (a queue, a router's or worker's hand, a
  finished set), and each action moves one, adds one or ends one. `CopiesCounted`
  turns that into the sum, so each action only says which copy moves where.
- `RunLeavesNothingBehind`: `join` returns on a counter, not on a queue.
  `UnfinishedCounted` says that each counter is its queue's length plus what is in
  the hands of those who took from it and have yet to call `task_done`; `JoinsHold`
  that a join once passed stays passed: its counters are still zero.
- `NeverWedges`: what `event_pipeline_wedge` shows needs a full work queue and every
  worker waiting to put a retry (`Wedged`). An event has at most two copies
  (`AdmittedTwice`), and the queue and the hands hold no more than were admitted
  (`CopiesCounted`), so a queue and workers that together outnumber the copies
  (`AmpleRoom`) exclude it; without it, some guard is open until `run` has returned
  (`SomeoneCanGoOn`, which spells the guards out because the prover does not know
  `ENABLED`). The queue of `event_pipeline` is the smallest with `AmpleRoom`: six
  copies, five places, two workers; in `event_pipeline_wedge` there are two places.
  The condition is sufficient, not necessary, and it is about the input: only an
  unbounded queue meets it for streams of any length.

`VersionFenceProofs`, for any workers, readers, versions, lease duration and bounds:

- `LeasesInvariant`: tokens count the grants, so that the i-th lease carries token i,
  and the highest token the resource has seen is that of the lease that wrote its
  value.
- `OneLeaseAtATime`: the term of a lease begins when the one before is over.
- `ResourceFenced`: from the invariant, a write accepted by its token is by a
  lease granted no earlier than the last writer's: every step is a step of
  `NewerWins` or a stutter.
- `CacheInvariant`: nothing cached, fenced or held by a reader is newer than the
  database; the fence equals the newest version announced; and every committed version
  above the fence is still pending.
- `CacheFenced`, `CacheFreshWhenQuiet`: its consequences. When nothing is pending the
  fence is the database's version, and a cached value is never below the fence.
- `VersionsTyped`: the types of both, from the two invariants.

`QueueBrokerProofs`, for any ids, groups, workers, receive budget and number of
messages (`BrokerAssumption`). `QueueInv` is one induction for four theorems:

- `QueueTyped`: the receive budget is kept by every delivery and discard; a message is
  never active and dead at once.
- `OneEffectPerId`: the inbox has exactly the ids of the effects (`InboxOfEffects`), so
  that what `process` asks of the inbox it asks of the effects.
- `NoMessageIsLost`: what is acknowledged was in a worker's hands under the id it was
  enqueued with (`HeldInTurn`, `MessagesAsEnqueued`), and `process` acknowledges only
  after that id is in the inbox.
- `GroupOrderKept`: `Cleared` is the set of messages before which no message of their
  group is active. A delivered message is in it, when earlier exhausted ones go to
  the DLQ in the same pass too, and it stays in it, since enqueuing appends. An effect
  of an earlier message after that of a later one is then one that was no longer
  active: it was dead-lettered, or another message of its id had the effect before.

`PlannersProofs`, for any inputs the programs accept and any bounds (the named
assumption of each module). `PlannersInv` joins one invariant per lab.

- Sums and products (`FoldAdd`, `FoldSame`): the community modules define a fold by a
  recursive choice over subsets. That the function exists, and that a sum grows by
  exactly what is added, whatever element the fold happens to take first, is an
  induction over finite sets. The prover cannot apply an induction theorem, so each is
  told as a least counterexample: among the sets without the property there is one of
  least cardinality (`NatLessThanWellFounded`), and it cannot be there.
- `AdmittedByUrgency`, `LossIsByPolicy`: counters are sums over what was admitted so
  far (`TypeOK`); everything decided goes before everything undecided in the sort order
  (`DecidedFirst`, `WaitedFirst`); hence what is ahead of a decided request never
  changes again, and the verdict of its turn stays the right one (`FittingAdmitted`,
  `StayingAccepted`).
- `PlansAreSound`: the plan under way is spoken of as a value, `PlanInv(p, E, r, …)`.
  `BatchesInv`: the batches are sound, apart, in ring order, and none has room for a
  member of a later one of its ring. `RingInv`: the clusters of the current ring that
  are in no batch yet could join none of them, and every other eligible cluster of the
  rings taken is in one. `PassInv`: the batch being selected keeps within the limits and
  has no room for what it deferred, which stays so as it grows (`NoMoreRoom`); and
  something is selected before anything is deferred (`EmptyBatch`), which is why the
  no-progress error cannot be reached. `WindowIsItsHours` shows that the three
  comparisons of `within_maintenance_window` mean the hours counted around the clock.
- `RecoveryReportedEarliest`: no induction, but arithmetic of ceilings: the nodes
  requested hold the pods that need them and no fewer would.
- `AttemptsMultiply`: `Chained` is what the property lacks to be inductive. It relates
  the calls of neighbouring layers at every moment: a layer off the stack was called by
  every call above it as often as it retries; one on the stack so by the earlier calls,
  and by the current one as often as its `attempt_index` says. When every call has
  failed, the equations multiply along the chain to the formula (`WorstGrows`).
- `PlannersTyped`: the types of all five, from the same invariant.

Only model-checked is liveness (`ShiftEnds`, `RunReturns`, `EveryOrderFulfilled`,
`EveryMessageSettles`), which is beyond the prover's reach. Every invariant and every
action property that a passing run checks, and the three refinements, are theorems.

## 5. Not modelled

- Texts, reasons, reports, percentiles, the CLI and demo printing of every program.
- The deliberately unsafe variants that demos contrast with the safe ones
  (`enforce_fencing=False`, `require_catch_up=False`, `idempotent=False`).
- `HOLD_READ_ONLY` is a label: the code leaves `accepting_writes` and the traffic
  as they are, and so does the model.
- SQLite's own locking: a transaction is a step; a process turned away by a lock
  is a process that ended there.
- `reset` against running processes: it deletes files that others hold open.
- `stampede` (two constants), `plan_failover`, `retry_budget_attempts`,
  `plan_replay`, `loss_rate`, `deterministic_trace_sample`: single formulas.
- The mesh contract: `apply_xds`, `evaluate_handshake`, `evaluate_dns`,
  `evaluate_failover` and `retry_attempts` each compare their arguments once and
  keep nothing; a model would repeat them and a property would repeat the model.
- Time in the retry simulator: latency, backoff and jitter say when an attempt is
  made, not whether.
- JSON typing errors and version syntax of the fleet planner's inputs.
- The validators, the error-budget calculator, the probe and the mock interview
  runner: stateless or pure I/O. Manifests and prose are not programs.

## 6. What is left

The programs that keep state or decide step by step are modelled, and the safety
properties that the runs check are proved for every value of their constants. Left are
arguments behind the liveness properties that need no temporal logic: for each of
`RunReturns` and `EveryOrderFulfilled` a measure that every step other than a retry or a
crash decreases, as `NeverWedges` already says that the pipeline does not stop.
