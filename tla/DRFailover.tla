----------------------------- MODULE DRFailover -----------------------------
(***************************************************************************)
(* The disaster-recovery controller of                                     *)
(* labs/reliability/02-disaster-recovery-state-machine/dr_failover.py.     *)
(*                                                                         *)
(* reconcile_once maps a DRContext to the next one.  It is called in two   *)
(* ways: once, on a context whose evidence its caller has just refreshed,  *)
(* and in a loop by run_until_stable, whose evidence is frozen when the    *)
(* loop starts and whose result reaches the caller only when it returns.   *)
(* Writers present epoch tokens to the two regions all along; the region   *)
(* decides with write_allowed.                                             *)
(*                                                                         *)
(* A context is a record with the fields of DRContext.  The eight pieces   *)
(* of evidence about a region are abstracted to the set of gates that it   *)
(* fails (the comparisons with the policy's thresholds included).          *)
(*                                                                         *)
(* Percentages are floats.  They are modelled by whole numbers, in units   *)
(* of the smallest difference between two of them; a sum or a difference   *)
(* is any number within one rounding error of the exact one.               *)
(***************************************************************************)
EXTENDS Integers

CONSTANTS
    InitialEpoch,          \* writer_epoch of both regions before any failover
    Full,                  \* 100 percent, in units of a percentage
    Rounding,              \* the most that one float operation is off, in those units
    Canary,                \* policy.initial_canary_percent
    Step,                  \* policy.maximum_traffic_step_percent
    RequireObservability,  \* policy.require_observability
    RequireSynthetic,      \* policy.require_business_synthetic
    StepLimits,            \* the maximum_steps that callers of run_until_stable give
    Fallible               \* bound: the gates whose evidence may change

Gates == {"application", "capacity", "dependencies", "identity",
          "observability", "replication", "schema", "synthetic"}

\* What _validate_region and _validate_policy accept, but for a step that is no
\* larger than the error of adding it to a percentage (2^-47 percent, below 128):
\* the traffic need not move at all.
ValidPolicy ==
    /\ InitialEpoch \in Nat
    /\ Canary \in 1..Full
    /\ Step \in 1..Full /\ Rounding < Step

ASSUME PolicyAssumption ==
    /\ ValidPolicy
    /\ Full \in Nat \ {0}
    /\ Rounding \in Nat
    /\ RequireObservability \in BOOLEAN
    /\ RequireSynthetic \in BOOLEAN
    /\ StepLimits \subseteq Nat \ {0}
    /\ Fallible \subseteq Gates

VARIABLES
    ctx,        \* the DRContext its owner holds, and the regions obey
    phase,      \* "idle", or "running" inside run_until_stable
    current,    \* the loop variable of run_until_stable (ctx while idle)
    limit,      \* maximum_steps of the call in progress (0 while idle)
    steps,      \* iterations its loop has completed (0 while idle)
    exhausted,  \* maximum_steps of the last call, if that raised an error (else 0)
    lastWrite   \* the last write that some region accepted

vars == <<ctx, phase, current, limit, steps, exhausted, lastWrite>>

States == {"normal", "assess", "frozen", "eligibility-check", "fencing",
           "promoting", "canary", "expanding", "recovered-secondary",
           "hold-read-only", "failback-prep", "failback-canary",
           "normal-restored"}

Regions == {"primary", "secondary"}

Region == [failing : SUBSET Gates, writer_epoch : Nat, accepting_writes : BOOLEAN]

Context == [state : States, primary : Region, secondary : Region,
            old_writer_fenced : BOOLEAN, traffic_percent_secondary : 0..Full,
            fast_burn : BOOLEAN, data_inconsistency_detected : BOOLEAN,
            global_change_freeze : BOOLEAN, incident_commander_assigned : BOOLEAN,
            failback_replication_healthy : BOOLEAN, original_region_rebuilt : BOOLEAN]

Larger(a, b) == IF a >= b THEN a ELSE b

Smaller(a, b) == IF a <= b THEN a ELSE b

\* The floats that the sum or difference n may be rounded to.
Rounded(n) == (n - Rounding)..(n + Rounding)

\* min(100.0, t + amount) and max(0.0, t - amount) of percentages; rounding is
\* monotone, so that t - amount is not rounded to more than 100 either.
Raised(t, amount) == {Smaller(Full, p) : p \in Rounded(t + amount)}

Lowered(t, amount) == {Smaller(Full, Larger(0, p)) : p \in Rounded(t - amount)}

-----------------------------------------------------------------------------
(* destination_eligibility and write_allowed. *)

EnforcedGates ==
    Gates \ ((IF RequireObservability THEN {} ELSE {"observability"})
             \cup (IF RequireSynthetic THEN {} ELSE {"synthetic"}))

Eligible(region) == region.failing \cap EnforcedGates = {}

WriteAllowed(region, token) ==
    region.accepting_writes /\ token = region.writer_epoch

-----------------------------------------------------------------------------
(* reconcile_once, one relation per branch: c is the context passed in, d   *)
(* the context of the result.                                               *)

\* Mutated form: a canary is the only traffic shift that fast burn aborts.
TrafficShiftCanaryOnly == {"canary"}

TrafficShift == {"canary", "expanding", "failback-canary"}

\* The two checks that come before the state is looked at.
MustHold(c) ==
    \/ c.data_inconsistency_detected
    \/ c.fast_burn /\ c.state \in TrafficShift

Hold(c, d) ==
    /\ MustHold(c)
    /\ d = [c EXCEPT !.state = "hold-read-only"]

Normal(c, d) ==
    /\ ~MustHold(c)
    /\ c.state = "normal"
    /\ d = IF "application" \in c.primary.failing
           THEN [c EXCEPT !.state = "assess"] ELSE c

Assess(c, d) ==
    /\ ~MustHold(c)
    /\ c.state = "assess"
    /\ d = IF c.incident_commander_assigned
           THEN [c EXCEPT !.state = "frozen", !.global_change_freeze = TRUE] ELSE c

Frozen(c, d) ==
    /\ ~MustHold(c)
    /\ c.state = "frozen"
    /\ d = [c EXCEPT !.state = "eligibility-check"]

\* Mutated form: an ineligible destination is retried from the freeze.
EligibilityCheckRetried(c, d) ==
    /\ ~MustHold(c)
    /\ c.state = "eligibility-check"
    /\ d = [c EXCEPT !.state = IF Eligible(c.secondary) THEN "fencing" ELSE "frozen"]

EligibilityCheck(c, d) ==
    /\ ~MustHold(c)
    /\ c.state = "eligibility-check"
    /\ d = [c EXCEPT !.state =
              IF Eligible(c.secondary) THEN "fencing" ELSE "hold-read-only"]

\* Mutated form: an eligible destination is promoted without waiting for the fence.
FencingUnproven(c, d) ==
    /\ ~MustHold(c)
    /\ c.state = "fencing"
    /\ d = IF c.old_writer_fenced \/ Eligible(c.secondary)
           THEN [c EXCEPT !.state = "promoting"] ELSE c

Fencing(c, d) ==
    /\ ~MustHold(c)
    /\ c.state = "fencing"
    /\ d = IF c.old_writer_fenced THEN [c EXCEPT !.state = "promoting"] ELSE c

NextEpoch(c) == Larger(c.primary.writer_epoch, c.secondary.writer_epoch) + 1

Promote(c, d) ==
    /\ ~MustHold(c)
    /\ c.state = "promoting"
    /\ d = [c EXCEPT !.state = "canary",
                     !.primary.accepting_writes = FALSE,
                     !.secondary.accepting_writes = TRUE,
                     !.secondary.writer_epoch = NextEpoch(c),
                     !.traffic_percent_secondary = Canary]

\* Mutated form: the shift is complete only beyond 100 percent.
ExpandedNeverComplete(c, percent) ==
    [c EXCEPT !.state = IF percent > Full THEN "recovered-secondary" ELSE "expanding",
              !.traffic_percent_secondary = percent]

Expanded(c, percent) ==
    [c EXCEPT !.state = IF percent >= Full THEN "recovered-secondary" ELSE "expanding",
              !.traffic_percent_secondary = percent]

\* CANARY and EXPANDING differ only in the words of their results.
Expand(c, d) ==
    /\ ~MustHold(c)
    /\ c.state \in {"canary", "expanding"}
    /\ \E percent \in Raised(c.traffic_percent_secondary, Step) :
           d = IF Eligible(c.secondary)
               THEN Expanded(c, percent) ELSE [c EXCEPT !.state = "hold-read-only"]

RecoveredSecondary(c, d) ==
    /\ ~MustHold(c)
    /\ c.state = "recovered-secondary"
    /\ d = IF c.original_region_rebuilt /\ c.failback_replication_healthy
           THEN [c EXCEPT !.state = "failback-prep"] ELSE c

\* Mutated form: the secondary keeps accepting writes.
FailbackPrepTwoWriters(c, d) ==
    /\ ~MustHold(c)
    /\ c.state = "failback-prep"
    /\ \E percent \in Lowered(Full, Canary) :
           d = IF Eligible(c.primary) /\ c.failback_replication_healthy
               THEN [c EXCEPT !.state = "failback-canary",
                              !.primary.accepting_writes = TRUE,
                              !.primary.writer_epoch = NextEpoch(c),
                              !.traffic_percent_secondary = percent]
               ELSE c

FailbackPrep(c, d) ==
    /\ ~MustHold(c)
    /\ c.state = "failback-prep"
    /\ \E percent \in Lowered(Full, Canary) :
           d = IF Eligible(c.primary) /\ c.failback_replication_healthy
               THEN [c EXCEPT !.state = "failback-canary",
                              !.primary.accepting_writes = TRUE,
                              !.primary.writer_epoch = NextEpoch(c),
                              !.secondary.accepting_writes = FALSE,
                              !.traffic_percent_secondary = percent]
               ELSE c

\* Mutated form: the last step back is not clamped at zero.
FailbackCanaryUnclamped(c, d) ==
    /\ ~MustHold(c)
    /\ c.state = "failback-canary"
    /\ \E percent \in Rounded(c.traffic_percent_secondary - Step) :
           d = [c EXCEPT
                  !.state = IF percent <= 0 THEN "normal-restored" ELSE "failback-canary",
                  !.traffic_percent_secondary = percent]

FailbackCanary(c, d) ==
    /\ ~MustHold(c)
    /\ c.state = "failback-canary"
    /\ \E percent \in Lowered(c.traffic_percent_secondary, Step) :
           d = [c EXCEPT
                  !.state = IF percent <= 0 THEN "normal-restored" ELSE "failback-canary",
                  !.traffic_percent_secondary = percent]

Settled(c, d) ==
    /\ ~MustHold(c)
    /\ c.state \in {"normal-restored", "hold-read-only"}
    /\ d = c

Reconciled(c, d) ==
    \/ Hold(c, d)
    \/ Normal(c, d)
    \/ Assess(c, d)
    \/ Frozen(c, d)
    \/ EligibilityCheck(c, d)
    \/ Fencing(c, d)
    \/ Promote(c, d)
    \/ Expand(c, d)
    \/ RecoveredSecondary(c, d)
    \/ FailbackPrep(c, d)
    \/ FailbackCanary(c, d)
    \/ Settled(c, d)

-----------------------------------------------------------------------------
(* The two ways in which the context's owner applies reconcile_once. *)

ReconcileOnce ==
    /\ phase = "idle"
    /\ Reconciled(ctx, ctx')
    /\ current' = ctx'
    /\ UNCHANGED <<phase, limit, steps, exhausted, lastWrite>>

RunUntilStable ==
    /\ phase = "idle"
    /\ phase' = "running"
    /\ limit' \in StepLimits
    /\ steps' = 0
    /\ UNCHANGED <<ctx, current, exhausted, lastWrite>>

\* result.context == current: the history is returned and its last context kept.
LoopReturns ==
    /\ phase = "running"
    /\ Reconciled(current, current)
    /\ ctx' = current
    /\ phase' = "idle"
    /\ exhausted' = 0
    /\ limit' = 0
    /\ steps' = 0
    /\ UNCHANGED <<current, lastWrite>>

LoopContinues ==
    /\ phase = "running"
    /\ ~Reconciled(current, current)
    /\ steps + 1 < limit
    /\ Reconciled(current, current')
    /\ steps' = steps + 1
    /\ UNCHANGED <<ctx, phase, limit, exhausted, lastWrite>>

\* The loop is exhausted: a DRError leaves the caller with the context it had.
LoopRaises ==
    /\ phase = "running"
    /\ ~Reconciled(current, current)
    /\ steps + 1 >= limit
    /\ phase' = "idle"
    /\ exhausted' = limit
    /\ current' = ctx
    /\ limit' = 0
    /\ steps' = 0
    /\ UNCHANGED <<ctx, lastWrite>>

-----------------------------------------------------------------------------
(* Between two calls the owner refreshes the evidence in the context.  The  *)
(* fence, the commander and the rebuilt region are facts that, once         *)
(* established, are not withdrawn (no code resets them).                    *)

NewEvidence(c) ==
    /\ phase = "idle"
    /\ ctx' = c
    /\ current' = c
    /\ UNCHANGED <<phase, limit, steps, exhausted, lastWrite>>

ProbePrimary ==
    \E f \in SUBSET Fallible : NewEvidence([ctx EXCEPT !.primary.failing = f])

ProbeSecondary ==
    \E f \in SUBSET Fallible : NewEvidence([ctx EXCEPT !.secondary.failing = f])

ProveFence == NewEvidence([ctx EXCEPT !.old_writer_fenced = TRUE])

AssignCommander == NewEvidence([ctx EXCEPT !.incident_commander_assigned = TRUE])

RebuildOriginal == NewEvidence([ctx EXCEPT !.original_region_rebuilt = TRUE])

ProbeFailbackReplication ==
    \E b \in BOOLEAN : NewEvidence([ctx EXCEPT !.failback_replication_healthy = b])

ProbeBurnRate == \E b \in BOOLEAN : NewEvidence([ctx EXCEPT !.fast_burn = b])

DetectInconsistency == NewEvidence([ctx EXCEPT !.data_inconsistency_detected = TRUE])

\* A writer holding any epoch issued so far presents it to either region.
IssuedEpochs == InitialEpoch .. (NextEpoch(ctx) - 1)

Write(r) ==
    \E token \in IssuedEpochs :
        /\ WriteAllowed(ctx[r], token)
        /\ lastWrite' = [region |-> r, epoch |-> token]
        /\ UNCHANGED <<ctx, phase, current, limit, steps, exhausted>>

-----------------------------------------------------------------------------

HealthyRegion(accepting) ==
    [failing |-> {}, writer_epoch |-> InitialEpoch, accepting_writes |-> accepting]

Init ==
    /\ ctx = [state |-> "normal",
              primary |-> HealthyRegion(TRUE),
              secondary |-> HealthyRegion(FALSE),
              old_writer_fenced |-> FALSE,
              traffic_percent_secondary |-> 0,
              fast_burn |-> FALSE,
              data_inconsistency_detected |-> FALSE,
              global_change_freeze |-> FALSE,
              incident_commander_assigned |-> FALSE,
              failback_replication_healthy |-> FALSE,
              original_region_rebuilt |-> FALSE]
    /\ phase = "idle"
    /\ current = ctx
    /\ limit = 0
    /\ steps = 0
    /\ exhausted = 0
    /\ lastWrite = [region |-> "primary", epoch |-> InitialEpoch]

Loop == LoopReturns \/ LoopContinues \/ LoopRaises

Evidence ==
    \/ ProbePrimary
    \/ ProbeSecondary
    \/ ProveFence
    \/ AssignCommander
    \/ RebuildOriginal
    \/ ProbeFailbackReplication
    \/ ProbeBurnRate
    \/ DetectInconsistency

Next ==
    \/ ReconcileOnce
    \/ RunUntilStable
    \/ Loop
    \/ Evidence
    \/ \E r \in Regions : Write(r)

\* The controller is called again and again, and a call that started goes on.
Fairness == WF_vars(ReconcileOnce) /\ WF_vars(Loop)

Spec == Init /\ [][Next]_vars

FairSpec == Spec /\ Fairness

-----------------------------------------------------------------------------
(* Correctness. *)

\* Every variable has the type the dataclasses give it, percentages included:
\* a traffic percentage never leaves 0..Full, whatever the policy's step.
TypeOK ==
    /\ ctx \in Context
    /\ current \in Context
    /\ phase \in {"idle", "running"}
    /\ limit \in StepLimits \cup {0}
    /\ steps \in Nat /\ (steps = 0 \/ steps < limit)
    /\ exhausted \in StepLimits \cup {0}
    /\ lastWrite \in [region : Regions, epoch : Nat]

\* README, second safety invariant: the secondary accepts writes only behind a
\* fenced old writer and under an epoch newer than the primary's, in every
\* context the owner can hold, through failover, abort and failback.
AuthorityBehindFence ==
    ctx.secondary.accepting_writes =>
        /\ ctx.old_writer_fenced
        /\ ctx.secondary.writer_epoch > ctx.primary.writer_epoch

\* Write authority never goes back: a write that some region accepts carries a
\* later epoch than the previous accepted write, or comes from the same region
\* under the same epoch.  Two regions never share an epoch, and a former
\* writer's token is dead everywhere once its successor has written.
AuthorityMovesForward ==
    [][\/ lastWrite' = lastWrite
       \/ lastWrite'.epoch > lastWrite.epoch]_vars

\* Once the secondary serves traffic it is given more only by a call that
\* sees it eligible, with no fast burn and no inconsistency (README, first and
\* third safety invariants, for the shift after the canary).
ShiftGrowsOnlyWhenSafe ==
    [][(/\ ctx.traffic_percent_secondary > 0
        /\ ctx'.traffic_percent_secondary > ctx.traffic_percent_secondary) =>
            /\ Eligible(ctx.secondary)
            /\ ~ctx.fast_burn
            /\ ~ctx.data_inconsistency_detected]_vars

\* What a step moves at least, after rounding.
Pace == Step - Rounding

\* Reconciliations that one direction of the shift needs at most: what the canary
\* leaves to move (more, if 100 - Canary is rounded up), at that pace.
Hops == Larger(1, (Full - Canary + Rounding + Pace - 1) \div Pace)

\* Room for 8 transitions and the two traffic shifts.
Enough == 8 + 2 * Hops

\* run_until_stable returns, from every context its owner can hold, whenever it is
\* given enough steps.
RunStabilises == exhausted < Enough

\* From the decision to promote until all of the traffic is in the secondary.
ToSecondary == {"promoting", "canary", "expanding"}

\* A promotion is never left half way, nor a failback: either shift ends with all
\* of the traffic in one region, or in the hold that waits for an operator, unless
\* its owner keeps calling run_until_stable with too few steps (each such call
\* throws its progress away).
ShiftEnds ==
    <>[](limit = 0 \/ limit >= Enough) =>
        /\ ctx.state \in ToSecondary ~> ctx.state \notin ToSecondary
        /\ ctx.state = "failback-canary" ~> ctx.state # "failback-canary"

\* README, first safety invariant, as written: traffic reaches the secondary only
\* while its evidence is within policy.
TrafficOnlyToEligible ==
    [][ctx'.traffic_percent_secondary > ctx.traffic_percent_secondary =>
            Eligible(ctx.secondary)]_vars

=============================================================================
