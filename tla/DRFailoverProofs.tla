-------------------------- MODULE DRFailoverProofs --------------------------
(***************************************************************************)
(* Machine-checked proofs about DRFailover, for every policy that          *)
(* PolicyAssumption admits and whichever way its arithmetic is rounded,    *)
(* every number of steps and every initial epoch.                          *)
(***************************************************************************)
EXTENDS DRFailover, TLAPS

-----------------------------------------------------------------------------
(* What one call of reconcile_once does to a context. *)

LEMMA PolicyRange ==
    /\ Full \in Nat /\ Canary \in 1..Full /\ Step \in 1..Full
    /\ Rounding \in Nat /\ Pace \in Nat \ {0} /\ Pace = Step - Rounding
  BY PolicyAssumption DEF PolicyAssumption, ValidPolicy, Pace

\* A traffic percentage moved by a policy step stays a percentage, and moves by the
\* pace at least unless it reaches the end.
LEMMA RaisedRange ==
    ASSUME NEW t \in 0..Full, NEW u \in Raised(t, Step)
    PROVE  u \in 0..Full /\ (u < Full => u >= t + Pace)
<1>1. PICK p \in Rounded(t + Step) : u = Smaller(Full, p)
  BY Zenon DEF Raised
<1>2. p \in Int /\ p >= t + Pace
  BY <1>1, PolicyRange DEF Rounded
<1>3. QED
  BY <1>1, <1>2, PolicyRange DEF Smaller

LEMMA LoweredRange ==
    ASSUME NEW t \in 0..Full, NEW u \in Lowered(t, Step)
    PROVE  u \in 0..Full /\ u <= t /\ (u > 0 => u <= t - Pace)
<1>1. PICK p \in Rounded(t - Step) : u = Smaller(Full, Larger(0, p))
  BY Zenon DEF Lowered
<1>2. p \in Int /\ p <= t - Pace
  BY <1>1, PolicyRange DEF Rounded
<1>3. QED
  BY <1>1, <1>2, PolicyRange DEF Smaller, Larger

\* The same for the traffic that a failback starts with.
LEMMA FailbackRange ==
    ASSUME NEW u \in Lowered(Full, Canary)
    PROVE  u \in 0..Full /\ u <= Full - Canary + Rounding
<1>1. PICK p \in Rounded(Full - Canary) : u = Smaller(Full, Larger(0, p))
  BY Zenon DEF Lowered
<1>2. p \in Int /\ p <= Full - Canary + Rounding
  BY <1>1, PolicyRange DEF Rounded
<1>3. QED
  BY <1>1, <1>2, PolicyRange DEF Smaller, Larger

LEMMA NextEpochAbove ==
    ASSUME NEW c \in Context
    PROVE  /\ NextEpoch(c) \in Nat
           /\ NextEpoch(c) > c.primary.writer_epoch
           /\ NextEpoch(c) > c.secondary.writer_epoch
  BY DEF Context, Region, NextEpoch, Larger

\* What a branch may change without leaving Context, whoever holds authority.
LEMMA ContextUpdate ==
    ASSUME NEW c \in Context, NEW s \in States, NEW t \in 0..Full
    PROVE  [c EXCEPT !.state = s, !.traffic_percent_secondary = t] \in Context
  BY DEF Context

\* The same for a branch that also changes the two regions.
LEMMA ContextTransfer ==
    ASSUME NEW c \in Context, NEW s \in States, NEW t \in 0..Full,
           NEW p \in Region, NEW q \in Region
    PROVE  [c EXCEPT !.state = s, !.primary = p, !.secondary = q,
                     !.traffic_percent_secondary = t] \in Context
  BY DEF Context

\* reconcile_once returns a well-formed context.
LEMMA ReconciledType ==
    ASSUME NEW c \in Context, NEW d, Reconciled(c, d)
    PROVE  d \in Context
<1>1. /\ c.traffic_percent_secondary \in 0..Full
      /\ NextEpoch(c) \in Nat
  BY NextEpochAbove DEF Context
<1>2. CASE Hold(c, d)
  BY <1>2 DEF Hold, Context, States
<1>3. CASE Normal(c, d)
  BY <1>3 DEF Normal, Context, States
<1>4. CASE Assess(c, d)
  BY <1>4 DEF Assess, Context, States
<1>5. CASE Frozen(c, d)
  BY <1>5 DEF Frozen, Context, States
<1>6. CASE EligibilityCheck(c, d)
  BY <1>6 DEF EligibilityCheck, Context, States
<1>7. CASE Fencing(c, d)
  BY <1>7 DEF Fencing, Context, States
<1>8. CASE Promote(c, d)
  <2> DEFINE p == [c.primary EXCEPT !.accepting_writes = FALSE]
             q == [c.secondary EXCEPT !.accepting_writes = TRUE,
                                      !.writer_epoch = NextEpoch(c)]
  <2>1. p \in Region /\ q \in Region
    BY <1>1 DEF Context, Region
  <2>2. d = [c EXCEPT !.state = "canary", !.primary = p, !.secondary = q,
                      !.traffic_percent_secondary = Canary]
    BY <1>8, Zenon DEF Promote
  <2>3. "canary" \in States /\ Canary \in 0..Full
    BY PolicyRange DEF States
  <2> HIDE DEF p, q
  <2>4. QED
    BY <2>1, <2>2, <2>3, ContextTransfer
<1>9. CASE Expand(c, d)
  <2>1. CASE Eligible(c.secondary)
    <3>1. PICK t \in Raised(c.traffic_percent_secondary, Step) : d = Expanded(c, t)
      BY <1>9, <2>1, Zenon DEF Expand
    <3> DEFINE s == IF t >= Full THEN "recovered-secondary" ELSE "expanding"
    <3>2. t \in 0..Full /\ s \in States
      BY <1>1, RaisedRange DEF States
    <3>3. d = [c EXCEPT !.state = s, !.traffic_percent_secondary = t]
      BY <3>1, Zenon DEF Expanded
    <3> HIDE DEF s
    <3>4. QED
      BY <3>2, <3>3, ContextUpdate
  <2>2. CASE ~Eligible(c.secondary)
    BY <1>9, <2>2 DEF Expand, Context, States
  <2>3. QED
    BY <2>1, <2>2
<1>10. CASE RecoveredSecondary(c, d)
  BY <1>10 DEF RecoveredSecondary, Context, States
<1>11. CASE FailbackPrep(c, d)
  <2> DEFINE p == [c.primary EXCEPT !.accepting_writes = TRUE,
                                    !.writer_epoch = NextEpoch(c)]
             q == [c.secondary EXCEPT !.accepting_writes = FALSE]
  <2> SUFFICES ASSUME d # c PROVE d \in Context
    OBVIOUS
  <2>1. p \in Region /\ q \in Region
    BY <1>1 DEF Context, Region
  <2> DEFINE ready == Eligible(c.primary) /\ c.failback_replication_healthy
             restored(t) == [c EXCEPT !.state = "failback-canary",
                                      !.primary.accepting_writes = TRUE,
                                      !.primary.writer_epoch = NextEpoch(c),
                                      !.secondary.accepting_writes = FALSE,
                                      !.traffic_percent_secondary = t]
  <2>2. PICK t \in Lowered(Full, Canary) : d = IF ready THEN restored(t) ELSE c
    BY <1>11, Zenon DEF FailbackPrep
  <2>3. d = restored(t)
    <3> HIDE DEF restored, ready
    <3>1. QED
      BY <2>2
  <2>4. d = [c EXCEPT !.state = "failback-canary", !.primary = p, !.secondary = q,
                      !.traffic_percent_secondary = t]
    BY <2>3, Zenon
  <2> HIDE DEF ready, restored
  <2>5. "failback-canary" \in States /\ t \in 0..Full
    BY FailbackRange DEF States
  <2> HIDE DEF p, q
  <2>6. QED
    BY <2>1, <2>4, <2>5, ContextTransfer
<1>12. CASE FailbackCanary(c, d)
  <2>1. PICK t \in Lowered(c.traffic_percent_secondary, Step) :
             d = [c EXCEPT
                    !.state = IF t <= 0 THEN "normal-restored" ELSE "failback-canary",
                    !.traffic_percent_secondary = t]
    BY <1>12, Zenon DEF FailbackCanary
  <2>2. t \in 0..Full
    BY <1>1, LoweredRange
  <2>3. QED
    BY <2>1, <2>2, ContextUpdate DEF States
<1>13. CASE Settled(c, d)
  BY <1>13 DEF Settled
<1>14. QED
  BY <1>2, <1>3, <1>4, <1>5, <1>6, <1>7, <1>8, <1>9, <1>10, <1>11, <1>12, <1>13
     DEF Reconciled

-----------------------------------------------------------------------------
(* The strengthening of AuthorityBehindFence that every call preserves: one  *)
(* region accepts writes, it holds the highest epoch, the secondary does so  *)
(* only behind the fence, and nobody is being promoted without one.          *)

AuthorityShape(c) ==
    /\ c.primary.accepting_writes => ~c.secondary.accepting_writes
    /\ ~c.primary.accepting_writes => c.secondary.accepting_writes
    /\ c.primary.accepting_writes =>
            c.primary.writer_epoch >= c.secondary.writer_epoch
    /\ c.secondary.accepting_writes =>
            c.secondary.writer_epoch > c.primary.writer_epoch
    /\ c.secondary.accepting_writes => c.old_writer_fenced
    /\ c.state = "promoting" => c.old_writer_fenced

Top(c) == Larger(c.primary.writer_epoch, c.secondary.writer_epoch)

SameAuthority(c, d) ==
    /\ d.primary.accepting_writes = c.primary.accepting_writes
    /\ d.primary.writer_epoch = c.primary.writer_epoch
    /\ d.secondary.accepting_writes = c.secondary.accepting_writes
    /\ d.secondary.writer_epoch = c.secondary.writer_epoch

\* Authority stays where it is, or moves under an epoch above all earlier ones.
LaterAuthority(c, d) == SameAuthority(c, d) \/ Top(d) > Top(c)

\* Which calls of reconcile_once leave authority alone.
LEMMA ReconciledKeeps ==
    ASSUME NEW c \in Context, NEW d, Reconciled(c, d),
           ~Promote(c, d), ~FailbackPrep(c, d)
    PROVE  /\ SameAuthority(c, d)
           /\ d.old_writer_fenced = c.old_writer_fenced
           /\ d.state = "promoting" => c.old_writer_fenced \/ c.state = "promoting"
<1>1. CASE Hold(c, d)
  BY <1>1 DEF Hold, Context, SameAuthority
<1>2. CASE Normal(c, d)
  BY <1>2 DEF Normal, Context, SameAuthority
<1>3. CASE Assess(c, d)
  BY <1>3 DEF Assess, Context, SameAuthority
<1>4. CASE Frozen(c, d)
  BY <1>4 DEF Frozen, Context, SameAuthority
<1>5. CASE EligibilityCheck(c, d)
  BY <1>5 DEF EligibilityCheck, Context, SameAuthority
<1>6. CASE Fencing(c, d)
  BY <1>6 DEF Fencing, Context, SameAuthority
<1>7. CASE Expand(c, d)
  BY <1>7 DEF Expand, Expanded, Context, SameAuthority
<1>8. CASE RecoveredSecondary(c, d)
  BY <1>8 DEF RecoveredSecondary, Context, SameAuthority
<1>9. CASE FailbackCanary(c, d)
  BY <1>9 DEF FailbackCanary, Context, SameAuthority
<1>10. CASE Settled(c, d)
  BY <1>10 DEF Settled, SameAuthority
<1>11. QED
  BY <1>1, <1>2, <1>3, <1>4, <1>5, <1>6, <1>7, <1>8, <1>9, <1>10 DEF Reconciled

\* What a promotion does to authority.
LEMMA PromoteMoves ==
    ASSUME NEW c \in Context, NEW d, Promote(c, d)
    PROVE  /\ ~d.primary.accepting_writes
           /\ d.secondary.accepting_writes
           /\ d.primary.writer_epoch = c.primary.writer_epoch
           /\ d.secondary.writer_epoch = NextEpoch(c)
           /\ d.old_writer_fenced = c.old_writer_fenced
           /\ c.state = "promoting" /\ d.state = "canary"
  BY DEF Promote, Context, Region

\* What a failback does to authority, when it does anything.
LEMMA FailbackMoves ==
    ASSUME NEW c \in Context, NEW d, FailbackPrep(c, d), d # c
    PROVE  /\ d.primary.accepting_writes
           /\ ~d.secondary.accepting_writes
           /\ d.primary.writer_epoch = NextEpoch(c)
           /\ d.secondary.writer_epoch = c.secondary.writer_epoch
           /\ d.old_writer_fenced = c.old_writer_fenced
           /\ d.state = "failback-canary"
  BY DEF FailbackPrep, Context, Region

\* Every call preserves the shape, and authority never goes back.
LEMMA ReconciledAuthority ==
    ASSUME NEW c \in Context, NEW d, Reconciled(c, d), AuthorityShape(c)
    PROVE  AuthorityShape(d) /\ LaterAuthority(c, d)
<1>1. d \in Context
  BY ReconciledType
<1>2. CASE Promote(c, d)
  BY <1>1, <1>2, PromoteMoves, NextEpochAbove
     DEF AuthorityShape, LaterAuthority, Top, Larger, Context, Region
<1>3. CASE FailbackPrep(c, d) /\ d # c
  BY <1>1, <1>3, FailbackMoves, NextEpochAbove
     DEF AuthorityShape, LaterAuthority, Top, Larger, Context, Region
<1>4. CASE d = c
  BY <1>4 DEF LaterAuthority, SameAuthority
<1>5. CASE ~Promote(c, d) /\ ~FailbackPrep(c, d)
  BY <1>5, ReconciledKeeps
     DEF AuthorityShape, LaterAuthority, SameAuthority
<1>6. QED
  BY <1>2, <1>3, <1>4, <1>5

-----------------------------------------------------------------------------
(* The inductive invariant. *)

\* No accepted write is newer than the newest authority, and one that carries
\* the newest epoch came from the region that holds it.
WriteBound(c) ==
    /\ lastWrite.epoch <= Top(c)
    /\ lastWrite.epoch = Top(c) =>
            IF lastWrite.region = "primary"
            THEN c.primary.accepting_writes ELSE c.secondary.accepting_writes

IInv ==
    /\ TypeOK
    /\ AuthorityShape(ctx)
    /\ AuthorityShape(current)
    /\ WriteBound(ctx)
    /\ LaterAuthority(ctx, current)
    /\ phase = "idle" => current = ctx

\* A context with later authority still bounds the writes accepted so far.
LEMMA LaterBoundsWrites ==
    ASSUME NEW c \in Context, NEW d \in Context, LaterAuthority(c, d), WriteBound(c),
           lastWrite \in [region : Regions, epoch : Nat]
    PROVE  WriteBound(d)
  BY DEF LaterAuthority, SameAuthority, WriteBound, Top, Larger, Context, Region

LEMMA LaterTransitive ==
    ASSUME NEW c \in Context, NEW d \in Context, NEW e \in Context,
           LaterAuthority(c, d), LaterAuthority(d, e)
    PROVE  LaterAuthority(c, e)
  BY DEF LaterAuthority, SameAuthority, Top, Larger, Context, Region

LEMMA InitIInv == Init => IInv
<1> SUFFICES ASSUME Init PROVE IInv
  OBVIOUS
<1>1. HealthyRegion(TRUE) \in Region /\ HealthyRegion(FALSE) \in Region
  BY PolicyAssumption DEF HealthyRegion, Region, PolicyAssumption, ValidPolicy
<1>2. /\ ctx \in Context
      /\ ctx.state = "normal"
      /\ ctx.primary = HealthyRegion(TRUE)
      /\ ctx.secondary = HealthyRegion(FALSE)
  <2>1. /\ ctx.state = "normal"
        /\ ctx.primary = HealthyRegion(TRUE)
        /\ ctx.secondary = HealthyRegion(FALSE)
    BY DEF Init
  <2>2. ctx \in Context
    BY PolicyAssumption
    DEF Init, Context, States, Region, HealthyRegion, PolicyAssumption, ValidPolicy
  <2>3. QED
    BY <2>1, <2>2
<1>3. TypeOK
  BY <1>2, PolicyAssumption DEF Init, TypeOK, PolicyAssumption, ValidPolicy, Regions
<1>4. AuthorityShape(ctx) /\ AuthorityShape(current)
  BY <1>2, PolicyAssumption
  DEF Init, AuthorityShape, HealthyRegion, PolicyAssumption, ValidPolicy
<1>5. WriteBound(ctx)
  BY <1>2, PolicyAssumption
     DEF Init, WriteBound, Top, Larger, HealthyRegion, PolicyAssumption, ValidPolicy
<1>6. QED
  BY <1>3, <1>4, <1>5 DEF Init, IInv, LaterAuthority, SameAuthority

\* New evidence about a region or the incident does not touch authority.
LEMMA EvidenceKeeps ==
    ASSUME IInv, NEW c \in Context, NewEvidence(c), AuthorityShape(c),
           SameAuthority(ctx, c)
    PROVE  IInv'
<1>1. LaterAuthority(ctx, c)
  BY DEF LaterAuthority
<1>2. WriteBound(c)
  BY <1>1, LaterBoundsWrites DEF IInv, TypeOK
<1>3. LaterAuthority(c, c)
  BY DEF LaterAuthority, SameAuthority
<1>4. QED
  BY <1>2, <1>3 DEF IInv, TypeOK, NewEvidence, WriteBound

LEMMA EvidencePreserves == IInv /\ Evidence => IInv'
<1> SUFFICES ASSUME IInv, Evidence PROVE IInv'
  OBVIOUS
<1>1. ctx \in Context /\ AuthorityShape(ctx)
  BY DEF IInv, TypeOK
<1>2. CASE ProbePrimary
  <2>1. PICK f \in SUBSET Fallible : NewEvidence([ctx EXCEPT !.primary.failing = f])
    BY <1>2 DEF ProbePrimary
  <2>2. f \in SUBSET Gates
    BY PolicyAssumption DEF PolicyAssumption
  <2>3. [ctx EXCEPT !.primary.failing = f] \in Context
    BY <1>1, <2>2 DEF Context, Region
  <2>4. QED
    BY <1>1, <2>1, <2>3, EvidenceKeeps DEF Context, Region, AuthorityShape, SameAuthority
<1>3. CASE ProbeSecondary
  <2>1. PICK f \in SUBSET Fallible : NewEvidence([ctx EXCEPT !.secondary.failing = f])
    BY <1>3 DEF ProbeSecondary
  <2>2. f \in SUBSET Gates
    BY PolicyAssumption DEF PolicyAssumption
  <2>3. [ctx EXCEPT !.secondary.failing = f] \in Context
    BY <1>1, <2>2 DEF Context, Region
  <2>4. QED
    BY <1>1, <2>1, <2>3, EvidenceKeeps DEF Context, Region, AuthorityShape, SameAuthority
<1>4. CASE ProveFence
  <2>1. [ctx EXCEPT !.old_writer_fenced = TRUE] \in Context
    BY <1>1 DEF Context
  <2>2. QED
    BY <1>1, <1>4, <2>1, EvidenceKeeps DEF ProveFence, Context, AuthorityShape, SameAuthority
<1>5. CASE AssignCommander
  <2>1. [ctx EXCEPT !.incident_commander_assigned = TRUE] \in Context
    BY <1>1 DEF Context
  <2>2. QED
    BY <1>1, <1>5, <2>1, EvidenceKeeps DEF AssignCommander, Context, AuthorityShape, SameAuthority
<1>6. CASE RebuildOriginal
  <2>1. [ctx EXCEPT !.original_region_rebuilt = TRUE] \in Context
    BY <1>1 DEF Context
  <2>2. QED
    BY <1>1, <1>6, <2>1, EvidenceKeeps DEF RebuildOriginal, Context, AuthorityShape, SameAuthority
<1>7. CASE ProbeFailbackReplication
  <2>1. PICK b \in BOOLEAN : NewEvidence([ctx EXCEPT !.failback_replication_healthy = b])
    BY <1>7 DEF ProbeFailbackReplication
  <2>2. [ctx EXCEPT !.failback_replication_healthy = b] \in Context
    BY <1>1 DEF Context
  <2>3. QED
    BY <1>1, <2>1, <2>2, EvidenceKeeps DEF Context, AuthorityShape, SameAuthority
<1>8. CASE ProbeBurnRate
  <2>1. PICK b \in BOOLEAN : NewEvidence([ctx EXCEPT !.fast_burn = b])
    BY <1>8 DEF ProbeBurnRate
  <2>2. [ctx EXCEPT !.fast_burn = b] \in Context
    BY <1>1 DEF Context
  <2>3. QED
    BY <1>1, <2>1, <2>2, EvidenceKeeps DEF Context, AuthorityShape, SameAuthority
<1>9. CASE DetectInconsistency
  <2>1. [ctx EXCEPT !.data_inconsistency_detected = TRUE] \in Context
    BY <1>1 DEF Context
  <2>2. QED
    BY <1>1, <1>9, <2>1, EvidenceKeeps DEF DetectInconsistency, Context, AuthorityShape, SameAuthority
<1>10. QED
  BY <1>2, <1>3, <1>4, <1>5, <1>6, <1>7, <1>8, <1>9 DEF Evidence

-----------------------------------------------------------------------------
(* The other steps, the theorems. *)

LEMMA ReconcileOncePreserves == IInv /\ ReconcileOnce => IInv'
<1> SUFFICES ASSUME IInv, ReconcileOnce PROVE IInv'
  OBVIOUS
<1>1. ctx' \in Context /\ AuthorityShape(ctx') /\ LaterAuthority(ctx, ctx')
  BY ReconciledType, ReconciledAuthority DEF IInv, TypeOK, ReconcileOnce
<1>2. WriteBound(ctx')
  BY <1>1, LaterBoundsWrites DEF IInv, TypeOK
<1>3. LaterAuthority(ctx', ctx')
  BY DEF LaterAuthority, SameAuthority
<1>4. QED
  BY <1>1, <1>2, <1>3 DEF IInv, TypeOK, ReconcileOnce, WriteBound

LEMMA LoopPreserves == IInv /\ (RunUntilStable \/ Loop) => IInv'
<1> SUFFICES ASSUME IInv, RunUntilStable \/ Loop PROVE IInv'
  OBVIOUS
<1>0. /\ ctx \in Context /\ current \in Context
      /\ StepLimits \subseteq Nat \ {0} /\ limit \in StepLimits \cup {0}
      /\ steps \in Nat /\ (steps = 0 \/ steps < limit)
      /\ exhausted \in StepLimits \cup {0}
  BY PolicyAssumption DEF IInv, TypeOK, PolicyAssumption
<1>1. CASE RunUntilStable
  BY <1>1 DEF IInv, TypeOK, RunUntilStable, WriteBound
<1>2. CASE LoopReturns
  <2>1. WriteBound(current)
    BY <1>0, LaterBoundsWrites DEF IInv, TypeOK
  <2>2. LaterAuthority(current, current)
    BY DEF LaterAuthority, SameAuthority
  <2>3. QED
    BY <1>2, <2>1, <2>2 DEF IInv, TypeOK, LoopReturns, WriteBound
<1>3. CASE LoopContinues
  <2>1. current' \in Context /\ AuthorityShape(current') /\ LaterAuthority(current, current')
    BY <1>0, <1>3, ReconciledType, ReconciledAuthority DEF IInv, LoopContinues
  <2>2. LaterAuthority(ctx, current')
    BY <1>0, <2>1, LaterTransitive DEF IInv
  <2>3. steps' \in Nat /\ steps' < limit'
    BY <1>0, <1>3 DEF LoopContinues
  <2>4. TypeOK'
    BY <1>3, <2>1, <2>3 DEF IInv, TypeOK, LoopContinues
  <2>5. phase' # "idle"
    BY <1>3 DEF LoopContinues
  <2>6. QED
    BY <1>3, <2>1, <2>2, <2>4, <2>5 DEF IInv, LoopContinues, WriteBound
<1>4. CASE LoopRaises
  <2>1. LaterAuthority(ctx, ctx)
    BY DEF LaterAuthority, SameAuthority
  <2>2. QED
    BY <1>0, <1>4, <2>1 DEF IInv, TypeOK, LoopRaises, WriteBound
<1>5. QED
  BY <1>1, <1>2, <1>3, <1>4 DEF Loop

\* The epoch of an accepted write is the newest one.
LEMMA WriteCarriesTop ==
    ASSUME IInv, NEW r \in Regions, Write(r)
    PROVE  /\ lastWrite' = [region |-> r, epoch |-> Top(ctx)]
           /\ IF r = "primary" THEN ctx.primary.accepting_writes
                              ELSE ctx.secondary.accepting_writes
           /\ UNCHANGED <<ctx, phase, current, limit, steps, exhausted>>
<1>1. ctx \in Context /\ AuthorityShape(ctx)
  BY DEF IInv, TypeOK
<1>2. CASE r = "primary"
  BY <1>1, <1>2 DEF Write, WriteAllowed, AuthorityShape, Top, Larger, Context, Region
<1>3. CASE r = "secondary"
  BY <1>1, <1>3 DEF Write, WriteAllowed, AuthorityShape, Top, Larger, Context, Region
<1>4. QED
  BY <1>2, <1>3 DEF Regions

LEMMA WritePreserves ==
    ASSUME IInv, NEW r \in Regions, Write(r)
    PROVE  IInv'
<1>1. ctx \in Context
  BY DEF IInv, TypeOK
<1>2. Top(ctx) \in Nat
  BY <1>1 DEF Top, Larger, Context, Region
<1>3. /\ lastWrite'.region = r
      /\ lastWrite'.epoch = Top(ctx)
      /\ lastWrite' \in [region : Regions, epoch : Nat]
  BY <1>2, WriteCarriesTop
<1>4. TypeOK'
  BY <1>3, WriteCarriesTop DEF IInv, TypeOK
<1>5. WriteBound(ctx)'
  BY <1>2, <1>3, WriteCarriesTop DEF WriteBound
<1>6. QED
  BY <1>4, <1>5, WriteCarriesTop DEF IInv

LEMMA NextIInv == IInv /\ [Next]_vars => IInv'
<1> SUFFICES ASSUME IInv, [Next]_vars PROVE IInv'
  OBVIOUS
<1>1. CASE ReconcileOnce
  BY <1>1, ReconcileOncePreserves
<1>2. CASE RunUntilStable \/ Loop
  BY <1>2, LoopPreserves
<1>3. CASE Evidence
  BY <1>3, EvidencePreserves
<1>4. CASE \E r \in Regions : Write(r)
  BY <1>4, WritePreserves
<1>5. CASE UNCHANGED vars
  BY <1>5 DEF vars, IInv, TypeOK, WriteBound
<1>6. QED
  BY <1>1, <1>2, <1>3, <1>4, <1>5 DEF Next

\* The inductive invariant holds throughout: in the context its owner holds and
\* in the one run_until_stable is working on, one region alone accepts writes
\* and it holds the newest epoch.
THEOREM InductiveInvariant == Spec => []IInv
  BY InitIInv, NextIInv, PTL DEF Spec

\* Type correctness of dr_failover.py's contexts, for every policy.
THEOREM TypeCorrect == Spec => []TypeOK
<1>1. IInv => TypeOK
  BY DEF IInv
<1>2. QED
  BY <1>1, InductiveInvariant, PTL

\* The README's second safety invariant: no write authority in the secondary
\* without a fenced old writer and a newer epoch.
THEOREM AuthorityIsFenced == Spec => []AuthorityBehindFence
<1>1. IInv => AuthorityBehindFence
  BY DEF IInv, AuthorityShape, AuthorityBehindFence
<1>2. QED
  BY <1>1, InductiveInvariant, PTL

\* Accepted writes carry ever newer epochs, and no two regions share one: a
\* stale token is rejected by both regions, whatever the interleaving.
THEOREM AuthorityNeverReturns == Spec => AuthorityMovesForward
<1>1. IInv /\ [Next]_vars => [\/ lastWrite' = lastWrite
                             \/ lastWrite'.epoch > lastWrite.epoch]_vars
  <2> SUFFICES ASSUME IInv, [Next]_vars, lastWrite' # lastWrite
               PROVE  lastWrite'.epoch > lastWrite.epoch
    OBVIOUS
  <2>1. PICK r \in Regions : Write(r)
    BY DEF Next, vars, ReconcileOnce, RunUntilStable, Loop, LoopReturns, LoopContinues,
           LoopRaises, Evidence, ProbePrimary, ProbeSecondary, ProveFence, AssignCommander,
           RebuildOriginal, ProbeFailbackReplication, ProbeBurnRate, DetectInconsistency,
           NewEvidence
  <2>2. /\ ctx \in Context /\ AuthorityShape(ctx) /\ WriteBound(ctx)
        /\ lastWrite \in [region : Regions, epoch : Nat]
    BY DEF IInv, TypeOK
  <2>3. /\ Top(ctx) \in Nat
        /\ lastWrite.epoch \in Nat
        /\ lastWrite = [region |-> lastWrite.region, epoch |-> lastWrite.epoch]
        /\ lastWrite.region \in Regions
    BY <2>2 DEF Top, Larger, Context, Region
  <2>4. lastWrite' = [region |-> r, epoch |-> Top(ctx)]
    BY <2>1, WriteCarriesTop
  <2>5. ASSUME lastWrite.epoch = Top(ctx) PROVE lastWrite.region = r
    BY <2>1, <2>2, <2>3, <2>5, WriteCarriesTop DEF WriteBound, AuthorityShape, Regions
  <2>6. lastWrite.epoch # Top(ctx)
    BY <2>3, <2>4, <2>5
  <2>7. QED
    BY <2>2, <2>3, <2>4, <2>6 DEF WriteBound
<1>2. QED
  BY <1>1, InductiveInvariant, PTL DEF Spec, AuthorityMovesForward

-----------------------------------------------------------------------------
(* The traffic.  run_until_stable shifts it in a context of its own and hands *)
(* over the last one, so growth between two contexts of the owner is related  *)
(* to the evidence that both of them, and every context in between, carry.    *)

BeforeShift == {"normal", "assess", "frozen", "eligibility-check", "fencing", "promoting"}

\* No traffic in the secondary before the canary, all of it before a failback.
ShiftShape(c) ==
    /\ c.state \in BeforeShift => c.traffic_percent_secondary = 0
    /\ c.state \in {"recovered-secondary", "failback-prep"} => c.traffic_percent_secondary = Full

SameEvidence(c, d) ==
    /\ d.secondary.failing = c.secondary.failing
    /\ d.fast_burn = c.fast_burn
    /\ d.data_inconsistency_detected = c.data_inconsistency_detected

Safe(c) == Eligible(c.secondary) /\ ~c.fast_burn /\ ~c.data_inconsistency_detected

\* d is reached from c by calls of reconcile_once and no new evidence.
GrownSafely(c, d) ==
    /\ SameEvidence(c, d)
    /\ c.traffic_percent_secondary > 0 => d.state \notin BeforeShift
    /\ c.traffic_percent_secondary > 0
         /\ d.traffic_percent_secondary > c.traffic_percent_secondary => Safe(c)

ShiftInv ==
    /\ ShiftShape(ctx)
    /\ ShiftShape(current)
    /\ GrownSafely(ctx, current)

\* One call: it keeps the shape, it leaves the evidence alone, and if it gives the
\* secondary more traffic, this is the canary or a safe step.
LEMMA ReconciledShift ==
    ASSUME NEW c \in Context, NEW d, Reconciled(c, d), ShiftShape(c)
    PROVE  /\ ShiftShape(d)
           /\ SameEvidence(c, d)
           /\ c.state \notin BeforeShift => d.state \notin BeforeShift
           /\ d.traffic_percent_secondary > c.traffic_percent_secondary =>
                 c.state = "promoting" \/ Safe(c)
<1>1. c.traffic_percent_secondary \in 0..Full
  BY DEF Context
<1>2. CASE Hold(c, d)
  BY <1>1, <1>2 DEF Hold, Context, ShiftShape, BeforeShift, SameEvidence
<1>3. CASE Normal(c, d)
  BY <1>1, <1>3 DEF Normal, Context, ShiftShape, BeforeShift, SameEvidence
<1>4. CASE Assess(c, d)
  BY <1>1, <1>4 DEF Assess, Context, ShiftShape, BeforeShift, SameEvidence
<1>5. CASE Frozen(c, d)
  BY <1>1, <1>5 DEF Frozen, Context, ShiftShape, BeforeShift, SameEvidence
<1>6. CASE EligibilityCheck(c, d)
  BY <1>1, <1>6 DEF EligibilityCheck, Context, ShiftShape, BeforeShift, SameEvidence
<1>7. CASE Fencing(c, d)
  BY <1>1, <1>7 DEF Fencing, Context, ShiftShape, BeforeShift, SameEvidence
<1>8. CASE Promote(c, d)
  <2>1. /\ c.state = "promoting" /\ d.state = "canary"
        /\ d.secondary.failing = c.secondary.failing
        /\ d.fast_burn = c.fast_burn
        /\ d.data_inconsistency_detected = c.data_inconsistency_detected
    BY <1>8 DEF Promote, Context, Region
  <2>2. QED
    BY <2>1 DEF ShiftShape, BeforeShift, SameEvidence
<1>9. CASE Expand(c, d)
  <2>1. CASE Eligible(c.secondary)
    <3>0. PICK t \in Raised(c.traffic_percent_secondary, Step) : d = Expanded(c, t)
      BY <1>9, <2>1, Zenon DEF Expand
    <3> DEFINE s == IF t >= Full THEN "recovered-secondary" ELSE "expanding"
    <3>1. /\ s = "recovered-secondary" => t = Full
          /\ s \in {"recovered-secondary", "expanding"}
      BY <1>1, RaisedRange, PolicyRange
    <3>2. d = [c EXCEPT !.state = s, !.traffic_percent_secondary = t]
      BY <3>0, Zenon DEF Expanded
    <3> HIDE DEF s
    <3>3. /\ d.state = s /\ d.traffic_percent_secondary = t
          /\ SameEvidence(c, d)
      BY <3>2 DEF Context, SameEvidence
    <3>4. Safe(c)
      BY <1>9, <2>1 DEF Expand, MustHold, TrafficShift, Safe
    <3>5. QED
      BY <3>1, <3>3, <3>4 DEF ShiftShape, BeforeShift
  <2>2. CASE ~Eligible(c.secondary)
    BY <1>1, <1>9, <2>2 DEF Expand, Context, ShiftShape, BeforeShift, SameEvidence
  <2>3. QED
    BY <2>1, <2>2
<1>10. CASE RecoveredSecondary(c, d)
  BY <1>1, <1>10 DEF RecoveredSecondary, Context, ShiftShape, BeforeShift, SameEvidence
<1>11. CASE FailbackPrep(c, d) /\ d # c
  <2>1. /\ c.state = "failback-prep" /\ d.state = "failback-canary"
        /\ d.secondary.failing = c.secondary.failing
        /\ d.fast_burn = c.fast_burn
        /\ d.data_inconsistency_detected = c.data_inconsistency_detected
        /\ d.traffic_percent_secondary \in Lowered(Full, Canary)
    BY <1>11 DEF FailbackPrep, Context, Region
  <2>2. /\ c.traffic_percent_secondary = Full
        /\ ~(d.traffic_percent_secondary > c.traffic_percent_secondary)
    <3>1. c.traffic_percent_secondary = Full
      BY <2>1 DEF ShiftShape
    <3>2. d.traffic_percent_secondary \in 0..Full
      BY <2>1, FailbackRange
    <3>3. QED
      BY <3>1, <3>2, PolicyRange
  <2>3. QED
    BY <2>1, <2>2 DEF ShiftShape, BeforeShift, SameEvidence
<1>12. CASE FailbackCanary(c, d)
  <2>0. PICK t \in Lowered(c.traffic_percent_secondary, Step) :
             d = [c EXCEPT
                    !.state = IF t <= 0 THEN "normal-restored" ELSE "failback-canary",
                    !.traffic_percent_secondary = t]
    BY <1>12, Zenon DEF FailbackCanary
  <2> DEFINE s == IF t <= 0 THEN "normal-restored" ELSE "failback-canary"
  <2>1. t \in 0..Full /\ t <= c.traffic_percent_secondary
    BY <1>1, LoweredRange
  <2>2. d = [c EXCEPT !.state = s, !.traffic_percent_secondary = t]
    BY <2>0
  <2>3. s \in {"normal-restored", "failback-canary"}
    OBVIOUS
  <2> HIDE DEF s
  <2>4. /\ d.state = s /\ d.traffic_percent_secondary = t
        /\ SameEvidence(c, d)
    BY <2>2 DEF Context, SameEvidence
  <2>5. QED
    BY <1>1, <2>1, <2>3, <2>4 DEF ShiftShape, BeforeShift
<1>13. CASE d = c
  BY <1>1, <1>13 DEF SameEvidence
<1>14. QED
  BY <1>2, <1>3, <1>4, <1>5, <1>6, <1>7, <1>8, <1>9, <1>10, <1>11, <1>12, <1>13
     DEF Reconciled, Settled

\* A call more, after which growth since c is still safe.
LEMMA ShiftGoesOn ==
    ASSUME NEW c \in Context, NEW k \in Context, NEW d, Reconciled(k, d),
           ShiftShape(c), ShiftShape(k), GrownSafely(c, k)
    PROVE  ShiftShape(d) /\ GrownSafely(c, d)
<1>1. /\ ShiftShape(d)
      /\ SameEvidence(k, d)
      /\ k.state \notin BeforeShift => d.state \notin BeforeShift
      /\ d.traffic_percent_secondary > k.traffic_percent_secondary =>
            k.state = "promoting" \/ Safe(k)
  BY ReconciledShift
<1>2. SameEvidence(c, d)
  BY <1>1 DEF GrownSafely, SameEvidence
<1>3. ASSUME c.traffic_percent_secondary > 0
      PROVE  k.state \notin BeforeShift /\ d.state \notin BeforeShift
  BY <1>1, <1>3 DEF GrownSafely
<1>4. ASSUME c.traffic_percent_secondary > 0,
             d.traffic_percent_secondary > c.traffic_percent_secondary
      PROVE  Safe(c)
  <2>1. CASE k.traffic_percent_secondary > c.traffic_percent_secondary
    BY <1>4, <2>1 DEF GrownSafely
  <2>2. CASE ~(k.traffic_percent_secondary > c.traffic_percent_secondary)
    <3>1. d \in Context
      BY ReconciledType
    <3>2. /\ c.traffic_percent_secondary \in 0..Full /\ k.traffic_percent_secondary \in 0..Full
          /\ d.traffic_percent_secondary \in 0..Full
      BY <3>1 DEF Context
    <3>3. d.traffic_percent_secondary > k.traffic_percent_secondary
      <4> DEFINE a == c.traffic_percent_secondary
                 b == k.traffic_percent_secondary
                 x == d.traffic_percent_secondary
      <4>1. x > a /\ ~(b > a) /\ a \in 0..Full /\ b \in 0..Full /\ x \in 0..Full
        BY <1>4, <2>2, <3>2
      <4> HIDE DEF a, b, x
      <4>2. x > b
        BY <4>1
      <4>3. QED
        BY <4>2 DEF b, x
    <3>4. k.state # "promoting"
      BY <1>3, <1>4 DEF BeforeShift
    <3>5. Safe(k)
      BY <1>1, <3>3, <3>4
    <3>6. QED
      BY <3>5 DEF GrownSafely, SameEvidence, Safe, Eligible
  <2>3. QED
    BY <2>1, <2>2
<1>5. QED
  BY <1>1, <1>2, <1>3, <1>4 DEF GrownSafely

\* A context has grown safely from itself.
LEMMA ShiftStarts ==
    ASSUME NEW c \in Context, ShiftShape(c)
    PROVE  GrownSafely(c, c)
<1>1. c.traffic_percent_secondary \in 0..Full
  BY DEF Context
<1>2. QED
  BY <1>1 DEF ShiftShape, GrownSafely, SameEvidence

LEMMA EvidenceShift ==
    ASSUME IInv, ShiftInv, Evidence
    PROVE  ShiftShape(ctx)' /\ current' = ctx'
           /\ ctx'.traffic_percent_secondary = ctx.traffic_percent_secondary
<1>1. ctx \in Context /\ ShiftShape(ctx)
  BY DEF IInv, TypeOK, ShiftInv
<1>2. /\ ctx'.state = ctx.state
      /\ ctx'.traffic_percent_secondary = ctx.traffic_percent_secondary
      /\ current' = ctx'
  BY <1>1 DEF Evidence, ProbePrimary, ProbeSecondary, ProveFence, AssignCommander,
              RebuildOriginal, ProbeFailbackReplication, ProbeBurnRate,
              DetectInconsistency, NewEvidence, Context
<1>3. QED
  BY <1>1, <1>2 DEF ShiftShape

\* Every step keeps the shift's invariant and obeys ShiftGrowsOnlyWhenSafe.
LEMMA ShiftStep ==
    ASSUME IInv, IInv', ShiftInv, [Next]_vars
    PROVE  /\ ShiftInv'
           /\ ctx.traffic_percent_secondary > 0
                /\ ctx'.traffic_percent_secondary > ctx.traffic_percent_secondary => Safe(ctx)
<1>1. /\ ctx \in Context /\ current \in Context /\ ctx' \in Context
      /\ ctx.traffic_percent_secondary \in 0..Full
  BY DEF IInv, TypeOK, Context
<1>2. CASE ReconcileOnce
  <2>1. Reconciled(ctx, ctx') /\ current' = ctx'
    BY <1>2 DEF ReconcileOnce
  <2>2. ShiftShape(ctx') /\ GrownSafely(ctx, ctx')
    BY <1>1, <2>1, ShiftStarts, ShiftGoesOn DEF ShiftInv
  <2>3. GrownSafely(ctx', ctx')
    BY <1>1, <2>2, ShiftStarts
  <2>4. QED
    BY <2>1, <2>2, <2>3 DEF ShiftInv, GrownSafely
<1>3. CASE LoopReturns
  <2>1. ctx' = current /\ current' = current
    BY <1>3 DEF LoopReturns
  <2>2. GrownSafely(current, current)
    BY <1>1, ShiftStarts DEF ShiftInv
  <2>3. QED
    BY <2>1, <2>2 DEF ShiftInv, GrownSafely
<1>4. CASE LoopContinues
  <2>1. Reconciled(current, current') /\ ctx' = ctx
    BY <1>4 DEF LoopContinues
  <2>2. ShiftShape(current') /\ GrownSafely(ctx, current')
    BY <1>1, <2>1, ShiftGoesOn DEF ShiftInv
  <2>3. QED
    BY <1>1, <2>1, <2>2 DEF ShiftInv
<1>5. CASE LoopRaises
  <2>1. ctx' = ctx /\ current' = ctx
    BY <1>5 DEF LoopRaises
  <2>2. GrownSafely(ctx, ctx)
    BY <1>1, ShiftStarts DEF ShiftInv
  <2>3. QED
    BY <1>1, <2>1, <2>2 DEF ShiftInv
<1>6. CASE RunUntilStable \/ (\E r \in Regions : Write(r)) \/ UNCHANGED vars
  <2>1. ctx' = ctx /\ current' = current
    BY <1>6 DEF RunUntilStable, Write, vars
  <2>2. QED
    BY <1>1, <2>1 DEF ShiftInv
<1>7. CASE Evidence
  <2>1. /\ ShiftShape(ctx') /\ current' = ctx'
        /\ ctx'.traffic_percent_secondary = ctx.traffic_percent_secondary
    BY <1>7, EvidenceShift
  <2>2. GrownSafely(ctx', ctx')
    BY <1>1, <2>1, ShiftStarts
  <2>3. QED
    BY <1>1, <2>1, <2>2 DEF ShiftInv
<1>8. QED
  BY <1>2, <1>3, <1>4, <1>5, <1>6, <1>7 DEF Next, Loop

\* Once the secondary serves traffic it is given more only by a call that sees it
\* eligible, with no fast burn and no inconsistency (the CANARY and EXPANDING
\* branches, and the holds before them), in one call or in a whole run_until_stable.
THEOREM TrafficGrowsSafely == Spec => ShiftGrowsOnlyWhenSafe
<1>1. Init => ShiftInv
  BY DEF Init, ShiftInv, ShiftShape, BeforeShift, GrownSafely, SameEvidence
<1>2. IInv /\ IInv' /\ ShiftInv /\ [Next]_vars => ShiftInv'
  BY ShiftStep
<1>3. IInv /\ IInv' /\ ShiftInv /\ [Next]_vars =>
         [(/\ ctx.traffic_percent_secondary > 0
           /\ ctx'.traffic_percent_secondary > ctx.traffic_percent_secondary) =>
              /\ Eligible(ctx.secondary)
              /\ ~ctx.fast_burn
              /\ ~ctx.data_inconsistency_detected]_vars
  BY ShiftStep DEF Safe
<1>4. QED
  BY <1>1, <1>2, <1>3, InductiveInvariant, PTL DEF Spec, ShiftGrowsOnlyWhenSafe

-----------------------------------------------------------------------------
(* The step budget.  The loop can not take more steps than its place in the   *)
(* sequence of states and its traffic percentage allow.                       *)

\* Where one call goes, and with which traffic.
LEMMA ReconciledMoves ==
    ASSUME NEW c \in Context, NEW d, Reconciled(c, d)
    PROVE  /\ d.primary.failing = c.primary.failing
           /\ \/ d = c
              \/ d.state = "hold-read-only"
              \/ c.state = "normal" /\ d.state = "assess" /\ "application" \in c.primary.failing
              \/ c.state = "assess" /\ d.state = "frozen"
              \/ c.state = "frozen" /\ d.state = "eligibility-check"
              \/ c.state = "eligibility-check" /\ d.state = "fencing"
              \/ c.state = "fencing" /\ d.state = "promoting"
              \/ /\ c.state = "promoting" /\ d.state = "canary"
                 /\ d.traffic_percent_secondary = Canary
              \/ /\ c.state \in {"canary", "expanding"}
                 /\ d.traffic_percent_secondary \in Raised(c.traffic_percent_secondary, Step)
                 /\ d.state = IF d.traffic_percent_secondary >= Full
                              THEN "recovered-secondary" ELSE "expanding"
              \/ c.state = "recovered-secondary" /\ d.state = "failback-prep"
              \/ /\ c.state = "failback-prep" /\ d.state = "failback-canary"
                 /\ Eligible(c.primary)
                 /\ d.traffic_percent_secondary \in Lowered(Full, Canary)
              \/ /\ c.state = "failback-canary"
                 /\ d.traffic_percent_secondary \in Lowered(c.traffic_percent_secondary, Step)
                 /\ d.state = IF d.traffic_percent_secondary <= 0
                              THEN "normal-restored" ELSE "failback-canary"
<1>2. CASE Hold(c, d)
  BY <1>2 DEF Hold, Context
<1>3. CASE Normal(c, d)
  BY <1>3 DEF Normal, Context
<1>4. CASE Assess(c, d)
  BY <1>4 DEF Assess, Context
<1>5. CASE Frozen(c, d)
  BY <1>5 DEF Frozen, Context
<1>6. CASE EligibilityCheck(c, d)
  BY <1>6 DEF EligibilityCheck, Context
<1>7. CASE Fencing(c, d)
  BY <1>7 DEF Fencing, Context
<1>8. CASE Promote(c, d)
  BY <1>8 DEF Promote, Context, Region
<1>9. CASE Expand(c, d)
  <2>1. CASE Eligible(c.secondary)
    <3>1. PICK t \in Raised(c.traffic_percent_secondary, Step) : d = Expanded(c, t)
      BY <1>9, <2>1, Zenon DEF Expand
    <3> DEFINE s == IF t >= Full THEN "recovered-secondary" ELSE "expanding"
    <3>2. c.state \in {"canary", "expanding"}
          /\ d = [c EXCEPT !.state = s, !.traffic_percent_secondary = t]
      BY <1>9, <3>1, Zenon DEF Expand, Expanded
    <3> HIDE DEF s
    <3>3. /\ d.state = s /\ d.traffic_percent_secondary = t
          /\ d.primary.failing = c.primary.failing
      BY <3>2 DEF Context
    <3>4. QED
      BY <3>2, <3>3 DEF s
  <2>2. CASE ~Eligible(c.secondary)
    BY <1>9, <2>2 DEF Expand, Context
  <2>3. QED
    BY <2>1, <2>2
<1>10. CASE RecoveredSecondary(c, d)
  BY <1>10 DEF RecoveredSecondary, Context
<1>11. CASE FailbackPrep(c, d) /\ d # c
  BY <1>11 DEF FailbackPrep, Context, Region
<1>12. CASE FailbackCanary(c, d)
  <2>1. PICK t \in Lowered(c.traffic_percent_secondary, Step) :
             d = [c EXCEPT
                    !.state = IF t <= 0 THEN "normal-restored" ELSE "failback-canary",
                    !.traffic_percent_secondary = t]
    BY <1>12, Zenon DEF FailbackCanary
  <2> DEFINE s == IF t <= 0 THEN "normal-restored" ELSE "failback-canary"
  <2>2. c.state = "failback-canary"
        /\ d = [c EXCEPT !.state = s, !.traffic_percent_secondary = t]
    BY <1>12, <2>1, Zenon DEF FailbackCanary
  <2> HIDE DEF s
  <2>3. /\ d.state = s /\ d.traffic_percent_secondary = t
        /\ d.primary.failing = c.primary.failing
    BY <2>2 DEF Context
  <2>4. QED
    BY <2>2, <2>3 DEF s
<1>13. CASE d = c
  BY <1>13
<1>14. QED
  BY <1>2, <1>3, <1>4, <1>5, <1>6, <1>7, <1>8, <1>9, <1>10, <1>11, <1>12, <1>13
     DEF Reconciled, Settled

\* The traffic that a shift has at least, or at most.
Paced(c) ==
    /\ c.state \in {"canary", "expanding"} => c.traffic_percent_secondary >= Canary
    /\ c.state = "expanding" => c.traffic_percent_secondary < Full
    /\ c.state = "failback-canary" =>
          c.traffic_percent_secondary <= Full - Canary + Rounding

\* A call that started from normal found the application failing, and no failback
\* can begin on that evidence: one step more before it, none after it.
Detected(c) == IF "application" \in c.primary.failing THEN 1 ELSE 0

ShiftedBack(c, n) ==
    \E k \in Nat :
        /\ n <= 7 + Hops + k
        /\ k = 0 \/ c.traffic_percent_secondary > 0
        /\ c.traffic_percent_secondary <= Full - Canary + Rounding - Pace * k

\* c may be n steps from where the loop started.
StepsTo(c, n) ==
    /\ c.state = "normal" => n = 0
    /\ c.state = "assess" => n <= Detected(c)
    /\ c.state = "frozen" => n <= 1 + Detected(c)
    /\ c.state = "eligibility-check" => n <= 2 + Detected(c)
    /\ c.state = "fencing" => n <= 3 + Detected(c)
    /\ c.state = "promoting" => n <= 4 + Detected(c)
    /\ c.state = "canary" => n <= 5 + Detected(c)
    /\ c.state = "expanding" =>
          \E k \in Nat : /\ n <= 5 + Detected(c) + k
                         /\ Canary + Pace * k <= c.traffic_percent_secondary
    /\ c.state = "recovered-secondary" => n <= 5 + Detected(c) + Hops
    /\ c.state = "failback-prep" => n <= 6 + Detected(c) + Hops
    /\ c.state = "failback-canary" => ShiftedBack(c, n)
    /\ c.state = "normal-restored" /\ c.data_inconsistency_detected => n = 0

\* Steps at the pace that leave something to move are fewer than Hops.
LEMMA HopsEnough ==
    /\ Hops \in Nat /\ Hops >= 1
    /\ \A k \in Nat : Pace * k < Full - Canary + Rounding => k < Hops
    /\ \A k \in Nat : Pace * k \in Nat /\ Pace * (k + 1) = Pace * k + Pace
    /\ Pace * 0 = 0
<1> DEFINE w == Full - Canary + Rounding
           h == (w + Pace - 1) \div Pace
<1>1. w \in Nat /\ Pace \in Nat \ {0}
  BY PolicyRange
<1>2. Hops = Larger(1, h)
  BY DEF Hops
<1> HIDE DEF w
<1>3. h \in Int /\ Pace * h >= w
  BY <1>1, SMTT(30)
<1> HIDE DEF h
<1>4. Hops \in Nat /\ Hops >= 1 /\ Hops >= h
  BY <1>2, <1>3 DEF Larger
<1>5. ASSUME NEW k \in Nat, Pace * k < w
      PROVE  k < Hops
  <2>1. Pace * k < Pace * h
    BY <1>1, <1>3, <1>5, SMTT(30)
  <2>2. k < h
    BY <1>1, <1>3, <2>1, SMTT(30)
  <2>3. QED
    BY <1>3, <1>4, <2>2
<1>6. ASSUME NEW k \in Nat
      PROVE  Pace * k \in Nat /\ Pace * (k + 1) = Pace * k + Pace
  BY <1>1, SMTT(30)
<1>7. Pace * 0 = 0
  BY <1>1
<1>8. QED
  BY <1>4, <1>5, <1>6, <1>7 DEF w

LEMMA DetectedRange ==
    ASSUME NEW c
    PROVE  Detected(c) \in 0..1 /\ (Eligible(c.primary) => Detected(c) = 0)
  BY DEF Detected, Eligible, EnforcedGates, Gates

LEMMA PacedStep ==
    ASSUME NEW c \in Context, NEW d \in Context, Reconciled(c, d), Paced(c)
    PROVE  Paced(d)
<1> DEFINE t == c.traffic_percent_secondary
           u == d.traffic_percent_secondary
<1>1. t \in 0..Full /\ u \in 0..Full
  BY DEF Context
<1>2. CASE d = c
  BY <1>2
<1>3. CASE /\ c.state \in {"canary", "expanding"} /\ u \in Raised(t, Step)
           /\ d.state = IF u >= Full THEN "recovered-secondary" ELSE "expanding"
  <2>1. u < Full => u >= t + Pace
    BY <1>1, <1>3, RaisedRange
  <2>2. t >= Canary
    BY <1>3 DEF Paced
  <2>3. u < Full => u >= Canary
    BY <1>1, <2>1, <2>2, PolicyRange
  <2>4. QED
    BY <1>1, <1>3, <2>3, PolicyRange DEF Paced
<1>4. CASE /\ c.state = "failback-prep" /\ d.state = "failback-canary"
           /\ u \in Lowered(Full, Canary)
  BY <1>4, FailbackRange DEF Paced
<1>5. CASE /\ c.state = "failback-canary" /\ u \in Lowered(t, Step)
           /\ d.state = IF u <= 0 THEN "normal-restored" ELSE "failback-canary"
  <2>1. u <= t
    BY <1>1, <1>5, LoweredRange
  <2>2. t <= Full - Canary + Rounding
    BY <1>5 DEF Paced
  <2>3. u <= Full - Canary + Rounding
    BY <1>1, <2>1, <2>2, PolicyRange
  <2>4. QED
    BY <1>5, <2>3 DEF Paced
<1>6. CASE d.state = "canary" /\ u = Canary
  BY <1>6, PolicyRange DEF Paced
<1>7. CASE d.state \notin {"canary", "expanding", "failback-canary"}
  BY <1>7 DEF Paced
<1>8. QED
  BY <1>2, <1>3, <1>4, <1>5, <1>6, <1>7, ReconciledMoves

LEMMA StepsStart ==
    ASSUME NEW c \in Context, Paced(c)
    PROVE  StepsTo(c, 0)
<1>1. /\ Canary \in 1..Full /\ Rounding \in Nat /\ Full \in Nat
      /\ c.traffic_percent_secondary \in 0..Full
  BY PolicyRange DEF Context
<1>2. Detected(c) \in 0..1 /\ Hops \in Nat /\ 0 \in Nat /\ Pace * 0 = 0
  BY DetectedRange, HopsEnough
<1>3. c.state = "expanding" =>
        /\ 0 <= 5 + Detected(c) + 0
        /\ Canary + Pace * 0 <= c.traffic_percent_secondary
  BY <1>1, <1>2 DEF Paced
<1>4. c.state = "failback-canary" =>
        /\ 0 <= 7 + Hops + 0
        /\ c.traffic_percent_secondary <= Full - Canary + Rounding - Pace * 0
  BY <1>1, <1>2 DEF Paced
<1>5. c.state = "failback-canary" => ShiftedBack(c, 0)
  BY <1>2, <1>4 DEF ShiftedBack
<1>6. QED
  BY <1>2, <1>3, <1>5 DEF StepsTo

\* A call that restores the original region saw no inconsistency.
LEMMA RestoredConsistent ==
    ASSUME NEW c \in Context, NEW d, Reconciled(c, d), d # c, d.state = "normal-restored"
    PROVE  ~d.data_inconsistency_detected
<1>1. CASE Hold(c, d)
  BY <1>1 DEF Hold, Context
<1>2. CASE ~MustHold(c)
  <2>1. ~c.data_inconsistency_detected
    BY <1>2 DEF MustHold
  <2>2. CASE FailbackCanary(c, d)
    BY <2>1, <2>2 DEF FailbackCanary, Context
  <2>3. CASE Expand(c, d)
    BY <2>1, <2>3 DEF Expand, Expanded, Context
  <2>4. QED
    BY <1>1, <2>1, <2>2, <2>3
       DEF Reconciled, Normal, Assess, Frozen, EligibilityCheck, Fencing, Promote,
           RecoveredSecondary, FailbackPrep, Settled, Context
<1>3. QED
  BY <1>1, <1>2 DEF Reconciled, Normal, Assess, Frozen, EligibilityCheck, Fencing,
     Promote, Expand, RecoveredSecondary, FailbackPrep, FailbackCanary, Settled

\* One more step.
LEMMA StepsGoOn ==
    ASSUME NEW c \in Context, NEW d \in Context, NEW n \in Nat,
           Reconciled(c, d), d # c, Paced(c), StepsTo(c, n)
    PROVE  StepsTo(d, n + 1)
<1> DEFINE t == c.traffic_percent_secondary
           u == d.traffic_percent_secondary
           a == Detected(c)
<1>1. /\ Full \in Nat /\ Canary \in 1..Full /\ Rounding \in Nat /\ Pace \in Nat
      /\ t \in 0..Full /\ u \in 0..Full
  BY PolicyRange DEF Context
<1>2. d.primary.failing = c.primary.failing /\ Detected(d) = a
  BY ReconciledMoves DEF Detected
<1>3. a \in 0..1 /\ Hops \in Nat /\ Hops >= 1
  BY DetectedRange, HopsEnough
<1> HIDE DEF a
<1>4. CASE /\ c.state = "normal" /\ d.state = "assess"
           /\ "application" \in c.primary.failing
  <2>1. n = 0 /\ a = 1
    BY <1>4 DEF StepsTo, Detected, a
  <2>2. QED
    BY <1>2, <1>4, <2>1 DEF StepsTo
<1>5. CASE \/ c.state = "assess" /\ d.state = "frozen"
           \/ c.state = "frozen" /\ d.state = "eligibility-check"
           \/ c.state = "eligibility-check" /\ d.state = "fencing"
           \/ c.state = "fencing" /\ d.state = "promoting"
           \/ c.state = "promoting" /\ d.state = "canary"
           \/ c.state = "recovered-secondary" /\ d.state = "failback-prep"
  BY <1>2, <1>3, <1>5 DEF StepsTo, a
<1>6. CASE /\ c.state \in {"canary", "expanding"}
           /\ u \in Raised(t, Step)
           /\ d.state = IF u >= Full THEN "recovered-secondary" ELSE "expanding"
  <2>1. PICK k \in Nat : /\ n <= 5 + a + k
                         /\ k = 0 \/ (k < Hops)
                         /\ Canary + Pace * k <= t
    <3>1. CASE c.state = "canary"
      <4>1. n <= 5 + a + 0 /\ Canary + Pace * 0 <= t
        BY <1>1, <1>3, <3>1, HopsEnough DEF StepsTo, Paced, a
      <4>2. QED
        BY <4>1
    <3>2. CASE c.state = "expanding"
      <4>1. PICK k \in Nat : n <= 5 + a + k /\ Canary + Pace * k <= t
        BY <3>2 DEF StepsTo, a
      <4>2. t < Full /\ Pace * k \in Nat
        BY <3>2, HopsEnough DEF Paced
      <4>3. Pace * k < Full - Canary + Rounding
        BY <1>1, <4>1, <4>2
      <4>4. QED
        BY <4>1, <4>3, HopsEnough
    <3>3. QED
      BY <1>6, <3>1, <3>2
  <2>2. k + 1 <= Hops
    BY <1>3, <2>1
  <2>3. CASE u >= Full
    <3>1. d.state = "recovered-secondary" /\ n + 1 <= 5 + a + Hops
      BY <1>3, <1>6, <2>1, <2>2, <2>3
    <3>2. QED
      BY <1>2, <3>1 DEF StepsTo
  <2>4. CASE u < Full
    <3>1. Pace * k \in Nat /\ Pace * (k + 1) = Pace * k + Pace
      BY HopsEnough
    <3>2. u >= t + Pace
      BY <1>1, <1>6, <2>4, RaisedRange
    <3>3. /\ k + 1 \in Nat /\ n + 1 <= 5 + a + (k + 1)
          /\ Canary + Pace * (k + 1) <= u
      BY <1>1, <1>3, <2>1, <3>1, <3>2
    <3>4. d.state = "expanding"
      BY <1>1, <1>6, <2>4
    <3>5. QED
      BY <1>2, <3>3, <3>4 DEF StepsTo
  <2>5. QED
    BY <1>1, <2>3, <2>4
<1>7. CASE /\ c.state = "failback-prep" /\ d.state = "failback-canary"
           /\ Eligible(c.primary) /\ u \in Lowered(Full, Canary)
  <2>1. a = 0
    BY <1>7, DetectedRange DEF a
  <2>2. n <= 6 + Hops
    BY <1>3, <1>7, <2>1 DEF StepsTo, a
  <2>3. n + 1 <= 7 + Hops + 0 /\ u <= Full - Canary + Rounding - Pace * 0
    BY <1>1, <1>3, <1>7, <2>2, FailbackRange, HopsEnough
  <2>4. ShiftedBack(d, n + 1)
    BY <2>3 DEF ShiftedBack
  <2>5. QED
    BY <1>7, <2>4 DEF StepsTo
<1>8. CASE /\ c.state = "failback-canary"
           /\ u \in Lowered(t, Step)
           /\ d.state = IF u <= 0 THEN "normal-restored" ELSE "failback-canary"
  <2>0. ShiftedBack(c, n)
    BY <1>8 DEF StepsTo
  <2>1. PICK k \in Nat : /\ n <= 7 + Hops + k
                         /\ k = 0 \/ t > 0
                         /\ t <= Full - Canary + Rounding - Pace * k
    BY <2>0, Zenon DEF ShiftedBack
  <2>2. CASE u <= 0
    BY <1>8, <2>2, RestoredConsistent DEF StepsTo
  <2>3. CASE u > 0
    <3>1. Pace * k \in Nat /\ Pace * (k + 1) = Pace * k + Pace
      BY HopsEnough
    <3>2. u <= t - Pace
      BY <1>1, <1>8, <2>3, LoweredRange
    <3>3. /\ k + 1 \in Nat /\ n + 1 <= 7 + Hops + (k + 1)
          /\ u <= Full - Canary + Rounding - Pace * (k + 1)
      BY <1>1, <1>3, <2>1, <3>1, <3>2
    <3>4. d.state = "failback-canary"
      BY <1>1, <1>8, <2>3
    <3>5. ShiftedBack(d, n + 1)
      BY <2>3, <3>3 DEF ShiftedBack
    <3>6. QED
      BY <3>4, <3>5 DEF StepsTo
  <2>4. QED
    BY <1>1, <2>2, <2>3
<1>9. CASE d.state = "hold-read-only"
  BY <1>9 DEF StepsTo
<1>10. QED
  BY <1>4, <1>5, <1>6, <1>7, <1>8, <1>9, ReconciledMoves

\* A context that is not stable yet has steps left.
LEMMA StepsLeft ==
    ASSUME NEW c \in Context, NEW n \in Nat, Paced(c), StepsTo(c, n), ~Reconciled(c, c)
    PROVE  n + 1 < Enough
<1> DEFINE t == c.traffic_percent_secondary
           a == Detected(c)
<1>1. /\ Full \in Nat /\ Canary \in 1..Full /\ Rounding \in Nat /\ t \in 0..Full
      /\ a \in 0..1 /\ Hops \in Nat /\ Hops >= 1
  BY PolicyRange, DetectedRange, HopsEnough DEF Context
<1>2. c.state # "hold-read-only"
  <2>1. SUFFICES ASSUME c.state = "hold-read-only" PROVE FALSE
    OBVIOUS
  <2>2. c = [c EXCEPT !.state = "hold-read-only"]
    BY <2>1 DEF Context
  <2>3. Hold(c, c) \/ Settled(c, c)
    BY <2>1, <2>2 DEF Hold, Settled
  <2>4. QED
    BY <2>3 DEF Reconciled
<1>3. CASE c.state = "normal-restored"
  <2>1. ~Settled(c, c)
    BY DEF Reconciled
  <2>2. c.data_inconsistency_detected
    BY <1>3, <2>1 DEF Settled, MustHold, TrafficShift
  <2>3. n = 0
    BY <1>3, <2>2 DEF StepsTo
  <2>4. QED
    BY <1>1, <2>3 DEF Enough
<1> HIDE DEF a
<1>4. CASE c.state = "expanding"
  <2>1. PICK k \in Nat : n <= 5 + a + k /\ Canary + Pace * k <= t
    BY <1>4 DEF StepsTo, a
  <2>2. t < Full /\ Pace * k \in Nat
    BY <1>4, HopsEnough DEF Paced
  <2>3. Pace * k < Full - Canary + Rounding
    BY <1>1, <2>1, <2>2
  <2>4. k < Hops
    BY <2>3, HopsEnough
  <2>5. QED
    BY <1>1, <2>1, <2>4 DEF Enough
<1>5. CASE c.state = "failback-canary"
  <2>0. ShiftedBack(c, n)
    BY <1>5 DEF StepsTo
  <2>1. PICK k \in Nat : /\ n <= 7 + Hops + k
                         /\ k = 0 \/ t > 0
                         /\ t <= Full - Canary + Rounding - Pace * k
    BY <2>0, Zenon DEF ShiftedBack
  <2>2. k < Hops
    <3>1. CASE k = 0
      BY <1>1, <3>1
    <3>2. CASE t > 0
      <4>1. Pace * k \in Nat
        BY HopsEnough
      <4>2. Pace * k < Full - Canary + Rounding
        BY <1>1, <2>1, <3>2, <4>1
      <4>3. QED
        BY <4>2, HopsEnough
    <3>3. QED
      BY <2>1, <3>1, <3>2
  <2>3. QED
    BY <1>1, <2>1, <2>2 DEF Enough
<1>6. CASE c.state \in {"normal", "assess", "frozen", "eligibility-check", "fencing",
                       "promoting", "canary", "recovered-secondary", "failback-prep"}
  BY <1>1, <1>6 DEF StepsTo, Enough, a
<1>7. c.state \in States
  BY DEF Context
<1>8. QED
  BY <1>2, <1>3, <1>4, <1>5, <1>6, <1>7 DEF States

BudgetInv ==
    /\ Paced(ctx)
    /\ Paced(current)
    /\ phase = "running" => StepsTo(current, steps)
    /\ RunStabilises

LEMMA EvidencePaced ==
    ASSUME ctx \in Context, Paced(ctx), Evidence
    PROVE  /\ Paced(ctx') /\ current' = ctx'
           /\ phase' = "idle" /\ exhausted' = exhausted
<1>1. /\ ctx'.state = ctx.state
      /\ ctx'.traffic_percent_secondary = ctx.traffic_percent_secondary
      /\ current' = ctx' /\ phase' = "idle" /\ exhausted' = exhausted
  BY DEF Evidence, ProbePrimary, ProbeSecondary, ProveFence, AssignCommander,
         RebuildOriginal, ProbeFailbackReplication, ProbeBurnRate,
         DetectInconsistency, NewEvidence, Context
<1>2. QED
  BY <1>1 DEF Paced

LEMMA BudgetStep == IInv /\ IInv' /\ BudgetInv /\ [Next]_vars => BudgetInv'
<1> SUFFICES ASSUME IInv, IInv', BudgetInv, [Next]_vars PROVE BudgetInv'
  OBVIOUS
<1>1. /\ ctx \in Context /\ current \in Context /\ ctx' \in Context /\ current' \in Context
      /\ steps \in Nat /\ limit \in Nat
  BY PolicyAssumption DEF IInv, TypeOK, PolicyAssumption
<1>2. Enough \in Nat /\ 0 < Enough /\ Enough' = Enough
  BY HopsEnough DEF Enough
<1>3. CASE ReconcileOnce
  BY <1>1, <1>3, PacedStep DEF ReconcileOnce, BudgetInv, RunStabilises
<1>4. CASE RunUntilStable
  <2>1. StepsTo(current, 0)
    BY <1>1, StepsStart DEF BudgetInv
  <2>2. QED
    BY <1>4, <2>1 DEF RunUntilStable, BudgetInv, RunStabilises
<1>5. CASE LoopReturns
  BY <1>2, <1>5 DEF LoopReturns, BudgetInv, RunStabilises
<1>6. CASE LoopContinues
  <2>1. /\ Reconciled(current, current') /\ current' # current
        /\ steps' = steps + 1
        /\ StepsTo(current, steps) /\ Paced(current)
        /\ ctx' = ctx /\ exhausted' = exhausted
    BY <1>6 DEF LoopContinues, BudgetInv
  <2>2. Paced(current')
    BY <1>1, <2>1, PacedStep
  <2>3. StepsTo(current', steps + 1)
    BY <1>1, <2>1, StepsGoOn
  <2>4. QED
    BY <2>1, <2>2, <2>3 DEF BudgetInv, RunStabilises
<1>7. CASE LoopRaises
  <2>1. /\ ~Reconciled(current, current) /\ StepsTo(current, steps) /\ Paced(current)
        /\ limit <= steps + 1 /\ exhausted' = limit
        /\ ctx' = ctx /\ current' = ctx /\ phase' = "idle"
    BY <1>1, <1>7 DEF LoopRaises, BudgetInv
  <2>2. steps + 1 < Enough
    BY <1>1, <2>1, StepsLeft
  <2>3. exhausted' < Enough
    BY <1>1, <1>2, <2>1, <2>2
  <2>4. QED
    BY <2>1, <2>3 DEF BudgetInv, RunStabilises
<1>8. CASE Evidence
  BY <1>1, <1>8, EvidencePaced DEF BudgetInv, RunStabilises
<1>9. CASE (\E r \in Regions : Write(r)) \/ UNCHANGED vars
  BY <1>9 DEF Write, vars, BudgetInv, RunStabilises
<1>10. QED
  BY <1>3, <1>4, <1>5, <1>6, <1>7, <1>8, <1>9 DEF Next, Loop

\* run_until_stable returns, from every context its owner can hold, whenever it is
\* given 8 steps and those of the two traffic shifts, for every policy whose step is
\* larger than the rounding error of one operation, whatever errors accumulate.
THEOREM EnoughStepsStabilise == Spec => []RunStabilises
<1>1. Init => BudgetInv
  <2>1. Enough \in Nat /\ 0 < Enough
    BY HopsEnough DEF Enough
  <2>2. QED
    BY <2>1 DEF Init, BudgetInv, Paced, RunStabilises
<1>2. IInv /\ IInv' /\ BudgetInv /\ [Next]_vars => BudgetInv'
  BY BudgetStep
<1>3. BudgetInv => RunStabilises
  BY DEF BudgetInv
<1>4. QED
  BY <1>1, <1>2, <1>3, InductiveInvariant, PTL DEF Spec

=============================================================================
