-------------------------- MODULE AdmissionControl --------------------------
(***************************************************************************)
(* AdmissionController of                                                  *)
(* labs/reliability/03-overload-blast-radius/overload_lab.py: one call of   *)
(* admit, one action per request, in the order in which the loop takes them *)
(* (critical first), then the report that the caller gets.  A request is     *)
(* known by its position in the batch; the list "ordered" is what is yet    *)
(* undecided, the soonest of which is next.                                *)
(***************************************************************************)
EXTENDS Integers, FiniteSetsExt, SequencesExt, Sums

CONSTANTS
    Requests,        \* the requests that a batch is made of
    MaxRequests,     \* bound: the length of a batch
    Controllers      \* the controllers: capacity, reserve and tenant limit

\* Request and AdmissionController reject anything else.
AdmissionRequest ==
    [request_id : STRING, tenant : STRING,
     priority : {"critical", "optional"}, work_units : Nat \ {0}]

ASSUME AdmissionAssumption ==
    /\ Requests \subseteq AdmissionRequest
    /\ Controllers \subseteq [capacity_units : Nat \ {0}, critical_reserve_units : Nat,
                              per_tenant_units : Nat \ {0}]
    /\ \A c \in Controllers : c.critical_reserve_units <= c.capacity_units
    /\ MaxRequests \in Nat

VARIABLES
    controller,        \* the controller called, or <<>> before the call
    batch,             \* the requests of the call
    consumed,          \* the counters of the loop
    criticalConsumed,
    tenantConsumed,
    decisions,         \* the reason given at each position decided so far
    report             \* the AdmissionReport, or <<>> before admit returns

admissionVars == <<controller, batch, consumed, criticalConsumed, tenantConsumed,
                   decisions, report>>

Tenants == {r.tenant : r \in Requests}

Units == [i \in DOMAIN batch |-> batch[i].work_units]

\* The work of the requests at some positions of the batch.
Work(S) == Total(Units, S)

\* The key that admit sorts by: critical before optional, then arrival.
Sooner(i, j) ==
    IF batch[i].priority = batch[j].priority THEN i < j
    ELSE batch[i].priority = "critical"

Undecided == DOMAIN batch \ DOMAIN decisions

AdmissionInit ==
    /\ controller = <<>> /\ batch = <<>>
    /\ consumed = 0 /\ criticalConsumed = 0
    /\ tenantConsumed = [t \in Tenants |-> 0]
    /\ decisions = <<>> /\ report = <<>>

\* admit is called.
Admit ==
    /\ controller = <<>>
    /\ controller' \in Controllers
    /\ batch' \in BoundedSeq(Requests, MaxRequests)
    /\ UNCHANGED <<consumed, criticalConsumed, tenantConsumed, decisions, report>>

\* Mutated form: critical work already admitted does not count against the reserve.
OptionalCeilingFixed ==
    controller.capacity_units - controller.critical_reserve_units

\* Capacity less the part of the reserve that critical work has not used.
OptionalCeiling ==
    controller.capacity_units
        - Max({0, controller.critical_reserve_units - criticalConsumed})

\* The checks of the loop, in its order.
Reason(r) ==
    IF tenantConsumed[r.tenant] + r.work_units > controller.per_tenant_units
    THEN "tenant_limit"
    ELSE IF r.work_units > controller.capacity_units - consumed
    THEN "capacity_exhausted"
    ELSE IF r.priority = "optional" /\ consumed + r.work_units > OptionalCeiling
    THEN "critical_reserve"
    ELSE "admitted"

\* One iteration of the loop.
DecideRequest ==
    \E i \in Undecided :
        /\ \A j \in Undecided \ {i} : Sooner(i, j)
        /\ LET r == batch[i]
               used == IF Reason(r) = "admitted" THEN r.work_units ELSE 0
           IN  /\ decisions' = [j \in DOMAIN decisions \cup {i} |->
                        IF j = i THEN Reason(r) ELSE decisions[j]]
               /\ consumed' = consumed + used
               /\ criticalConsumed' =
                    IF r.priority = "critical" THEN criticalConsumed + used
                    ELSE criticalConsumed
               /\ tenantConsumed' = [tenantConsumed EXCEPT ![r.tenant] = @ + used]
        /\ UNCHANGED <<controller, batch, report>>

\* by_id: of several decisions on one id, the last one taken.
ById(id) ==
    LET named == {j \in DOMAIN decisions : batch[j].request_id = id}
    IN  decisions[CHOOSE i \in named : \A j \in named \ {i} : Sooner(j, i)]

\* The report is made from by_id, request by request.
Report ==
    /\ controller # <<>> /\ Undecided = {} /\ report = <<>>
    /\ LET verdict == [i \in DOMAIN batch |-> ById(batch[i].request_id)]
           Count(priority, admitted) ==
               Cardinality({i \in DOMAIN batch :
                                /\ batch[i].priority = priority
                                /\ (verdict[i] = "admitted") = admitted})
       IN  report' = [decisions |-> verdict,
                      admitted_critical |-> Count("critical", TRUE),
                      admitted_optional |-> Count("optional", TRUE),
                      rejected_critical |-> Count("critical", FALSE),
                      rejected_optional |-> Count("optional", FALSE),
                      consumed_units |-> consumed]
    /\ UNCHANGED <<controller, batch, consumed, criticalConsumed, tenantConsumed,
                   decisions>>

AdmissionNext ==
    \/ Admit
    \/ DecideRequest
    \/ Report

-----------------------------------------------------------------------------
Admitted == {i \in DOMAIN decisions : decisions[i] = "admitted"}

Critical == {i \in DOMAIN batch : batch[i].priority = "critical"}

\* The counters agree with the requests admitted so far.
AdmissionTypeOK ==
    /\ controller \in Controllers \cup {<<>>}
    /\ batch \in Seq(Requests) /\ Len(batch) <= MaxRequests
    /\ DOMAIN decisions \subseteq DOMAIN batch
    /\ consumed = Work(Admitted)
    /\ criticalConsumed = Work(Admitted \cap Critical)
    /\ tenantConsumed =
            [t \in Tenants |-> Work({i \in Admitted : batch[i].tenant = t})]

\* The admitted requests that are more urgent than the one at i: critical ones if it
\* is not, and earlier ones of its priority.
Ahead(i) ==
    {j \in Admitted : \/ j \in Critical /\ i \notin Critical
                      \/ (j \in Critical <=> i \in Critical) /\ j < i}

\* Whether the request at i fits behind the admitted ones ahead of it, from the sums
\* alone.
Fits(i) ==
    LET with == Ahead(i) \cup {i}
        sameTenant == {j \in with : batch[j].tenant = batch[i].tenant}
        spare == controller.critical_reserve_units - Work(Ahead(i) \cap Critical)
    IN  /\ Work(sameTenant) <= controller.per_tenant_units
        /\ Work(with) <= controller.capacity_units
        /\ i \notin Critical /\ spare > 0 =>
                Work(with) <= controller.capacity_units - spare

DistinctIds == IsInjective([i \in DOMAIN batch |-> batch[i].request_id])

\* The class comment: critical requests first, optional ones never in the unused
\* reserve, tenants bounded.  A request is admitted exactly when it fits behind the
\* admitted requests more urgent than itself, whatever was refused before it; so
\* nothing is shed for the sake of less urgent work.  And the report adds up, when
\* ids are distinct: by_id merges requests that share one.
AdmissionByUrgency ==
    report # <<>> =>
        /\ \A i \in DOMAIN batch : i \in Admitted <=> Fits(i)
        /\ DistinctIds =>
            /\ \A i \in DOMAIN batch :
                    report.decisions[i] = "admitted" <=> i \in Admitted
            /\ report.consumed_units = Work(Admitted)
            /\ report.admitted_critical = Cardinality(Admitted \cap Critical)
            /\ report.rejected_optional = Cardinality(DOMAIN batch \ (Admitted \cup Critical))

=============================================================================
