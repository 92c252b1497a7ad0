------------------------- MODULE TransactionalOutbox ------------------------
(***************************************************************************)
(* labs/distributed-systems/02-transactional-outbox/outbox_lab.py: orders   *)
(* and an outbox in one SQLite database, a broker in another, and processes *)
(* that relay and consume.  Any number of relay and consume processes run   *)
(* side by side; each reads the rows it will work on first and then works   *)
(* through that list, committing to one database after the other, and may   *)
(* die (or be turned away by a locked database) between two commits.        *)
(*                                                                         *)
(* orders.order_id is a primary key and create_order makes one event per    *)
(* order, so an event is named by its order.                                *)
(***************************************************************************)
EXTENDS Integers, Sequences

CONSTANTS
    Orders,        \* order ids
    Relays,        \* relay processes
    Consumers,     \* consume processes
    MaxDuplicate,  \* bound: --duplicate-each
    MaxCrashes,    \* bound: processes that die
    None

ASSUME OutboxAssumption ==
    /\ MaxDuplicate \in Nat \ {0}
    /\ MaxCrashes \in Nat
    /\ None \notin Orders /\ None \notin Nat

VARIABLES
    orders,       \* rows of orders
    outbox,       \* rows of outbox that are still unpublished
    deliveries,   \* rows of deliveries in the broker, by delivery_id
    inbox,        \* event ids in consumer_inbox
    fulfillment,  \* order ids in fulfillment
    relaying,     \* what each relay has read, and the event it has to mark
    consuming,    \* what each consumer has read, and the delivery it has to mark
    crashes,      \* how many processes have died
    effects       \* history: transactions that fulfilled each order

vars == <<orders, outbox, deliveries, inbox, fulfillment, relaying, consuming,
          crashes, effects>>

appVars == <<orders, outbox, inbox, fulfillment, effects>>

NotRelaying == [rows |-> {}, marking |-> None]

NotConsuming == [rows |-> {}, marking |-> None]

Init ==
    /\ orders = {}
    /\ outbox = {}
    /\ deliveries = <<>>
    /\ inbox = {}
    /\ fulfillment = {}
    /\ relaying = [r \in Relays |-> NotRelaying]
    /\ consuming = [c \in Consumers |-> NotConsuming]
    /\ crashes = 0
    /\ effects = [o \in Orders |-> 0]

-----------------------------------------------------------------------------
(* create_order: one transaction for the order and its event. *)

CreateOrder(o) ==
    /\ o \notin orders
    /\ orders' = orders \cup {o}
    /\ outbox' = outbox \cup {o}
    /\ UNCHANGED <<deliveries, inbox, fulfillment, relaying, consuming, crashes, effects>>

-----------------------------------------------------------------------------
(* relay: pending_outbox, then publish and mark row by row. *)

\* LIMIT cuts the list anywhere; created_at has no finer order than a second.
PendingOutbox(r) ==
    /\ relaying[r] = NotRelaying
    /\ \E rows \in SUBSET outbox \ {{}} :
           relaying' = [relaying EXCEPT ![r].rows = rows]
    /\ UNCHANGED <<appVars, deliveries, consuming, crashes>>

Publish(r) ==
    /\ relaying[r].marking = None
    /\ \E e \in relaying[r].rows, copies \in 1 .. MaxDuplicate :
           /\ deliveries' = deliveries
                  \o [i \in 1 .. copies |-> [event |-> e, consumed |-> FALSE]]
           /\ relaying' = [relaying EXCEPT ![r].marking = e]
    /\ UNCHANGED <<appVars, consuming, crashes>>

\* Mutated form: the update has lost its condition on event_id.
MarkPublishedAll(r) ==
    LET e == relaying[r].marking IN
    /\ e # None
    /\ outbox' = {}
    /\ relaying' = [relaying EXCEPT ![r] = [rows |-> @.rows \ {e}, marking |-> None]]
    /\ UNCHANGED <<orders, inbox, fulfillment, effects, deliveries, consuming, crashes>>

MarkPublished(r) ==
    LET e == relaying[r].marking IN
    /\ e # None
    /\ outbox' = outbox \ {e}
    /\ relaying' = [relaying EXCEPT ![r] = [rows |-> @.rows \ {e}, marking |-> None]]
    /\ UNCHANGED <<orders, inbox, fulfillment, effects, deliveries, consuming, crashes>>

\* --crash-after-publish, or any other end of the process.
RelayCrash(r) ==
    /\ relaying[r] # NotRelaying
    /\ crashes < MaxCrashes
    /\ crashes' = crashes + 1
    /\ relaying' = [relaying EXCEPT ![r] = NotRelaying]
    /\ UNCHANGED <<appVars, deliveries, consuming>>

-----------------------------------------------------------------------------
(* consume: unconsumed_deliveries, then process_delivery and mark row by row. *)

Unconsumed == {i \in DOMAIN deliveries : ~deliveries[i].consumed}

\* Mutated form: the rows are acknowledged as they are read.
UnconsumedDeliveriesAcked(c) ==
    /\ consuming[c] = NotConsuming
    /\ Unconsumed # {}
    /\ consuming' = [consuming EXCEPT ![c].rows = Unconsumed]
    /\ deliveries' = [i \in DOMAIN deliveries |-> [deliveries[i] EXCEPT !.consumed = TRUE]]
    /\ UNCHANGED <<appVars, relaying, crashes>>

\* The rows with the lowest delivery ids, up to LIMIT.
UnconsumedDeliveries(c) ==
    /\ consuming[c] = NotConsuming
    /\ \E last \in Unconsumed :
           consuming' = [consuming EXCEPT ![c].rows = {i \in Unconsumed : i <= last}]
    /\ UNCHANGED <<appVars, deliveries, relaying, crashes>>

First(rows) == CHOOSE i \in rows : \A j \in rows : i <= j

\* Mutated form: a second insert into the inbox is ignored, not an error.
ProcessDeliveryUnguarded(c) ==
    LET i == First(consuming[c].rows)
        o == deliveries[i].event
    IN  /\ consuming[c].rows # {} /\ consuming[c].marking = None
        /\ inbox' = inbox \cup {o}
        /\ fulfillment' = fulfillment \cup {o}
        /\ effects' = [effects EXCEPT ![o] = @ + 1]
        /\ consuming' = [consuming EXCEPT ![c].marking = i]
        /\ UNCHANGED <<orders, outbox, deliveries, relaying, crashes>>

\* The inbox row and the fulfilment commit together; a second insert of the same
\* event is an IntegrityError and rolls both back.
ProcessDelivery(c) ==
    LET i == First(consuming[c].rows)
        o == deliveries[i].event
    IN  /\ consuming[c].rows # {} /\ consuming[c].marking = None
        /\ IF o \in inbox THEN UNCHANGED <<inbox, fulfillment, effects>>
           ELSE /\ inbox' = inbox \cup {o}
                /\ fulfillment' = fulfillment \cup {o}
                /\ effects' = [effects EXCEPT ![o] = @ + 1]
        /\ consuming' = [consuming EXCEPT ![c].marking = i]
        /\ UNCHANGED <<orders, outbox, deliveries, relaying, crashes>>

\* Mutated form: the first row acknowledges the whole list.
MarkConsumedBatch(c) ==
    LET i == consuming[c].marking IN
    /\ i # None
    /\ deliveries' = [d \in DOMAIN deliveries |->
            [deliveries[d] EXCEPT !.consumed = @ \/ d \in consuming[c].rows]]
    /\ consuming' = [consuming EXCEPT ![c] = [rows |-> @.rows \ {i}, marking |-> None]]
    /\ UNCHANGED <<appVars, relaying, crashes>>

MarkConsumed(c) ==
    LET i == consuming[c].marking IN
    /\ i # None
    /\ deliveries' = [deliveries EXCEPT ![i].consumed = TRUE]
    /\ consuming' = [consuming EXCEPT ![c] = [rows |-> @.rows \ {i}, marking |-> None]]
    /\ UNCHANGED <<appVars, relaying, crashes>>

ConsumerCrash(c) ==
    /\ consuming[c] # NotConsuming
    /\ crashes < MaxCrashes
    /\ crashes' = crashes + 1
    /\ consuming' = [consuming EXCEPT ![c] = NotConsuming]
    /\ UNCHANGED <<appVars, deliveries, relaying>>

-----------------------------------------------------------------------------
(* reset removes both databases; the operator runs it when nothing else runs. *)

\* Mutated form: the broker's file is left where it is.
ResetAppOnly ==
    /\ \A r \in Relays : relaying[r] = NotRelaying
    /\ \A c \in Consumers : consuming[c] = NotConsuming
    /\ orders' = {} /\ outbox' = {}
    /\ inbox' = {} /\ fulfillment' = {}
    /\ effects' = [o \in Orders |-> 0]
    /\ UNCHANGED <<deliveries, relaying, consuming, crashes>>

Reset ==
    /\ \A r \in Relays : relaying[r] = NotRelaying
    /\ \A c \in Consumers : consuming[c] = NotConsuming
    /\ orders' = {} /\ outbox' = {} /\ deliveries' = <<>>
    /\ inbox' = {} /\ fulfillment' = {}
    /\ effects' = [o \in Orders |-> 0]
    /\ UNCHANGED <<relaying, consuming, crashes>>

Relay(r) == PendingOutbox(r) \/ Publish(r) \/ MarkPublished(r)

Consume(c) == UnconsumedDeliveries(c) \/ ProcessDelivery(c) \/ MarkConsumed(c)

Next ==
    \/ \E o \in Orders : CreateOrder(o)
    \/ \E r \in Relays : Relay(r) \/ RelayCrash(r)
    \/ \E c \in Consumers : Consume(c) \/ ConsumerCrash(c)
    \/ Reset

\* Relays and consumers are started again and again, and work while they live.
Fairness ==
    /\ \A r \in Relays : WF_vars(Relay(r))
    /\ \A c \in Consumers : WF_vars(Consume(c))

Spec == Init /\ [][Next]_vars

FairSpec == Spec /\ Fairness

-----------------------------------------------------------------------------
(* Correctness. *)

TypeOK ==
    /\ orders \subseteq Orders
    /\ outbox \subseteq orders
    /\ deliveries \in Seq([event : Orders, consumed : BOOLEAN])
    /\ inbox \subseteq orders
    /\ fulfillment \subseteq orders
    /\ relaying \in [Relays -> [rows : SUBSET Orders, marking : Orders \cup {None}]]
    /\ consuming \in [Consumers -> [rows : SUBSET (DOMAIN deliveries),
                                    marking : DOMAIN deliveries \cup {None}]]
    /\ crashes \in 0 .. MaxCrashes
    /\ effects \in [Orders -> Nat]

\* No order loses its event at any crash point: until it is fulfilled, the event
\* is still pending in the outbox or waits in an unconsumed delivery.
EventNeverLost ==
    \A o \in orders \ fulfillment :
        o \in outbox \/ \E i \in Unconsumed : deliveries[i].event = o

\* The inbox and the fulfilment table agree, and a delivery that is marked
\* consumed has had its effect.
ConsumedMeansFulfilled ==
    /\ inbox = fulfillment
    /\ \A i \in DOMAIN deliveries :
          deliveries[i].consumed => deliveries[i].event \in fulfillment

Promise == INSTANCE OrderFulfilment WITH created <- orders

\* README, invariant: the processes and databases together implement exactly one
\* fulfilment effect per order.
ExactlyOneEffect == Promise!Spec

\* Every order that is not thrown away by a reset is fulfilled in the end.
EveryOrderFulfilled ==
    \A o \in Orders : (o \in orders) ~> (o \in fulfillment \/ o \notin orders)

=============================================================================
