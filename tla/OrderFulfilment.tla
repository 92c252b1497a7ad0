--------------------------- MODULE OrderFulfilment --------------------------
(***************************************************************************)
(* What the transactional outbox promises (its README: "Creating an order   *)
(* must produce exactly one logical fulfillment effect"), with no relay, no *)
(* broker, no duplicate and no crash in sight.                              *)
(***************************************************************************)
EXTENDS Naturals

CONSTANT Orders

VARIABLES
    created,  \* orders that have been committed
    effects   \* how often each order has been fulfilled

Create(o) ==
    /\ o \notin created
    /\ created' = created \cup {o}
    /\ UNCHANGED effects

\* Fulfilment happens once, and only for an order that exists.
Fulfil(o) ==
    /\ o \in created
    /\ effects[o] = 0
    /\ effects' = [effects EXCEPT ![o] = 1]
    /\ UNCHANGED created

\* The operator throws all data away.
Reset ==
    /\ created' = {}
    /\ effects' = [o \in Orders |-> 0]

Init ==
    /\ created = {}
    /\ effects = [o \in Orders |-> 0]

Next == Reset \/ \E o \in Orders : Create(o) \/ Fulfil(o)

Spec == Init /\ [][Next]_<<created, effects>>

=============================================================================
