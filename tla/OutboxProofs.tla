---------------------------- MODULE OutboxProofs ----------------------------
(***************************************************************************)
(* Machine-checked proofs about TransactionalOutbox, for any orders, relays *)
(* and consumers, any number of copies and of crashes: no event is lost, and *)
(* the whole implements OrderFulfilment.                                     *)
(***************************************************************************)
EXTENDS TransactionalOutbox, TLAPS, SequenceTheorems, WellFoundedInduction

\* The effect of the order is there, or a delivery is that will have it.
Covered(o) == o \in fulfillment \/ \E i \in Unconsumed : deliveries[i].event = o

\* A relay works on orders that exist, and marks an event only when it is covered.
RelaysCovered ==
    \A r \in Relays :
        /\ relaying[r].rows \subseteq orders
        /\ relaying[r].marking # None => relaying[r].marking \in orders /\ Covered(relaying[r].marking)

\* Every delivery is of an order that exists.
DeliveriesOrdered == \A i \in DOMAIN deliveries : deliveries[i].event \in orders

\* A consumer marks a delivery only when its effect is there.
ConsumersCovered ==
    \A c \in Consumers : consuming[c].marking # None =>
        deliveries[consuming[c].marking].event \in fulfillment

\* The effects of an order are counted by its row in fulfillment.
EffectsCounted == \A o \in Orders : effects[o] = IF o \in fulfillment THEN 1 ELSE 0

OutboxInv ==
    /\ TypeOK
    /\ EventNeverLost
    /\ ConsumedMeansFulfilled
    /\ RelaysCovered
    /\ DeliveriesOrdered
    /\ ConsumersCovered
    /\ EffectsCounted

LEMMA OutboxInit == Init => OutboxInv
<1> SUFFICES ASSUME Init PROVE OutboxInv
  OBVIOUS
<1>1. TypeOK
  BY OutboxAssumption
  DEF Init, TypeOK, NotRelaying, NotConsuming, OutboxAssumption
<1>2. EventNeverLost /\ ConsumedMeansFulfilled /\ DeliveriesOrdered /\ EffectsCounted
  BY DEF Init, EventNeverLost, ConsumedMeansFulfilled, DeliveriesOrdered, EffectsCounted
<1>3. RelaysCovered /\ ConsumersCovered
  BY DEF Init, RelaysCovered, ConsumersCovered, NotRelaying, NotConsuming
<1>4. QED
  BY <1>1, <1>2, <1>3 DEF OutboxInv

\* The rows that a consumer works through have a first.
LEMMA FirstIsRow ==
    ASSUME NEW S \in SUBSET Nat, S # {}
    PROVE  First(S) \in S
<1>1. PICK x \in S : \A y \in S : ~(<<y, x>> \in OpToRel(<, Nat))
  BY WFMin, NatLessThanWellFounded
<1>2. \A y \in S : x <= y
  <2> SUFFICES ASSUME NEW y \in S, y < x PROVE FALSE
    OBVIOUS
  <2>1. <<y, x>> \in OpToRel(<, Nat)
    BY DEF OpToRel
  <2>2. QED
    BY <1>1, <2>1
<1>3. QED
  BY <1>2 DEF First

-----------------------------------------------------------------------------
(* Orders and relays. *)

LEMMA CreateOrderInv ==
    ASSUME OutboxInv, NEW o \in Orders, CreateOrder(o)
    PROVE  OutboxInv'
<1>1. /\ orders' = orders \cup {o} /\ outbox' = outbox \cup {o}
      /\ UNCHANGED <<deliveries, inbox, fulfillment, relaying, consuming, crashes, effects>>
  BY DEF CreateOrder
<1>2. Unconsumed' = Unconsumed
  BY <1>1 DEF Unconsumed
<1>3. TypeOK'
  BY <1>1 DEF OutboxInv, TypeOK
<1>4. EventNeverLost' /\ ConsumedMeansFulfilled' /\ EffectsCounted'
  BY <1>1, <1>2 DEF OutboxInv, EventNeverLost, ConsumedMeansFulfilled, EffectsCounted
<1>5. DeliveriesOrdered' /\ ConsumersCovered'
  BY <1>1 DEF OutboxInv, DeliveriesOrdered, ConsumersCovered
<1>6. RelaysCovered'
  BY <1>1, <1>2 DEF OutboxInv, RelaysCovered, Covered
<1>7. QED
  BY <1>3, <1>4, <1>5, <1>6 DEF OutboxInv

\* A relay that reads, forgets or goes on in its list.
LEMMA RelayingInv ==
    ASSUME OutboxInv, NEW r \in Relays, NEW now,
           relaying' = [relaying EXCEPT ![r] = now],
           now \in [rows : SUBSET orders, marking : {None}],
           crashes' \in 0 .. MaxCrashes,
           UNCHANGED <<appVars, deliveries, consuming>>
    PROVE  OutboxInv'
<1>1. UNCHANGED <<orders, outbox, inbox, fulfillment, effects, deliveries, consuming>>
      /\ Unconsumed' = Unconsumed
  BY DEF appVars, Unconsumed
<1>2. now \in [rows : SUBSET Orders, marking : Orders \cup {None}]
  BY DEF OutboxInv, TypeOK
<1>3. TypeOK'
  BY <1>1, <1>2 DEF OutboxInv, TypeOK
<1>4. RelaysCovered'
  BY <1>1 DEF OutboxInv, TypeOK, RelaysCovered, Covered
<1>5. QED
  BY <1>1, <1>3, <1>4 DEF OutboxInv, EventNeverLost, ConsumedMeansFulfilled,
     DeliveriesOrdered, ConsumersCovered, EffectsCounted

LEMMA SequenceOfLength ==
    ASSUME NEW D, NEW n \in Nat, NEW s \in [1 .. n -> D]
    PROVE  s \in Seq(D) /\ Len(s) = n
<1>1. s \in Seq(D)
  BY SeqDef
<1>2. QED
  BY <1>1, LenProperties

LEMMA DeliveriesAppended ==
    ASSUME NEW D, NEW s \in Seq(D), NEW t \in Seq(D)
    PROVE  /\ s \o t \in Seq(D)
           /\ Len(s) \in Nat /\ DOMAIN s = 1 .. Len(s)
           /\ DOMAIN (s \o t) = 1 .. (Len(s) + Len(t))
           /\ \A i \in DOMAIN s : (s \o t)[i] = s[i]
           /\ \A i \in DOMAIN (s \o t) : i \notin DOMAIN s =>
                 i - Len(s) \in 1 .. Len(t) /\ (s \o t)[i] = t[i - Len(s)]
<1>1. /\ Len(s) \in Nat /\ Len(t) \in Nat /\ DOMAIN s = 1 .. Len(s)
      /\ s \o t \in Seq(D)
      /\ Len(s \o t) = Len(s) + Len(t)
      /\ \A i \in 1 .. (Len(s) + Len(t)) : (s \o t)[i] =
            IF i <= Len(s) THEN s[i] ELSE t[i - Len(s)]
  BY ConcatProperties, LenProperties
<1>2. DOMAIN (s \o t) = 1 .. (Len(s) + Len(t))
  BY <1>1, LenProperties
<1>3. QED
  BY <1>1, <1>2

LEMMA PublishInv ==
    ASSUME OutboxInv, NEW r \in Relays, Publish(r)
    PROVE  OutboxInv'
<1>1. PICK e \in relaying[r].rows, copies \in 1 .. MaxDuplicate :
        /\ deliveries' = deliveries \o [i \in 1 .. copies |-> [event |-> e, consumed |-> FALSE]]
        /\ relaying' = [relaying EXCEPT ![r].marking = e]
  BY DEF Publish
<1> DEFINE new == [i \in 1 .. copies |-> [event |-> e, consumed |-> FALSE]]
<1>2. UNCHANGED <<orders, outbox, inbox, fulfillment, effects, consuming, crashes>>
  BY DEF Publish, appVars
<1>3. e \in orders /\ e \in Orders
  BY DEF OutboxInv, RelaysCovered, TypeOK
<1>4. /\ new \in Seq([event : Orders, consumed : BOOLEAN])
      /\ Len(new) = copies /\ copies \in Nat \ {0}
      /\ \A i \in 1 .. copies : new[i] = [event |-> e, consumed |-> FALSE]
  <2> DEFINE D == [event : Orders, consumed : BOOLEAN]
  <2>1. copies \in Nat \ {0}
    BY OutboxAssumption DEF OutboxAssumption
  <2>2. new \in [1 .. copies -> D]
    BY <1>3
  <2>3. new \in Seq(D) /\ Len(new) = copies
    <3> HIDE DEF new, D
    <3>1. QED
      BY <2>1, <2>2, SequenceOfLength
  <2>4. QED
    BY <2>1, <2>3
<1>5. deliveries' = deliveries \o new
  BY <1>1
<1> HIDE DEF new
<1>6. /\ deliveries' \in Seq([event : Orders, consumed : BOOLEAN])
      /\ Len(deliveries) \in Nat /\ DOMAIN deliveries = 1 .. Len(deliveries)
      /\ DOMAIN deliveries' = 1 .. (Len(deliveries) + copies)
      /\ \A i \in DOMAIN deliveries : deliveries'[i] = deliveries[i]
      /\ \A i \in DOMAIN deliveries' : i \notin DOMAIN deliveries =>
            deliveries'[i] = [event |-> e, consumed |-> FALSE]
  <2> DEFINE D == [event : Orders, consumed : BOOLEAN]
  <2>1. deliveries \in Seq(D) /\ new \in Seq(D)
    BY <1>4 DEF OutboxInv, TypeOK
  <2> HIDE DEF D
  <2>2. /\ deliveries \o new \in Seq(D)
        /\ Len(deliveries) \in Nat /\ DOMAIN deliveries = 1 .. Len(deliveries)
        /\ DOMAIN (deliveries \o new) = 1 .. (Len(deliveries) + Len(new))
        /\ \A i \in DOMAIN deliveries : (deliveries \o new)[i] = deliveries[i]
        /\ \A i \in DOMAIN (deliveries \o new) : i \notin DOMAIN deliveries =>
              /\ i - Len(deliveries) \in 1 .. Len(new)
              /\ (deliveries \o new)[i] = new[i - Len(deliveries)]
    BY <2>1, DeliveriesAppended
  <2>3. \A i \in 1 .. Len(new) : new[i] = [event |-> e, consumed |-> FALSE]
    BY <1>4
  <2>4. \A i \in DOMAIN (deliveries \o new) : i \notin DOMAIN deliveries =>
            (deliveries \o new)[i] = [event |-> e, consumed |-> FALSE]
    BY <2>2, <2>3
  <2>5. QED
    BY <1>4, <1>5, <2>2, <2>4 DEF D
<1>7. DOMAIN deliveries \subseteq DOMAIN deliveries' /\ Unconsumed \subseteq Unconsumed'
  BY <1>4, <1>6 DEF Unconsumed
<1>8. Len(deliveries) + 1 \in Unconsumed' /\ deliveries'[Len(deliveries) + 1].event = e
  <2>1. Len(deliveries) + 1 \in DOMAIN deliveries' \ DOMAIN deliveries
    BY <1>4, <1>6
  <2>2. deliveries'[Len(deliveries) + 1] = [event |-> e, consumed |-> FALSE]
    BY <1>6, <2>1
  <2>3. QED
    BY <2>1, <2>2 DEF Unconsumed
<1>9. \A o : Covered(o) => Covered(o)'
  BY <1>2, <1>6, <1>7 DEF Covered, Unconsumed
<1>10. TypeOK'
  <2>1. relaying' \in [Relays -> [rows : SUBSET Orders, marking : Orders \cup {None}]]
    BY <1>1, <1>3 DEF OutboxInv, TypeOK
  <2>2. consuming' \in [Consumers -> [rows : SUBSET (DOMAIN deliveries'),
                                      marking : DOMAIN deliveries' \cup {None}]]
    BY <1>2, <1>7 DEF OutboxInv, TypeOK
  <2>3. QED
    BY <1>2, <1>6, <2>1, <2>2 DEF OutboxInv, TypeOK
<1>11. EventNeverLost'
  BY <1>2, <1>6, <1>7 DEF OutboxInv, EventNeverLost, Unconsumed
<1>12. ConsumedMeansFulfilled' /\ DeliveriesOrdered'
  BY <1>2, <1>3, <1>6 DEF OutboxInv, ConsumedMeansFulfilled, DeliveriesOrdered
<1>13. RelaysCovered'
  <2>1. Covered(e)'
    BY <1>8 DEF Covered
  <2>2. QED
    BY <1>1, <1>2, <1>3, <1>9, <2>1 DEF OutboxInv, TypeOK, RelaysCovered
<1>14. ConsumersCovered' /\ EffectsCounted'
  BY <1>2, <1>6 DEF OutboxInv, TypeOK, ConsumersCovered, EffectsCounted
<1>15. QED
  BY <1>10, <1>11, <1>12, <1>13, <1>14 DEF OutboxInv

LEMMA MarkPublishedInv ==
    ASSUME OutboxInv, NEW r \in Relays, MarkPublished(r)
    PROVE  OutboxInv'
<1> DEFINE e == relaying[r].marking
<1>1. /\ e # None
      /\ outbox' = outbox \ {e}
      /\ relaying' = [relaying EXCEPT ![r] = [rows |-> @.rows \ {e}, marking |-> None]]
      /\ UNCHANGED <<orders, inbox, fulfillment, effects, deliveries, consuming, crashes>>
  BY DEF MarkPublished
<1>2. Covered(e) /\ Unconsumed' = Unconsumed
  BY <1>1 DEF OutboxInv, RelaysCovered, Unconsumed
<1>3. TypeOK'
  BY <1>1 DEF OutboxInv, TypeOK
<1>4. EventNeverLost'
  BY <1>1, <1>2 DEF OutboxInv, EventNeverLost, Covered
<1>5. RelaysCovered'
  BY <1>1, <1>2 DEF OutboxInv, TypeOK, RelaysCovered, Covered
<1>6. QED
  BY <1>1, <1>3, <1>4, <1>5 DEF OutboxInv, ConsumedMeansFulfilled,
     DeliveriesOrdered, ConsumersCovered, EffectsCounted

LEMMA RelayInv ==
    ASSUME OutboxInv, NEW r \in Relays, Relay(r) \/ RelayCrash(r)
    PROVE  OutboxInv'
<1>1. CASE PendingOutbox(r)
  <2>1. PICK rows \in SUBSET outbox : relaying' = [relaying EXCEPT ![r].rows = rows]
    BY <1>1 DEF PendingOutbox
  <2>2. relaying[r] = NotRelaying /\ relaying \in [Relays -> [rows : SUBSET Orders,
                                                             marking : Orders \cup {None}]]
    BY <1>1 DEF PendingOutbox, OutboxInv, TypeOK
  <2>3. relaying' = [relaying EXCEPT ![r] = [rows |-> rows, marking |-> None]]
    <3>1. [relaying[r] EXCEPT !.rows = rows] = [rows |-> rows, marking |-> None]
      BY <2>2 DEF NotRelaying
    <3>2. relaying' = [relaying EXCEPT ![r] = [relaying[r] EXCEPT !.rows = rows]]
      BY <2>1, <2>2
    <3>3. QED
      BY <3>1, <3>2
  <2>4. [rows |-> rows, marking |-> None] \in [rows : SUBSET orders, marking : {None}]
    BY DEF OutboxInv, TypeOK
  <2>5. crashes' \in 0 .. MaxCrashes /\ UNCHANGED <<appVars, deliveries, consuming>>
    BY <1>1 DEF PendingOutbox, OutboxInv, TypeOK
  <2>6. QED
    BY <2>3, <2>4, <2>5, RelayingInv
<1>2. CASE RelayCrash(r)
  <2>1. NotRelaying \in [rows : SUBSET orders, marking : {None}]
    BY DEF NotRelaying
  <2>2. crashes' \in 0 .. MaxCrashes
    BY <1>2, OutboxAssumption DEF RelayCrash, OutboxInv, TypeOK, OutboxAssumption
  <2>3. QED
    BY <1>2, <2>1, <2>2, RelayingInv DEF RelayCrash
<1>3. QED
  BY <1>1, <1>2, PublishInv, MarkPublishedInv DEF Relay

-----------------------------------------------------------------------------
(* Consumers. *)

\* A consumer that reads, forgets or goes on in its list.
LEMMA ConsumingInv ==
    ASSUME OutboxInv, NEW c \in Consumers, NEW now,
           consuming' = [consuming EXCEPT ![c] = now],
           now \in [rows : SUBSET (DOMAIN deliveries), marking : {None}],
           crashes' \in 0 .. MaxCrashes,
           UNCHANGED <<appVars, deliveries, relaying>>
    PROVE  OutboxInv'
<1>1. UNCHANGED <<orders, outbox, inbox, fulfillment, effects, deliveries, relaying>>
      /\ Unconsumed' = Unconsumed
  BY DEF appVars, Unconsumed
<1>2. now \in [rows : SUBSET (DOMAIN deliveries), marking : DOMAIN deliveries \cup {None}]
  OBVIOUS
<1>3. TypeOK'
  BY <1>1, <1>2 DEF OutboxInv, TypeOK
<1>4. ConsumersCovered'
  BY <1>1 DEF OutboxInv, TypeOK, ConsumersCovered
<1>5. QED
  BY <1>1, <1>3, <1>4 DEF OutboxInv, EventNeverLost, ConsumedMeansFulfilled,
     RelaysCovered, Covered, DeliveriesOrdered, EffectsCounted

\* The delivery that a consumer processes, and the order it is about.
LEMMA ProcessedDelivery ==
    ASSUME OutboxInv, NEW c \in Consumers, consuming[c].rows # {}
    PROVE  /\ First(consuming[c].rows) \in DOMAIN deliveries
           /\ deliveries[First(consuming[c].rows)].event \in orders
           /\ deliveries[First(consuming[c].rows)].event \in Orders
<1>1. consuming[c].rows \subseteq DOMAIN deliveries /\ DOMAIN deliveries \subseteq Nat
  BY DEF OutboxInv, TypeOK
<1>2. First(consuming[c].rows) \in DOMAIN deliveries
  BY <1>1, FirstIsRow
<1>3. QED
  BY <1>2 DEF OutboxInv, DeliveriesOrdered, TypeOK

LEMMA ProcessDeliveryInv ==
    ASSUME OutboxInv, NEW c \in Consumers, ProcessDelivery(c)
    PROVE  OutboxInv'
<1> DEFINE i == First(consuming[c].rows)
           o == deliveries[i].event
<1>1. i \in DOMAIN deliveries /\ o \in orders /\ o \in Orders
  BY ProcessedDelivery DEF ProcessDelivery
<1>2. /\ IF o \in inbox THEN UNCHANGED <<inbox, fulfillment, effects>>
         ELSE /\ inbox' = inbox \cup {o}
              /\ fulfillment' = fulfillment \cup {o}
              /\ effects' = [effects EXCEPT ![o] = @ + 1]
      /\ consuming' = [consuming EXCEPT ![c].marking = i]
      /\ UNCHANGED <<orders, outbox, deliveries, relaying, crashes>>
  BY DEF ProcessDelivery
<1> HIDE DEF i, o
<1>3. inbox = fulfillment
  BY DEF OutboxInv, ConsumedMeansFulfilled
<1>4. fulfillment' = fulfillment \cup {o} /\ inbox' = fulfillment' /\ Unconsumed' = Unconsumed
  BY <1>2, <1>3 DEF Unconsumed
<1>5. EffectsCounted' /\ effects' \in [Orders -> Nat]
  BY <1>1, <1>2, <1>3, <1>4 DEF OutboxInv, TypeOK, EffectsCounted
<1>6. TypeOK'
  <2>1. consuming' \in [Consumers -> [rows : SUBSET (DOMAIN deliveries),
                                      marking : DOMAIN deliveries \cup {None}]]
    BY <1>1, <1>2 DEF OutboxInv, TypeOK
  <2>2. QED
    BY <1>1, <1>2, <1>4, <1>5, <2>1 DEF OutboxInv, TypeOK
<1>7. EventNeverLost' /\ ConsumedMeansFulfilled' /\ DeliveriesOrdered'
  BY <1>2, <1>4 DEF OutboxInv, EventNeverLost, ConsumedMeansFulfilled, DeliveriesOrdered
<1>8. RelaysCovered'
  BY <1>2, <1>4 DEF OutboxInv, RelaysCovered, Covered
<1>9. ConsumersCovered'
  BY <1>2, <1>4 DEF OutboxInv, TypeOK, ConsumersCovered, o
<1>10. QED
  BY <1>5, <1>6, <1>7, <1>8, <1>9 DEF OutboxInv

\* Marking a delivery leaves its event alone.
LEMMA ConsumedMarked ==
    ASSUME NEW d \in [event : Orders, consumed : BOOLEAN]
    PROVE  /\ [d EXCEPT !.consumed = TRUE] \in [event : Orders, consumed : BOOLEAN]
           /\ [d EXCEPT !.consumed = TRUE].event = d.event
           /\ [d EXCEPT !.consumed = TRUE].consumed = TRUE
  OBVIOUS

LEMMA MarkConsumedInv ==
    ASSUME OutboxInv, NEW c \in Consumers, MarkConsumed(c)
    PROVE  OutboxInv'
<1> DEFINE i == consuming[c].marking
<1>1. /\ i # None
      /\ deliveries' = [deliveries EXCEPT ![i].consumed = TRUE]
      /\ consuming' = [consuming EXCEPT ![c] = [rows |-> @.rows \ {i}, marking |-> None]]
      /\ UNCHANGED <<orders, outbox, inbox, fulfillment, effects, relaying, crashes>>
  BY DEF MarkConsumed, appVars
<1>2. i \in DOMAIN deliveries /\ deliveries[i].event \in fulfillment
  BY <1>1 DEF OutboxInv, TypeOK, ConsumersCovered
<1> HIDE DEF i
<1> DEFINE D == [event : Orders, consumed : BOOLEAN]
           d == [deliveries[i] EXCEPT !.consumed = TRUE]
<1>3. deliveries \in Seq(D) /\ d \in D /\ d.event = deliveries[i].event /\ d.consumed = TRUE
  <2>1. deliveries \in Seq(D)
    BY DEF OutboxInv, TypeOK
  <2>2. deliveries[i] \in D
    <3> HIDE DEF D
    <3>1. QED
      BY <1>2, <2>1
  <2>3. QED
    BY <2>1, <2>2, ConsumedMarked
<1>4. deliveries' = [deliveries EXCEPT ![i] = d]
  BY <1>1, <1>2, <1>3
<1> HIDE DEF D, d
<1>5. /\ deliveries' \in Seq(D)
      /\ DOMAIN deliveries' = DOMAIN deliveries
      /\ \A j \in DOMAIN deliveries : deliveries'[j] = IF j = i THEN d ELSE deliveries[j]
  BY <1>2, <1>3, <1>4, ExceptSeq, LenProperties
<1>6. \A j \in DOMAIN deliveries : deliveries'[j].event = deliveries[j].event
  BY <1>3, <1>5
<1>7. \A j \in Unconsumed : deliveries[j].event \notin fulfillment => j \in Unconsumed'
  BY <1>2, <1>5 DEF Unconsumed
<1>8. TypeOK'
  <2>1. consuming' \in [Consumers -> [rows : SUBSET (DOMAIN deliveries),
                                      marking : DOMAIN deliveries \cup {None}]]
    BY <1>1 DEF OutboxInv, TypeOK
  <2>2. QED
    BY <1>1, <1>5, <2>1 DEF OutboxInv, TypeOK, D
<1>9. \A o : Covered(o) => Covered(o)'
  <2> SUFFICES ASSUME NEW o, Covered(o), o \notin fulfillment PROVE Covered(o)'
    BY <1>1 DEF Covered
  <2>1. PICK j \in Unconsumed : deliveries[j].event = o
    BY DEF Covered
  <2>2. j \in Unconsumed' /\ deliveries'[j].event = o
    BY <1>6, <1>7, <2>1 DEF Unconsumed
  <2>3. QED
    BY <2>2 DEF Covered
<1>10. EventNeverLost'
  <2>1. \A o \in orders \ fulfillment : o \in outbox \/ Covered(o)
    BY DEF OutboxInv, EventNeverLost, Covered
  <2>2. \A o \in orders \ fulfillment : o \in outbox' \/ Covered(o)'
    BY <1>1, <1>9, <2>1
  <2>3. QED
    BY <1>1, <2>2 DEF EventNeverLost, Covered
<1>11. ConsumedMeansFulfilled' /\ DeliveriesOrdered'
  BY <1>1, <1>2, <1>5, <1>6 DEF OutboxInv, ConsumedMeansFulfilled, DeliveriesOrdered
<1>12. RelaysCovered'
  BY <1>1, <1>9 DEF OutboxInv, RelaysCovered
<1>13. ConsumersCovered' /\ EffectsCounted'
  BY <1>1, <1>6 DEF OutboxInv, TypeOK, ConsumersCovered, EffectsCounted
<1>14. QED
  BY <1>8, <1>10, <1>11, <1>12, <1>13 DEF OutboxInv

LEMMA ConsumerInv ==
    ASSUME OutboxInv, NEW c \in Consumers, Consume(c) \/ ConsumerCrash(c)
    PROVE  OutboxInv'
<1>1. CASE UnconsumedDeliveries(c)
  <2>1. PICK last \in Unconsumed :
            consuming' = [consuming EXCEPT ![c].rows = {i \in Unconsumed : i <= last}]
    BY <1>1 DEF UnconsumedDeliveries
  <2> DEFINE rows == {i \in Unconsumed : i <= last}
  <2>2. consuming[c] = NotConsuming /\ c \in DOMAIN consuming
    BY <1>1 DEF UnconsumedDeliveries, OutboxInv, TypeOK
  <2> HIDE DEF rows
  <2>3. consuming' = [consuming EXCEPT ![c] = [rows |-> rows, marking |-> None]]
    <3>1. [consuming[c] EXCEPT !.rows = rows] = [rows |-> rows, marking |-> None]
      BY <2>2 DEF NotConsuming
    <3>2. consuming' = [consuming EXCEPT ![c] = [consuming[c] EXCEPT !.rows = rows]]
      BY <2>1, <2>2 DEF rows
    <3>3. QED
      BY <3>1, <3>2
  <2>4. [rows |-> rows, marking |-> None]
            \in [rows : SUBSET (DOMAIN deliveries), marking : {None}]
    BY DEF Unconsumed, rows
  <2>5. crashes' \in 0 .. MaxCrashes /\ UNCHANGED <<appVars, deliveries, relaying>>
    BY <1>1 DEF UnconsumedDeliveries, OutboxInv, TypeOK
  <2>6. QED
    BY <2>3, <2>4, <2>5, ConsumingInv
<1>2. CASE ConsumerCrash(c)
  <2>1. NotConsuming \in [rows : SUBSET (DOMAIN deliveries), marking : {None}]
    BY DEF NotConsuming
  <2>2. crashes' \in 0 .. MaxCrashes
    BY <1>2, OutboxAssumption DEF ConsumerCrash, OutboxInv, TypeOK, OutboxAssumption
  <2>3. QED
    BY <1>2, <2>1, <2>2, ConsumingInv DEF ConsumerCrash
<1>3. QED
  BY <1>1, <1>2, ProcessDeliveryInv, MarkConsumedInv DEF Consume

-----------------------------------------------------------------------------
(* The whole. *)

LEMMA ResetInv ==
    ASSUME OutboxInv, Reset
    PROVE  OutboxInv'
<1>1. /\ orders' = {} /\ outbox' = {} /\ deliveries' = <<>>
      /\ inbox' = {} /\ fulfillment' = {}
      /\ effects' = [o \in Orders |-> 0]
      /\ UNCHANGED <<relaying, consuming, crashes>>
      /\ \A r \in Relays : relaying[r] = NotRelaying
      /\ \A c \in Consumers : consuming[c] = NotConsuming
  BY DEF Reset
<1>2. TypeOK'
  <2>1. consuming' \in [Consumers -> [rows : SUBSET (DOMAIN deliveries'),
                                      marking : DOMAIN deliveries' \cup {None}]]
    BY <1>1 DEF OutboxInv, TypeOK, NotConsuming
  <2>2. QED
    BY <1>1, <2>1 DEF OutboxInv, TypeOK
<1>3. EventNeverLost' /\ ConsumedMeansFulfilled' /\ DeliveriesOrdered' /\ EffectsCounted'
  BY <1>1 DEF EventNeverLost, ConsumedMeansFulfilled, DeliveriesOrdered, EffectsCounted
<1>4. RelaysCovered' /\ ConsumersCovered'
  BY <1>1 DEF RelaysCovered, ConsumersCovered, NotRelaying, NotConsuming
<1>5. QED
  BY <1>2, <1>3, <1>4 DEF OutboxInv

LEMMA OutboxNext == OutboxInv /\ [Next]_vars => OutboxInv'
<1> SUFFICES ASSUME OutboxInv, [Next]_vars PROVE OutboxInv'
  OBVIOUS
<1>1. CASE UNCHANGED vars
  BY <1>1 DEF vars, OutboxInv, TypeOK, EventNeverLost, ConsumedMeansFulfilled, RelaysCovered,
     Covered, Unconsumed, DeliveriesOrdered, ConsumersCovered, EffectsCounted
<1>2. CASE Next
  BY <1>2, CreateOrderInv, RelayInv, ConsumerInv, ResetInv DEF Next
<1>3. QED
  BY <1>1, <1>2

\* The invariant of the two databases and of what each process remembers of them.
THEOREM OutboxInvariant == Spec => []OutboxInv
<1>1. QED
  BY OutboxInit, OutboxNext, PTL DEF Spec

\* Types, and that no row of one table is without the row it belongs to in another.
THEOREM OutboxTyped == Spec => []TypeOK
<1>1. OutboxInv => TypeOK
  BY DEF OutboxInv
<1>2. QED
  BY <1>1, OutboxInvariant, PTL

\* An order that is not fulfilled still has its event, in the outbox or in a delivery
\* not yet consumed, wherever the relays and the consumers have died.
THEOREM EventsAreNeverLost == Spec => []EventNeverLost
<1>1. OutboxInv => EventNeverLost
  BY DEF OutboxInv
<1>2. QED
  BY <1>1, OutboxInvariant, PTL

\* A delivery is acknowledged only after its effect, and the inbox agrees with it.
THEOREM AcknowledgedAfterEffect == Spec => []ConsumedMeansFulfilled
<1>1. OutboxInv => ConsumedMeansFulfilled
  BY DEF OutboxInv
<1>2. QED
  BY <1>1, OutboxInvariant, PTL

\* Databases, relays and consumers together implement OrderFulfilment: every order
\* has its effect at most once, and only after it was created.
THEOREM EffectExactlyOnce == Spec => ExactlyOneEffect
<1>1. Init => Promise!Init
  BY DEF Init, Promise!Init
<1>2. OutboxInv /\ [Next]_vars => [Promise!Next]_<<orders, effects>>
  <2> SUFFICES ASSUME OutboxInv, [Next]_vars
               PROVE  [Promise!Next]_<<orders, effects>>
    OBVIOUS
  <2>1. ASSUME NEW o \in Orders, CreateOrder(o) PROVE Promise!Next
    BY <2>1 DEF CreateOrder, Promise!Next, Promise!Create
  <2>2. ASSUME NEW c \in Consumers, ProcessDelivery(c)
        PROVE  [Promise!Next]_<<orders, effects>>
    <3> DEFINE o == deliveries[First(consuming[c].rows)].event
    <3>1. o \in orders /\ o \in Orders
      BY <2>2, ProcessedDelivery DEF ProcessDelivery
    <3>2. CASE o \in inbox
      BY <2>2, <3>2 DEF ProcessDelivery
    <3>3. CASE o \notin inbox
      <4>1. effects[o] = 0 /\ effects \in [Orders -> Nat]
        BY <3>1, <3>3 DEF OutboxInv, TypeOK, ConsumedMeansFulfilled, EffectsCounted
      <4>2. effects' = [effects EXCEPT ![o] = @ + 1] /\ UNCHANGED orders
        BY <2>2, <3>3 DEF ProcessDelivery
      <4> HIDE DEF o
      <4>3. effects' = [effects EXCEPT ![o] = 1]
        BY <3>1, <4>1, <4>2
      <4>4. Promise!Fulfil(o)
        BY <3>1, <4>1, <4>2, <4>3 DEF Promise!Fulfil
      <4>5. QED
        BY <3>1, <4>4 DEF Promise!Next
    <3>4. QED
      BY <3>2, <3>3
  <2>3. CASE Reset
    BY <2>3 DEF Reset, Promise!Next, Promise!Reset
  <2>4. CASE UNCHANGED <<orders, effects>>
    BY <2>4
  <2>5. QED
    BY <2>1, <2>2, <2>3, <2>4 DEF Next, Relay, PendingOutbox, Publish, MarkPublished,
       RelayCrash, Consume, UnconsumedDeliveries, MarkConsumed, ConsumerCrash, vars, appVars
<1>3. QED
  BY <1>1, <1>2, OutboxInvariant, PTL DEF Spec, ExactlyOneEffect, Promise!Spec

=============================================================================
