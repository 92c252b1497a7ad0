------------------------- MODULE QueueBrokerProofs --------------------------
(***************************************************************************)
(* Machine-checked proofs about QueueBroker, for any ids, groups, workers    *)
(* and receive budget: one effect for an id, no message lost, and, with      *)
(* strict ordering, the order of the groups.                                *)
(***************************************************************************)
EXTENDS QueueBroker, TLAPS

\* The messages no earlier message of whose group is active.
Cleared ==
    {t \in 1 .. sequence : \A s \in 1 .. sequence :
        s < t /\ GroupOf[enqueued[s]] = GroupOf[enqueued[t]] => s \notin DOMAIN messages}

\* A message is active under the id it was enqueued with.
MessagesAsEnqueued == \A n \in DOMAIN messages : messages[n].id = enqueued[n]

\* A worker has in hand a message that was enqueued; with strict ordering it got
\* it when those before it in its group were gone.
HeldInTurn ==
    \A w \in Workers : holding[w] # None =>
        /\ holding[w].sequence \in 1 .. sequence
        /\ holding[w].id = enqueued[holding[w].sequence]
        /\ strict => holding[w].sequence \in Cleared

\* An effect is that of a message that was enqueued, and was had in its turn.
EffectsInTurn ==
    \A i \in DOMAIN effects :
        /\ effects[i].sequence \in 1 .. sequence
        /\ effects[i].id = enqueued[effects[i].sequence]
        /\ strict => effects[i].sequence \in Cleared

\* The inbox has the ids of the effects.
InboxOfEffects ==
    /\ \A i \in DOMAIN effects : effects[i].id \in inbox
    /\ \A id \in inbox : \E i \in DOMAIN effects : effects[i].id = id

QueueInv ==
    /\ TypeOK
    /\ MessagesAsEnqueued
    /\ HeldInTurn
    /\ EffectsInTurn
    /\ InboxOfEffects
    /\ OneBusinessEffect
    /\ NoMessageLost
    /\ EffectsInGroupOrder

LEMMA QueueInit == Init => QueueInv
<1> SUFFICES ASSUME Init PROVE QueueInv
  OBVIOUS
<1>1. /\ DOMAIN messages = {}
      /\ DOMAIN dlq = {}
      /\ sequence = 0
      /\ DOMAIN effects = {}
  BY DEF Init, sequence
<1>2. TypeOK
  <2>1. messages \in [DOMAIN messages -> Message] /\ dlq \in [DOMAIN dlq -> Message]
    BY <1>1 DEF Init
  <2>2. /\ strict \in BOOLEAN
        /\ enqueued \in Seq(Ids)
        /\ effects \in Seq([id : Ids, sequence : Nat])
        /\ holding \in [Workers -> Delivery \cup {None}]
        /\ inbox \subseteq Ids
    BY DEF Init
  <2>3. QED
    BY <1>1, <2>1, <2>2 DEF TypeOK
<1>3. MessagesAsEnqueued /\ HeldInTurn
  BY <1>1 DEF Init, MessagesAsEnqueued, HeldInTurn
<1>4. EffectsInTurn /\ InboxOfEffects /\ OneBusinessEffect /\ EffectsInGroupOrder
  BY <1>1 DEF Init, EffectsInTurn, InboxOfEffects, OneBusinessEffect, EffectsInGroupOrder
<1>5. NoMessageLost
  BY <1>1 DEF NoMessageLost
<1>6. QED
  BY <1>2, <1>3, <1>4, <1>5 DEF QueueInv

-----------------------------------------------------------------------------
(* What the steps share. *)

\* What a step does to the messages when it enqueues none: it takes some away and
\* keeps the ids of the rest.
Shrinks ==
    /\ enqueued' = enqueued
    /\ DOMAIN messages' \subseteq DOMAIN messages
    /\ \A n \in DOMAIN messages' : messages'[n].id = messages[n].id

\* Messages that are only taken away stay as enqueued, and those cleared stay so.
LEMMA ShrinkKeepsOrder ==
    ASSUME Shrinks, MessagesAsEnqueued
    PROVE  /\ MessagesAsEnqueued'
           /\ Cleared \subseteq Cleared'
BY DEF Shrinks, MessagesAsEnqueued, Cleared, sequence

\* A step that has no effect and hands out nothing keeps the workers, the effects
\* and the inbox as they should be.
LEMMA NoEffectKeeps ==
    ASSUME QueueInv, Shrinks,
           strict' = strict, inbox' = inbox, effects' = effects,
           \A w \in Workers : holding'[w] \in {holding[w], None}
    PROVE  /\ HeldInTurn'
           /\ EffectsInTurn'
           /\ InboxOfEffects'
           /\ OneBusinessEffect'
<1>1. sequence' = sequence /\ Cleared \subseteq Cleared'
  BY ShrinkKeepsOrder DEF QueueInv, Shrinks, sequence
<1>2. HeldInTurn'
  BY <1>1 DEF QueueInv, HeldInTurn, Shrinks
<1>3. EffectsInTurn'
  BY <1>1 DEF QueueInv, EffectsInTurn, Shrinks
<1>4. InboxOfEffects' /\ OneBusinessEffect'
  BY DEF QueueInv, InboxOfEffects, OneBusinessEffect
<1>5. QED
  BY <1>2, <1>3, <1>4

-----------------------------------------------------------------------------
(* Enqueue *)

LEMMA EnqueueStep ==
    ASSUME QueueInv, NEW id \in Ids, Enqueue(id)
    PROVE  QueueInv'
<1> DEFINE new == sequence + 1
           fresh == [id |-> id, receive_count |-> 0, visible |-> TRUE, leased |-> FALSE]
<1>1. /\ enqueued' \in Seq(Ids)
      /\ sequence \in Nat
      /\ sequence' = sequence + 1
      /\ \A n \in 1 .. sequence : enqueued'[n] = enqueued[n]
      /\ enqueued'[new] = id
  BY DEF QueueInv, TypeOK, Enqueue, sequence
<1>2. /\ DOMAIN messages \subseteq 1 .. sequence
      /\ DOMAIN messages' = DOMAIN messages \cup {new}
      /\ \A n \in DOMAIN messages : messages'[n] = messages[n]
      /\ messages'[new] = fresh
      /\ messages' = [n \in DOMAIN messages' |-> messages'[n]]
  BY <1>1 DEF QueueInv, TypeOK, Enqueue
<1>3. fresh \in Message /\ fresh.id = id /\ fresh.receive_count = 0
  BY DEF Message
<1> HIDE DEF fresh
<1>4. /\ strict' = strict /\ dlq' = dlq /\ holding' = holding
      /\ inbox' = inbox /\ effects' = effects
  BY DEF Enqueue
<1>5. Cleared \subseteq Cleared'
  <2> SUFFICES ASSUME NEW t \in Cleared, NEW s \in 1 .. sequence', s < t,
                      GroupOf[enqueued'[s]] = GroupOf[enqueued'[t]],
                      s \in DOMAIN messages'
               PROVE  FALSE
    BY <1>1 DEF Cleared
  <2>1. t \in 1 .. sequence /\ s \in 1 .. sequence /\ s # new
    BY <1>1 DEF Cleared
  <2>2. s \in DOMAIN messages
    BY <1>2, <2>1
  <2>3. QED
    BY <1>1, <2>1, <2>2 DEF Cleared
<1>6. TypeOK'
  <2>1. enqueued' \in Seq(Ids)
    BY <1>1
  <2>2. \A n \in DOMAIN messages' :
            messages'[n] \in Message /\ messages'[n].receive_count <= MaxReceiveCount
    BY <1>2, <1>3, BrokerAssumption DEF QueueInv, TypeOK, BrokerAssumption
  <2>3. messages' \in [DOMAIN messages' -> Message]
    BY <1>2, <2>2
  <2>4. /\ DOMAIN messages' \subseteq 1 .. sequence'
        /\ DOMAIN dlq' \subseteq (1 .. sequence') \ DOMAIN messages'
    BY <1>1, <1>2, <1>4 DEF QueueInv, TypeOK
  <2>5. QED
    BY <1>4, <2>1, <2>2, <2>3, <2>4 DEF QueueInv, TypeOK
<1>7. MessagesAsEnqueued'
  BY <1>1, <1>2, <1>3 DEF QueueInv, MessagesAsEnqueued
<1>8. HeldInTurn'
  BY <1>1, <1>4, <1>5 DEF QueueInv, HeldInTurn
<1>9. EffectsInTurn'
  BY <1>1, <1>4, <1>5 DEF QueueInv, EffectsInTurn
<1>10. NoMessageLost'
  <2> SUFFICES ASSUME NEW n \in 1 .. sequence', n \notin DOMAIN messages',
                      n \notin DOMAIN dlq
               PROVE  \E i \in DOMAIN effects : effects[i].id = enqueued'[n]
    BY <1>4 DEF NoMessageLost
  <2>1. n \in 1 .. sequence /\ n \notin DOMAIN messages
    BY <1>1, <1>2
  <2>2. QED
    BY <1>1, <2>1 DEF QueueInv, NoMessageLost
<1>11. InboxOfEffects' /\ OneBusinessEffect' /\ EffectsInGroupOrder'
  BY <1>4 DEF QueueInv, InboxOfEffects, OneBusinessEffect, EffectsInGroupOrder
<1>12. QED
  BY <1>6, <1>7, <1>8, <1>9, <1>10, <1>11 DEF QueueInv

-----------------------------------------------------------------------------
(* Receive *)

\* A message that is counted once more, and held or let go, is a message.
LEMMA CountedMessage ==
    ASSUME NEW m \in Message
    PROVE  LET dead == [m EXCEPT !.receive_count = @ + 1, !.leased = FALSE]
               held == [m EXCEPT !.receive_count = @ + 1, !.visible = FALSE, !.leased = TRUE]
           IN  /\ dead \in Message /\ dead.receive_count = m.receive_count + 1
               /\ held \in Message /\ held.receive_count = m.receive_count + 1
               /\ held.id = m.id
<1>1. m.receive_count \in Nat /\ m.receive_count + 1 \in Nat
  BY DEF Message
<1>2. [m EXCEPT !.receive_count = @ + 1] \in Message
  BY <1>1 DEF Message
<1>3. QED
  BY <1>1, <1>2 DEF Message

\* The exhausted messages that a pass discards are active.
LEMMA DiscardedActive == Discarded \subseteq DOMAIN messages
BY DEF Discarded

\* What a pass discards has spent its budget, and is counted once more.
LEMMA DeadLetteredTyped ==
    ASSUME QueueInv, dlq' = DeadLettered
    PROVE  /\ DOMAIN dlq' = DOMAIN dlq \cup Discarded
           /\ dlq' \in [DOMAIN dlq' -> Message]
           /\ \A n \in DOMAIN dlq' : dlq'[n].receive_count = MaxReceiveCount + 1
<1>1. DOMAIN dlq' = DOMAIN dlq \cup Discarded
  BY DEF DeadLettered
<1>2. \A n \in DOMAIN dlq' :
          dlq'[n] \in Message /\ dlq'[n].receive_count = MaxReceiveCount + 1
  <2> SUFFICES ASSUME NEW n \in DOMAIN dlq'
               PROVE  dlq'[n] \in Message /\ dlq'[n].receive_count = MaxReceiveCount + 1
    OBVIOUS
  <2>1. CASE n \in Discarded
    <3>1. dlq'[n] = [messages[n] EXCEPT !.receive_count = @ + 1, !.leased = FALSE]
      BY <1>1, <2>1 DEF DeadLettered
    <3>2. messages[n] \in Message /\ messages[n].receive_count <= MaxReceiveCount
      BY <2>1, DiscardedActive DEF QueueInv, TypeOK
    <3>3. messages[n].receive_count + 1 > MaxReceiveCount
      BY <2>1 DEF Discarded, Exhausted
    <3>4. QED
      <4>1. messages[n].receive_count \in Nat /\ MaxReceiveCount \in Nat
        BY <3>2, BrokerAssumption DEF Message, BrokerAssumption
      <4>2. messages[n].receive_count + 1 = MaxReceiveCount + 1
        BY <3>2, <3>3, <4>1
      <4>3. /\ dlq'[n] \in Message
            /\ dlq'[n].receive_count = messages[n].receive_count + 1
        BY <3>1, <3>2, CountedMessage
      <4>4. QED
        BY <4>2, <4>3
  <2>2. CASE n \notin Discarded
    BY <1>1, <2>2 DEF DeadLettered, QueueInv, TypeOK
  <2>3. QED
    BY <2>1, <2>2
<1>3. dlq' = [n \in DOMAIN dlq' |-> dlq'[n]]
  BY DEF DeadLettered
<1>4. QED
  BY <1>1, <1>2, <1>3

\* The messages that a pass keeps, and the one it delivers.
LEMMA ReceiveMessages ==
    ASSUME QueueInv, NEW w \in Workers, Receive(w)
    PROVE  /\ DOMAIN messages' = DOMAIN messages \ Discarded
           /\ messages' \in [DOMAIN messages' -> Message]
           /\ \A n \in DOMAIN messages' :
                /\ messages'[n].id = messages[n].id
                /\ messages'[n].receive_count <= MaxReceiveCount
<1>0. messages \in [DOMAIN messages -> Message]
  BY DEF QueueInv, TypeOK
<1>1. /\ DOMAIN Remaining = DOMAIN messages \ Discarded
      /\ \A n \in DOMAIN Remaining : Remaining[n] = messages[n]
      /\ Remaining \in [DOMAIN messages \ Discarded -> Message]
  BY <1>0 DEF Remaining, Restrict
<1>2. CASE messages' = Remaining
  BY <1>1, <1>2 DEF QueueInv, TypeOK
<1>3. CASE \E n \in Deliverable : messages' = [Remaining EXCEPT ![n] = Delivered(n)]
  <2>1. PICK n \in Deliverable : messages' = [Remaining EXCEPT ![n] = Delivered(n)]
    BY <1>3
  <2>2. n \in DOMAIN messages \ Discarded
    BY <2>1 DEF Deliverable, Discarded
  <2>3. messages[n] \in Message
    BY <1>0, <2>2
  <2>4. Delivered(n) \in Message /\ Delivered(n).id = messages[n].id
    BY <2>3, CountedMessage DEF Delivered
  <2>5. Delivered(n).receive_count <= MaxReceiveCount
    <3>1. ~(messages[n].receive_count + 1 > MaxReceiveCount)
      BY <2>1 DEF Deliverable, Exhausted
    <3>2. Delivered(n).receive_count = messages[n].receive_count + 1
      BY <2>3, CountedMessage DEF Delivered
    <3>3. QED
      BY <2>3, <3>1, <3>2, BrokerAssumption DEF Message, BrokerAssumption
  <2>6. messages' \in [DOMAIN messages \ Discarded -> Message]
    BY <1>1, <2>1, <2>4
  <2>7. \A k \in DOMAIN messages \ Discarded :
            messages'[k] = IF k = n THEN Delivered(n) ELSE messages[k]
    BY <1>1, <2>1, <2>2
  <2>8. QED
    BY <2>4, <2>5, <2>6, <2>7 DEF QueueInv, TypeOK
<1>4. QED
  BY <1>2, <1>3 DEF Receive

\* The pass delivers a message of a strict queue when it has discarded those that
\* were before it in its group.
LEMMA DeliveredInTurn ==
    ASSUME QueueInv, strict,
           NEW n \in Deliverable, \A d \in Deliverable : n <= d,
           NEW k \in Earlier(n)
    PROVE  k \in Discarded
<1>1. /\ Deliverable \subseteq DOMAIN messages
      /\ DOMAIN messages \subseteq Nat
  BY DEF Deliverable, QueueInv, TypeOK
<1>2. \A e \in Earlier(n) : messages[e].visible /\ Exhausted(messages[e])
  BY DEF Deliverable, Eligible, Blocked
<1>3. Earlier(k) \subseteq Earlier(n) /\ k \in DOMAIN messages /\ k < n
  BY <1>1 DEF Earlier
<1>4. ~Blocked(k)
  BY <1>2, <1>3 DEF Blocked
<1>5. Eligible(k) /\ Exhausted(messages[k])
  BY <1>2, <1>4 DEF Eligible
<1>6. \A d \in Deliverable : k < d
  BY <1>1, <1>3
<1>7. QED
  BY <1>3, <1>5, <1>6 DEF Discarded

LEMMA ReceiveStep ==
    ASSUME QueueInv, NEW w \in Workers, Receive(w)
    PROVE  QueueInv'
<1>1. /\ strict' = strict /\ enqueued' = enqueued
      /\ inbox' = inbox /\ effects' = effects
      /\ dlq' = DeadLettered
      /\ sequence' = sequence
  BY DEF Receive, sequence
<1>2. Shrinks
  BY <1>1, ReceiveMessages DEF Shrinks
<1>3. /\ MessagesAsEnqueued'
      /\ Cleared \subseteq Cleared'
  BY <1>2, ShrinkKeepsOrder DEF QueueInv
<1>4. ASSUME holding' = holding
      PROVE  HeldInTurn' /\ holding' \in [Workers -> Delivery \cup {None}]
  <2>1. HeldInTurn'
    BY <1>1, <1>2, <1>4, NoEffectKeeps
  <2>2. holding' \in [Workers -> Delivery \cup {None}]
    BY <1>4 DEF QueueInv, TypeOK
  <2>3. QED
    BY <2>1, <2>2
<1> DEFINE Hand(n) == [id |-> messages[n].id, sequence |-> n,
                       receive_count |-> messages[n].receive_count + 1]
<1>5. ASSUME NEW n \in Deliverable, \A d \in Deliverable : n <= d,
             holding' = [holding EXCEPT ![w] = Hand(n)]
      PROVE  HeldInTurn' /\ holding' \in [Workers -> Delivery \cup {None}]
  <2>1. n \in DOMAIN messages /\ n \in 1 .. sequence /\ n \in Nat
    BY DEF Deliverable, QueueInv, TypeOK
  <2>2. messages[n].id = enqueued[n] /\ messages[n] \in Message
    BY <2>1 DEF QueueInv, MessagesAsEnqueued, TypeOK
  <2>3. Hand(n) \in Delivery
    BY <2>1, <2>2 DEF Delivery, Message
  <2>4. holding \in [Workers -> Delivery \cup {None}]
    BY DEF QueueInv, TypeOK
  <2>5. holding' \in [Workers -> Delivery \cup {None}]
    BY <1>5, <2>3, <2>4
  <2>6. ASSUME strict PROVE n \in Cleared'
    <3> SUFFICES ASSUME NEW s \in 1 .. sequence, s < n,
                        GroupOf[enqueued[s]] = GroupOf[enqueued[n]],
                        s \in DOMAIN messages'
                 PROVE  FALSE
      BY <1>1, <2>1 DEF Cleared
    <3>1. s \in DOMAIN messages /\ s \notin Discarded
      BY ReceiveMessages
    <3>2. s \in Earlier(n)
      BY <2>2, <3>1 DEF Earlier, QueueInv, MessagesAsEnqueued
    <3>3. QED
      BY <1>5, <2>6, <3>1, <3>2, DeliveredInTurn
  <2>7. ASSUME NEW v \in Workers, holding'[v] # None
        PROVE  /\ holding'[v].sequence \in 1 .. sequence
               /\ holding'[v].id = enqueued[holding'[v].sequence]
               /\ strict => holding'[v].sequence \in Cleared'
    <3>1. CASE v = w
      <4>1. holding'[v] = Hand(n)
        BY <1>5, <2>4, <3>1
      <4>2. holding'[v].sequence = n /\ holding'[v].id = messages[n].id
        BY <4>1
      <4>3. QED
        BY <2>1, <2>2, <2>6, <4>2
    <3>2. CASE v # w
      <4>1. holding'[v] = holding[v]
        BY <1>5, <2>4, <3>2
      <4>2. QED
        BY <1>3, <2>7, <4>1 DEF QueueInv, HeldInTurn
    <3>3. QED
      BY <3>1, <3>2
  <2>8. HeldInTurn'
    BY <1>1, <2>7 DEF HeldInTurn
  <2>9. QED
    BY <2>5, <2>8
<1>6. HeldInTurn' /\ holding' \in [Workers -> Delivery \cup {None}]
  BY <1>4, <1>5 DEF Receive
<1>7. EffectsInTurn'
  BY <1>1, <1>3 DEF QueueInv, EffectsInTurn
<1>8. TypeOK'
  <2>1. /\ DOMAIN messages' = DOMAIN messages \ Discarded
        /\ DOMAIN dlq' = DOMAIN dlq \cup Discarded
    BY <1>1, ReceiveMessages, DeadLetteredTyped
  <2>2. /\ DOMAIN messages' \subseteq 1 .. sequence'
        /\ DOMAIN dlq' \subseteq (1 .. sequence') \ DOMAIN messages'
    BY <1>1, <2>1, DiscardedActive DEF QueueInv, TypeOK
  <2>3. QED
    BY <1>1, <1>6, <2>2, ReceiveMessages, DeadLetteredTyped DEF QueueInv, TypeOK
<1>9. NoMessageLost'
  BY <1>1, ReceiveMessages, DeadLetteredTyped DEF QueueInv, NoMessageLost
<1>10. EffectsInGroupOrder'
  BY <1>1, DeadLetteredTyped DEF QueueInv, EffectsInGroupOrder
<1>11. InboxOfEffects' /\ OneBusinessEffect'
  BY <1>1 DEF QueueInv, InboxOfEffects, OneBusinessEffect
<1>12. QED
  BY <1>3, <1>6, <1>7, <1>8, <1>9, <1>10, <1>11 DEF QueueInv

-----------------------------------------------------------------------------
(* The consumer *)

\* An acknowledgement takes away messages, and none but the one it is for.
LEMMA AckKeepsOthers ==
    ASSUME QueueInv, NEW d
    PROVE  /\ DOMAIN Ack(d) \subseteq DOMAIN messages
           /\ \A n \in DOMAIN messages : n \notin DOMAIN Ack(d) => n = d.sequence
           /\ \A n \in DOMAIN Ack(d) : Ack(d)[n] = messages[n]
           /\ Ack(d) \in [DOMAIN Ack(d) -> Message]
BY DEF Ack, Restrict, Carries, QueueInv, TypeOK

LEMMA ProcessStep ==
    ASSUME QueueInv, NEW w \in Workers, NEW crash \in BOOLEAN, Process(w, crash)
    PROVE  QueueInv'
<1> DEFINE d == holding[w]
           new == Len(effects) + 1
<1>1. /\ strict' = strict /\ enqueued' = enqueued /\ dlq' = dlq
      /\ sequence' = sequence
      /\ inbox' = inbox \cup {d.id}
      /\ d # None
      /\ messages' \in {messages, Ack(d)}
      /\ effects' = IF d.id \in inbox THEN effects
                    ELSE Append(effects, [id |-> d.id, sequence |-> d.sequence])
      /\ holding' = [holding EXCEPT ![w] = None]
  BY DEF Process, sequence
<1>2. /\ DOMAIN messages' \subseteq DOMAIN messages
      /\ \A n \in DOMAIN messages : n \notin DOMAIN messages' => n = d.sequence
      /\ \A n \in DOMAIN messages' : messages'[n] = messages[n]
      /\ messages' \in [DOMAIN messages' -> Message]
  BY <1>1, AckKeepsOthers DEF QueueInv, TypeOK
<1>3. Shrinks
  BY <1>1, <1>2 DEF Shrinks
<1>4. /\ MessagesAsEnqueued'
      /\ Cleared \subseteq Cleared'
  BY <1>3, ShrinkKeepsOrder DEF QueueInv
<1>5. /\ d \in Delivery /\ d.id \in Ids /\ d.sequence \in Nat
      /\ d.sequence \in 1 .. sequence
      /\ d.id = enqueued[d.sequence]
      /\ strict => d.sequence \in Cleared
  BY <1>1 DEF QueueInv, TypeOK, HeldInTurn, Delivery
<1>6. effects \in Seq([id : Ids, sequence : Nat]) /\ Len(effects) \in Nat
  BY DEF QueueInv, TypeOK
<1>7. \A i \in DOMAIN effects : i \in DOMAIN effects' /\ effects'[i] = effects[i]
  BY <1>1, <1>6
<1>8. ASSUME NEW i \in DOMAIN effects', i \notin DOMAIN effects
      PROVE  /\ i = new
             /\ effects'[i] = [id |-> d.id, sequence |-> d.sequence]
             /\ d.id \notin inbox
  BY <1>1, <1>6, <1>8
<1>9. \E i \in DOMAIN effects' : effects'[i].id = d.id
  <2>1. CASE d.id \in inbox
    BY <1>7, <2>1 DEF QueueInv, InboxOfEffects
  <2>2. CASE d.id \notin inbox
    <3>1. new \in DOMAIN effects' /\ effects'[new].id = d.id
      BY <1>1, <1>6, <2>2
    <3>2. QED
      BY <3>1
  <2>3. QED
    BY <2>1, <2>2
<1>10. TypeOK'
  <2>1. effects' \in Seq([id : Ids, sequence : Nat])
    <3>1. [id |-> d.id, sequence |-> d.sequence] \in [id : Ids, sequence : Nat]
      BY <1>5
    <3>2. Append(effects, [id |-> d.id, sequence |-> d.sequence])
             \in Seq([id : Ids, sequence : Nat])
      BY <1>6, <3>1
    <3>3. QED
      BY <1>1, <1>6, <3>2
  <2>2. holding' \in [Workers -> Delivery \cup {None}]
    BY <1>1 DEF QueueInv, TypeOK
  <2>3. QED
    BY <1>1, <1>2, <1>5, <2>1, <2>2 DEF QueueInv, TypeOK
<1>11. HeldInTurn'
  BY <1>1, <1>4 DEF QueueInv, TypeOK, HeldInTurn
<1>12. EffectsInTurn'
  <2> SUFFICES ASSUME NEW i \in DOMAIN effects'
               PROVE  /\ effects'[i].sequence \in 1 .. sequence
                      /\ effects'[i].id = enqueued[effects'[i].sequence]
                      /\ strict => effects'[i].sequence \in Cleared'
    BY <1>1 DEF EffectsInTurn
  <2>1. CASE i \in DOMAIN effects
    BY <1>4, <1>7, <2>1 DEF QueueInv, EffectsInTurn
  <2>2. CASE i \notin DOMAIN effects
    <3>1. effects'[i].sequence = d.sequence /\ effects'[i].id = d.id
      BY <1>8, <2>2
    <3>2. QED
      BY <1>4, <1>5, <3>1
  <2>3. QED
    BY <2>1, <2>2
<1>13. InboxOfEffects'
  BY <1>1, <1>7, <1>8, <1>9 DEF QueueInv, InboxOfEffects
<1>14. OneBusinessEffect'
  BY <1>7, <1>8 DEF QueueInv, InboxOfEffects, OneBusinessEffect
<1>15. NoMessageLost'
  <2> SUFFICES ASSUME NEW n \in 1 .. sequence,
                      n \notin DOMAIN messages', n \notin DOMAIN dlq
               PROVE  \E i \in DOMAIN effects' : effects'[i].id = enqueued[n]
    BY <1>1 DEF NoMessageLost
  <2>1. CASE n \in DOMAIN messages
    BY <1>2, <1>5, <1>9, <2>1
  <2>2. CASE n \notin DOMAIN messages
    BY <1>7, <2>2 DEF QueueInv, NoMessageLost
  <2>3. QED
    BY <2>1, <2>2
<1>16. EffectsInGroupOrder'
  <2> SUFFICES ASSUME strict,
                      NEW i \in DOMAIN effects', NEW j \in DOMAIN effects', i < j,
                      GroupOf[effects'[i].id] = GroupOf[effects'[j].id],
                      effects'[i].sequence > effects'[j].sequence
               PROVE  effects'[j].sequence \in DOMAIN dlq
    BY <1>1 DEF EffectsInGroupOrder
  <2>1. CASE j \in DOMAIN effects
    <3>1. i \in DOMAIN effects
      BY <1>1, <1>6, <2>1
    <3>2. QED
      BY <1>7, <2>1, <3>1 DEF QueueInv, EffectsInGroupOrder
  <2>2. CASE j \notin DOMAIN effects
    <3>1. /\ effects'[j].id = d.id /\ effects'[j].sequence = d.sequence
          /\ j = new /\ d.id \notin inbox
      BY <1>8, <2>2
    <3>2. i \in DOMAIN effects /\ effects'[i] = effects[i]
      BY <1>7, <1>8, <3>1
    <3>3. /\ effects[i].sequence \in Cleared
          /\ effects[i].id = enqueued[effects[i].sequence]
      BY <3>2 DEF QueueInv, EffectsInTurn
    <3>4. d.sequence \notin DOMAIN messages
      BY <1>5, <3>1, <3>2, <3>3 DEF Cleared
    <3>5. ~(\E k \in DOMAIN effects : effects[k].id = enqueued[d.sequence])
      BY <1>5, <3>1 DEF QueueInv, InboxOfEffects
    <3>6. QED
      BY <1>5, <3>1, <3>4, <3>5 DEF QueueInv, NoMessageLost
  <2>3. QED
    BY <2>1, <2>2
<1>17. QED
  BY <1>4, <1>10, <1>11, <1>12, <1>13, <1>14, <1>15, <1>16 DEF QueueInv

-----------------------------------------------------------------------------
(* The other steps change no more of a message than its lease. *)

LEMMA LeaseStep ==
    ASSUME QueueInv,
           strict' = strict, enqueued' = enqueued, dlq' = dlq,
           inbox' = inbox, effects' = effects,
           holding' \in [Workers -> Delivery \cup {None}],
           \A w \in Workers : holding'[w] \in {holding[w], None},
           DOMAIN messages' = DOMAIN messages,
           messages' \in [DOMAIN messages' -> Message],
           \A n \in DOMAIN messages :
               /\ messages'[n].id = messages[n].id
               /\ messages'[n].receive_count = messages[n].receive_count
    PROVE  QueueInv'
<1>1. Shrinks /\ sequence' = sequence
  BY DEF Shrinks, sequence
<1>2. MessagesAsEnqueued'
  BY <1>1, ShrinkKeepsOrder DEF QueueInv
<1>3. HeldInTurn' /\ EffectsInTurn' /\ InboxOfEffects' /\ OneBusinessEffect'
  BY <1>1, NoEffectKeeps
<1>4. TypeOK'
  BY <1>1 DEF QueueInv, TypeOK
<1>5. NoMessageLost' /\ EffectsInGroupOrder'
  BY <1>1 DEF QueueInv, NoMessageLost, EffectsInGroupOrder
<1>6. QED
  BY <1>2, <1>3, <1>4, <1>5 DEF QueueInv

LEMMA BecomeVisibleStep ==
    ASSUME QueueInv, NEW n \in DOMAIN messages, BecomeVisible(n)
    PROVE  QueueInv'
<1>1. messages \in [DOMAIN messages -> Message]
  BY DEF QueueInv, TypeOK
<1>2. /\ DOMAIN messages' = DOMAIN messages
      /\ \A k \in DOMAIN messages :
            messages'[k] = IF k = n THEN [messages[n] EXCEPT !.visible = TRUE] ELSE messages[k]
  BY <1>1 DEF BecomeVisible
<1>3. \A k \in DOMAIN messages :
          /\ messages'[k] \in Message
          /\ messages'[k].id = messages[k].id
          /\ messages'[k].receive_count = messages[k].receive_count
  BY <1>1, <1>2 DEF Message
<1>4. messages' \in [DOMAIN messages' -> Message]
  BY <1>1, <1>2, <1>3 DEF BecomeVisible
<1>5. QED
  BY <1>2, <1>3, <1>4, LeaseStep DEF BecomeVisible, QueueInv, TypeOK

LEMMA FailStep ==
    ASSUME QueueInv, NEW w \in Workers, Fail(w)
    PROVE  QueueInv'
<1>1. /\ holding' \in [Workers -> Delivery \cup {None}]
      /\ \A v \in Workers : holding'[v] \in {holding[v], None}
  BY DEF QueueInv, TypeOK, Fail
<1>2. QED
  BY <1>1, LeaseStep DEF Fail, QueueInv, TypeOK

LEMMA NackStep ==
    ASSUME QueueInv, NEW w \in Workers, NEW delayed \in BOOLEAN, Nack(w, delayed)
    PROVE  QueueInv'
<1>1. /\ holding' \in [Workers -> Delivery \cup {None}]
      /\ \A v \in Workers : holding'[v] \in {holding[v], None}
  BY DEF QueueInv, TypeOK, Nack
<1>2. messages \in [DOMAIN messages -> Message]
  BY DEF QueueInv, TypeOK
<1>3. /\ DOMAIN messages' = DOMAIN messages
      /\ \A n \in DOMAIN messages :
            messages'[n] \in {messages[n],
                              [messages[n] EXCEPT !.leased = FALSE, !.visible = ~delayed]}
  BY DEF Nack
<1>4. \A n \in DOMAIN messages :
          /\ messages'[n] \in Message
          /\ messages'[n].id = messages[n].id
          /\ messages'[n].receive_count = messages[n].receive_count
  BY <1>2, <1>3 DEF Message
<1>5. messages' = [n \in DOMAIN messages' |-> messages'[n]]
  BY DEF Nack
<1>6. messages' \in [DOMAIN messages' -> Message]
  BY <1>3, <1>4, <1>5
<1>7. QED
  BY <1>1, <1>3, <1>4, <1>6, LeaseStep DEF Nack

-----------------------------------------------------------------------------
(* The theorems. *)

LEMMA QueueStep ==
    ASSUME QueueInv, [Next]_vars
    PROVE  QueueInv'
<1>1. CASE \E id \in Ids : Enqueue(id)
  BY <1>1, EnqueueStep
<1>2. CASE \E n \in DOMAIN messages : BecomeVisible(n)
  BY <1>2, BecomeVisibleStep
<1>3. CASE \E w \in Workers : Work(w)
  BY <1>3, ReceiveStep, ProcessStep, FailStep, NackStep DEF Work
<1>4. CASE UNCHANGED vars
  BY <1>4, LeaseStep DEF vars, QueueInv, TypeOK
<1>5. QED
  BY <1>1, <1>2, <1>3, <1>4 DEF Next

LEMMA QueueInvariant == Spec => []QueueInv
BY QueueInit, QueueStep, PTL DEF Spec

\* Types, and the receive budget of active and of dead messages.
THEOREM QueueTyped == Spec => []TypeOK
<1>1. QueueInv => TypeOK
  BY DEF QueueInv
<1>2. QED
  BY <1>1, QueueInvariant, PTL

\* Whatever is redelivered, crashes, finishes late or is enqueued again under its
\* old id, the inbox lets each id have one effect (Consumer.process).
THEOREM OneEffectPerId == Spec => []OneBusinessEffect
<1>1. QueueInv => OneBusinessEffect
  BY DEF QueueInv
<1>2. QED
  BY <1>1, QueueInvariant, PTL

\* Every message ever enqueued is active, in the DLQ, or its id had its effect
\* (receive, ack, Consumer.process).
THEOREM NoMessageIsLost == Spec => []NoMessageLost
<1>1. QueueInv => NoMessageLost
  BY DEF QueueInv
<1>2. QED
  BY <1>1, QueueInvariant, PTL

\* With strict ordering the effects of a group happen in the order of enqueueing,
\* but for a late finisher of a message that was dead-lettered meanwhile.
THEOREM GroupOrderKept == Spec => []EffectsInGroupOrder
<1>1. QueueInv => EffectsInGroupOrder
  BY DEF QueueInv
<1>2. QED
  BY <1>1, QueueInvariant, PTL

=============================================================================
