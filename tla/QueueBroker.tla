---------------------------- MODULE QueueBroker -----------------------------
(***************************************************************************)
(* The broker and the idempotent consumer of                               *)
(* labs/distributed-systems/06-queue-redelivery/queue_delivery_demo.py.     *)
(*                                                                         *)
(* Workers share the broker and one Consumer object.  Each call of the      *)
(* broker is one step, and so is Consumer.process; between a worker's       *)
(* receive and its process, other workers may do anything and its lease may *)
(* run out.  Time is abstracted to the one thing that the code asks of it:  *)
(* whether visible_at has passed.  Timeouts and delays are arguments of     *)
(* each call, so messages become visible in any order.                      *)
(*                                                                         *)
(* The lists of messages are functions from the sequence numbers of their   *)
(* messages: the list of active ones is never reordered, and nothing asks   *)
(* for the order of the dead ones.                                         *)
(*                                                                         *)
(* A receipt token is named by the message's sequence number and receive    *)
(* count, which together are as unique as the code's receipt numbers.       *)
(***************************************************************************)
EXTENDS Integers, Sequences, Functions

CONSTANTS
    Ids,              \* message ids that producers use, and may use again
    GroupOf,          \* the group key of each
    Workers,
    MaxReceiveCount,  \* max_receive_count
    MaxSequence,      \* bound: messages ever enqueued
    None

ASSUME BrokerAssumption ==
    /\ MaxReceiveCount \in Nat \ {0}
    /\ MaxSequence \in Nat
    /\ None \notin [id : Ids, sequence : Nat, receive_count : Nat]

VARIABLES
    strict,    \* strict_group_ordering, fixed when the broker is made
    messages,  \* the active messages, by sequence number
    dlq,       \* the dead-letter queue, by sequence number
    enqueued,  \* the id of every message so far; its length is _sequence
    holding,   \* the Delivery each worker has in hand
    inbox,     \* the consumer's inbox
    effects    \* the messages that had a side effect, in that order

vars == <<strict, messages, dlq, enqueued, holding, inbox, effects>>

Message == [id : Ids, receive_count : Nat, visible : BOOLEAN, leased : BOOLEAN]

Delivery == [id : Ids, sequence : Nat, receive_count : Nat]

Init ==
    /\ strict \in BOOLEAN
    /\ messages = <<>>
    /\ dlq = <<>>
    /\ enqueued = <<>>
    /\ holding = [w \in Workers |-> None]
    /\ inbox = {}
    /\ effects = <<>>

sequence == Len(enqueued)

Active == {messages[n].id : n \in DOMAIN messages}

\* An id is refused only while a message of that id is active.
Enqueue(id) ==
    /\ id \notin Active
    /\ sequence < MaxSequence
    /\ enqueued' = Append(enqueued, id)
    /\ messages' = [n \in DOMAIN messages \cup {sequence + 1} |->
            IF n \in DOMAIN messages THEN messages[n]
            ELSE [id |-> id, receive_count |-> 0, visible |-> TRUE, leased |-> FALSE]]
    /\ UNCHANGED <<strict, dlq, holding, inbox, effects>>

\* now reaches the visible_at of a message.
BecomeVisible(n) ==
    /\ ~messages[n].visible
    /\ messages' = [messages EXCEPT ![n].visible = TRUE]
    /\ UNCHANGED <<strict, dlq, enqueued, holding, inbox, effects>>

-----------------------------------------------------------------------------
(* receive: one pass over the messages that discards the exhausted ones it   *)
(* comes across, up to the first one that it can deliver.                    *)

\* Mutated form: one delivery more than the budget.
ExhaustedLate(m) == m.receive_count > MaxReceiveCount

Exhausted(m) == m.receive_count + 1 > MaxReceiveCount

\* The earlier active messages of the group.
Earlier(n) ==
    {k \in DOMAIN messages : k < n /\ GroupOf[messages[k].id] = GroupOf[messages[n].id]}

\* Mutated form: a message in flight does not block the next of its group.
BlockedByVisible(n) ==
    \E k \in Earlier(n) : messages[k].visible /\ ~Exhausted(messages[k])

\* Earlier messages of the group that this very pass discards block no more.
Blocked(n) ==
    \E k \in Earlier(n) : ~(messages[k].visible /\ Exhausted(messages[k]))

Eligible(n) == messages[n].visible /\ ~(strict /\ Blocked(n))

Deliverable == {n \in DOMAIN messages : Eligible(n) /\ ~Exhausted(messages[n])}

\* The exhausted messages that the pass comes to before it delivers one.
Discarded ==
    {n \in DOMAIN messages :
        /\ Eligible(n) /\ Exhausted(messages[n])
        /\ \A d \in Deliverable : n < d}

\* Mutated form: exhausted messages are dropped.
DeadLetteredNowhere == dlq

DeadLettered ==
    [n \in DOMAIN dlq \cup Discarded |->
        IF n \in Discarded
        THEN [messages[n] EXCEPT !.receive_count = @ + 1, !.leased = FALSE]
        ELSE dlq[n]]

Remaining == Restrict(messages, DOMAIN messages \ Discarded)

Delivered(n) ==
    [messages[n] EXCEPT !.receive_count = @ + 1, !.visible = FALSE, !.leased = TRUE]

Receive(w) ==
    /\ holding[w] = None
    /\ dlq' = DeadLettered
    /\ \/ /\ Deliverable = {}
          /\ messages' = Remaining
          /\ UNCHANGED holding
       \/ \E n \in Deliverable :
            /\ \A d \in Deliverable : n <= d
            /\ messages' = [Remaining EXCEPT ![n] = Delivered(n)]
            /\ holding' = [holding EXCEPT ![w] =
                    [id |-> messages[n].id, sequence |-> n,
                     receive_count |-> messages[n].receive_count + 1]]
    /\ UNCHANGED <<strict, enqueued, inbox, effects>>

-----------------------------------------------------------------------------
(* process, ack and nack *)

\* The message that still carries the receipt of delivery d: nobody has received
\* it since, nor has it been given back.  Its lease may well have run out.
Carries(n, d) ==
    messages[n].leased /\ n = d.sequence /\ messages[n].receive_count = d.receive_count

Ack(d) == Restrict(messages, {n \in DOMAIN messages : ~Carries(n, d)})

\* Mutated form: the inbox is written and not read.
ProcessBlindly(w, crash) ==
    LET d == holding[w] IN
    /\ d # None
    /\ inbox' = inbox \cup {d.id}
    /\ effects' = Append(effects, [id |-> d.id, sequence |-> d.sequence])
    /\ messages' = IF crash THEN messages ELSE Ack(d)
    /\ holding' = [holding EXCEPT ![w] = None]
    /\ UNCHANGED <<strict, dlq, enqueued>>

\* idempotent = True; crash is crash_before_ack.
Process(w, crash) ==
    LET d == holding[w] IN
    /\ d # None
    /\ inbox' = inbox \cup {d.id}
    /\ effects' = IF d.id \in inbox THEN effects
                  ELSE Append(effects, [id |-> d.id, sequence |-> d.sequence])
    /\ messages' = IF crash THEN messages ELSE Ack(d)
    /\ holding' = [holding EXCEPT ![w] = None]
    /\ UNCHANGED <<strict, dlq, enqueued>>

\* The handler fails without an effect; the lease is left to run out.
Fail(w) ==
    /\ holding[w] # None
    /\ holding' = [holding EXCEPT ![w] = None]
    /\ UNCHANGED <<strict, messages, dlq, enqueued, inbox, effects>>

\* Mutated form: the message that is given back starts with a fresh budget.
NackForgiven(w, delayed) ==
    /\ holding[w] # None
    /\ messages' = [n \in DOMAIN messages |->
            IF Carries(n, holding[w])
            THEN [messages[n] EXCEPT !.leased = FALSE, !.visible = ~delayed,
                                     !.receive_count = 0]
            ELSE messages[n]]
    /\ holding' = [holding EXCEPT ![w] = None]
    /\ UNCHANGED <<strict, dlq, enqueued, inbox, effects>>

Nack(w, delayed) ==
    /\ holding[w] # None
    /\ messages' = [n \in DOMAIN messages |->
            IF Carries(n, holding[w])
            THEN [messages[n] EXCEPT !.leased = FALSE, !.visible = ~delayed]
            ELSE messages[n]]
    /\ holding' = [holding EXCEPT ![w] = None]
    /\ UNCHANGED <<strict, dlq, enqueued, inbox, effects>>

Work(w) ==
    \/ Receive(w)
    \/ \E crash \in BOOLEAN : Process(w, crash)
    \/ Fail(w)
    \/ \E delayed \in BOOLEAN : Nack(w, delayed)

Next ==
    \/ \E id \in Ids : Enqueue(id)
    \/ \E n \in DOMAIN messages : BecomeVisible(n)
    \/ \E w \in Workers : Work(w)

\* Time passes, and workers poll and finish, well or not, what they received.
Fairness ==
    /\ WF_vars(\E n \in DOMAIN messages : BecomeVisible(n))
    /\ \A w \in Workers : WF_vars(Work(w))

Spec == Init /\ [][Next]_vars

FairSpec == Spec /\ Fairness

-----------------------------------------------------------------------------
(* Correctness. *)

\* Types, and the receive budget: an active message was received at most
\* max_receive_count times, a dead one exactly that often and counted once more.
TypeOK ==
    /\ strict \in BOOLEAN
    /\ enqueued \in Seq(Ids)
    /\ DOMAIN messages \subseteq 1 .. sequence
    /\ messages \in [DOMAIN messages -> Message]
    /\ \A n \in DOMAIN messages : messages[n].receive_count <= MaxReceiveCount
    /\ DOMAIN dlq \subseteq (1 .. sequence) \ DOMAIN messages
    /\ dlq \in [DOMAIN dlq -> Message]
    /\ \A n \in DOMAIN dlq : dlq[n].receive_count = MaxReceiveCount + 1
    /\ holding \in [Workers -> Delivery \cup {None}]
    /\ inbox \subseteq Ids
    /\ effects \in Seq([id : Ids, sequence : Nat])

\* README, safety invariant: whatever is redelivered, crashes, finishes late or is
\* enqueued again under its old id, each id has at most one business effect.
OneBusinessEffect ==
    \A i, j \in DOMAIN effects : effects[i].id = effects[j].id => i = j

\* Every message ever enqueued is active, in the DLQ, or its id had its effect: an
\* acknowledgement, late or not, never removes work that nobody did.
NoMessageLost ==
    \A n \in 1 .. sequence :
        \/ n \in DOMAIN messages
        \/ n \in DOMAIN dlq
        \/ \E i \in DOMAIN effects : effects[i].id = enqueued[n]

\* With strict ordering, the effects of a group happen in the order in which its
\* messages were enqueued.  The one exception is a worker that finishes late a
\* message that was dead-lettered in the meantime.
EffectsInGroupOrder ==
    strict =>
        \A i, j \in DOMAIN effects :
            (/\ i < j
             /\ GroupOf[effects[i].id] = GroupOf[effects[j].id]
             /\ effects[i].sequence > effects[j].sequence)
                => effects[j].sequence \in DOMAIN dlq

\* Head-of-line blocking ends: every message is acknowledged or dead-lettered in
\* the end, a poison message and those behind it in its group included.
EveryMessageSettles ==
    \A n \in 1 .. MaxSequence :
        n \in DOMAIN messages ~> n \notin DOMAIN messages

=============================================================================
