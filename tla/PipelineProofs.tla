--------------------------- MODULE PipelineProofs ---------------------------
(***************************************************************************)
(* Machine-checked proofs about EventPipeline, for any stream, shards, queue *)
(* sizes, attempts and number of workers: bounded retries, one effect per    *)
(* event, no copy lost or made up, nothing left behind when run returns, and *)
(* no wedge when the work queue and the workers have room for every copy.    *)
(***************************************************************************)
EXTENDS EventPipeline, TLAPS, SequenceTheorems, FiniteSetTheorems

\* An event in flight is new, or is retried: it has an attempt left and is no
\* poison, which is quarantined the first time.
Live == {e \in Event : e.attempt = 0 \/ (e.attempt < MaxAttempts /\ e.id \notin Poison)}

Dead == {e \in Event : e.attempt = 1 \/ e.attempt <= MaxAttempts}

Metrics == [admitted : Nat, processed : Nat, duplicates : Nat]

Busy == {w \in Workers : working[w] # None}

LiveTypes ==
    /\ producer \in {"loop", "put", "again"}
    /\ next \in 1 .. (Len(Stream) + 1)
    /\ shardQueue \in [Shards -> Seq(Live)]
    /\ shardUnfinished \in [Shards -> Nat]
    /\ routing \in [Shards -> Live \cup {None}]
    /\ workQueue \in Seq(Live)
    /\ workUnfinished \in Nat
    /\ working \in [Workers -> Live \cup {None}]
    /\ backingOff \subseteq Busy
    /\ \A w \in backingOff : working[w].id \notin Poison /\ working[w].attempt + 1 < MaxAttempts
    /\ inbox \subseteq Ids
    /\ dlq \in Seq(Dead)
    /\ metrics \in Metrics
    /\ main \in {"producer", "shards", "work", "done"}

\* What the joins wait for is what is queued or in hand.
UnfinishedCounted ==
    /\ \A s \in Shards :
          /\ routing[s] = None => shardUnfinished[s] = Len(shardQueue[s])
          /\ routing[s] # None => shardUnfinished[s] = Len(shardQueue[s]) + 1
    /\ workUnfinished = Len(workQueue) + Cardinality(Busy)

\* run waits for the producer, then the shard queues, then the work queue, and
\* what it has waited for stays as it was.
JoinsHold ==
    /\ producer # "loop" => main = "producer" /\ next <= Len(Stream)
    /\ main \in {"work", "done"} => \A s \in Shards : shardUnfinished[s] = 0
    /\ main = "done" => workUnfinished = 0

\* Some copy of the event is queued or in hand, or has come to its end.
Held(e) ==
    \/ e \in inbox
    \/ \E i \in DOMAIN dlq : dlq[i].id = e
    \/ \E s \in Shards : \E i \in DOMAIN shardQueue[s] : shardQueue[s][i].id = e
    \/ \E s \in Shards : routing[s] # None /\ routing[s].id = e
    \/ \E i \in DOMAIN workQueue : workQueue[i].id = e
    \/ \E w \in Workers : working[w] # None /\ working[w].id = e

\* Every event is held from its first copy on.
StreamHeld ==
    /\ \A i \in 1 .. (next - 1) : Held(Stream[i])
    /\ producer = "again" => Held(Stream[next])

EffectsCounted == IsFiniteSet(inbox) /\ OneEffectPerEvent

PipeInv ==
    /\ LiveTypes
    /\ UnfinishedCounted
    /\ JoinsHold
    /\ StreamHeld
    /\ EffectsCounted

-----------------------------------------------------------------------------
(* Queues, and the workers that hold an event. *)

LEMMA PutLast ==
    ASSUME NEW D, NEW q \in Seq(D), NEW x \in D
    PROVE  /\ Append(q, x) \in Seq(D)
           /\ Len(q) \in Nat /\ Len(Append(q, x)) = Len(q) + 1
           /\ DOMAIN Append(q, x) = DOMAIN q \cup {Len(q) + 1}
           /\ Len(q) + 1 \notin DOMAIN q
           /\ \A i \in DOMAIN q : Append(q, x)[i] = q[i]
           /\ Append(q, x)[Len(q) + 1] = x
<1>1. /\ Append(q, x) \in Seq(D)
      /\ Len(q) \in Nat /\ Len(Append(q, x)) = Len(q) + 1
      /\ DOMAIN q = 1 .. Len(q)
      /\ \A i \in 1 .. Len(q) : Append(q, x)[i] = q[i]
      /\ Append(q, x)[Len(q) + 1] = x
  BY AppendProperties, LenProperties
<1>2. DOMAIN Append(q, x) = 1 .. (Len(q) + 1)
  BY <1>1, LenProperties
<1>3. QED
  BY <1>1, <1>2

LEMMA GetFirst ==
    ASSUME NEW D, NEW q \in Seq(D), q # <<>>
    PROVE  /\ Head(q) \in D
           /\ Tail(q) \in Seq(D)
           /\ Len(q) \in Nat /\ Len(Tail(q)) = Len(q) - 1
           /\ DOMAIN q = DOMAIN Tail(q) \cup {Len(q)}
           /\ Len(q) \notin DOMAIN Tail(q)
           /\ \A i \in DOMAIN q :
                 q[i] = Head(q) \/ \E j \in DOMAIN Tail(q) : Tail(q)[j] = q[i]
<1>1. /\ Len(q) \in Nat \ {0} /\ DOMAIN q = 1 .. Len(q)
      /\ Head(q) = q[1] /\ Head(q) \in D
      /\ Tail(q) \in Seq(D) /\ Len(Tail(q)) = Len(q) - 1
      /\ \A i \in 1 .. (Len(q) - 1) : Tail(q)[i] = q[i + 1]
  <2>1. Len(q) \in Nat /\ DOMAIN q = 1 .. Len(q) /\ (q # <<>> => Len(q) \in Nat \ {0})
    BY LenProperties, EmptySeq
  <2>2. Head(q) \in D /\ Tail(q) \in Seq(D) /\ Len(Tail(q)) = Len(q) - 1
        /\ \A i \in 1 .. Len(Tail(q)) : Tail(q)[i] = q[i + 1]
    BY HeadTailProperties
  <2>3. Head(q) = q[1]
    OBVIOUS
  <2>4. QED
    BY <2>1, <2>2, <2>3
<1>2. DOMAIN Tail(q) = 1 .. (Len(q) - 1)
  BY <1>1, LenProperties
<1>3. ASSUME NEW i \in DOMAIN q, i # 1
      PROVE  i - 1 \in DOMAIN Tail(q) /\ Tail(q)[i - 1] = q[i]
  BY <1>1, <1>2, <1>3
<1>4. \A i \in DOMAIN q : q[i] = Head(q) \/ \E j \in DOMAIN Tail(q) : Tail(q)[j] = q[i]
  BY <1>1, <1>3
<1>5. DOMAIN q = DOMAIN Tail(q) \cup {Len(q)} /\ Len(q) \notin DOMAIN Tail(q)
  BY <1>1, <1>2
<1>6. QED
  BY <1>1, <1>4, <1>5

LEMMA BusyFinite ==
    /\ IsFiniteSet(Busy) /\ Cardinality(Busy) \in Nat
    /\ \A w \in Workers :
          /\ Cardinality(Busy \cup {w}) =
                IF w \in Busy THEN Cardinality(Busy) ELSE Cardinality(Busy) + 1
          /\ Cardinality(Busy \ {w}) =
                IF w \in Busy THEN Cardinality(Busy) - 1 ELSE Cardinality(Busy)
<1>1. IsFiniteSet(Busy)
  <2>1. Busy \in SUBSET Workers
    BY DEF Busy
  <2>2. QED
    BY <2>1, FS_Subset, ConfigAssumption DEF ConfigAssumption
<1>2. QED
  BY <1>1, FS_CardinalityType, FS_AddElement, FS_RemoveElement

LEMMA NoneIsNoEvent == None \notin Live /\ Live \subseteq Event
  BY ConfigAssumption DEF ConfigAssumption, Live, Event

\* The next attempt of an event that may be retried, and the last of any other.
LEMMA NextAttempt ==
    ASSUME NEW e \in Live
    PROVE  /\ e.id \in Ids /\ e.attempt \in Nat
           /\ [e EXCEPT !.attempt = @ + 1].id = e.id
           /\ [e EXCEPT !.attempt = @ + 1] \in Event
           /\ e.id \notin Poison /\ e.attempt + 1 < MaxAttempts =>
                 [e EXCEPT !.attempt = @ + 1] \in Live
           /\ [e EXCEPT !.attempt = @ + 1] \in Dead
<1>1. e \in Event /\ (e.attempt = 0 \/ e.attempt < MaxAttempts)
  BY DEF Live
<1>2. /\ e.id \in Ids /\ e.attempt \in Nat
      /\ [e EXCEPT !.attempt = @ + 1].id = e.id
      /\ [e EXCEPT !.attempt = @ + 1].attempt = e.attempt + 1
      /\ [e EXCEPT !.attempt = @ + 1] \in Event
  <2>1. e.id \in Ids /\ e.attempt \in Nat
    BY <1>1 DEF Event
  <2>2. [e EXCEPT !.attempt = @ + 1] = [id |-> e.id, attempt |-> e.attempt + 1]
    BY <1>1 DEF Event
  <2>3. QED
    BY <2>1, <2>2 DEF Event
<1>3. MaxAttempts \in Nat
  BY ConfigAssumption DEF ConfigAssumption
<1> DEFINE n == [e EXCEPT !.attempt = @ + 1]
<1> HIDE DEF n
<1>4. n \in Event /\ n.id = e.id /\ n.attempt = e.attempt + 1
  BY <1>2 DEF n
<1>5. n \in Dead
  BY <1>1, <1>2, <1>3, <1>4 DEF Dead
<1>6. e.id \notin Poison /\ e.attempt + 1 < MaxAttempts => n \in Live
  BY <1>4 DEF Live
<1>7. QED
  BY <1>2, <1>5, <1>6 DEF n

LEMMA NewEvent ==
    ASSUME NEW e \in Ids
    PROVE  [id |-> e, attempt |-> 0] \in Live
  BY DEF Live, Event

\* Counting keeps the other counters.
LEMMA Counted ==
    ASSUME metrics \in Metrics, NEW n \in {"admitted", "processed", "duplicates"}
    PROVE  /\ Count(n) \in Metrics
           /\ \A m \in {"admitted", "processed", "duplicates"} :
                 /\ metrics[m] \in Nat
                 /\ Count(n)[m] = IF m = n THEN metrics[m] + 1 ELSE metrics[m]
<1>1. CASE n = "admitted"
  BY <1>1 DEF Metrics, Count
<1>2. CASE n = "processed"
  BY <1>2 DEF Metrics, Count
<1>3. CASE n = "duplicates"
  BY <1>3 DEF Metrics, Count
<1>4. QED
  BY <1>1, <1>2, <1>3

\* What the counts of a shard and of the work queue mean.
LEMMA UnfinishedOf ==
    ASSUME PipeInv
    PROVE  /\ \A s \in Shards :
                 /\ shardQueue[s] \in Seq(Live) /\ Len(shardQueue[s]) \in Nat
                 /\ shardUnfinished[s] \in Nat
                 /\ routing[s] \in Live \cup {None}
                 /\ routing[s] = None => shardUnfinished[s] = Len(shardQueue[s])
                 /\ routing[s] # None => shardUnfinished[s] = Len(shardQueue[s]) + 1
           /\ workQueue \in Seq(Live) /\ Len(workQueue) \in Nat
           /\ workUnfinished = Len(workQueue) + Cardinality(Busy)
<1>1. LiveTypes /\ UnfinishedCounted
  BY DEF PipeInv
<1>2. /\ workQueue \in Seq(Live) /\ Len(workQueue) \in Nat
      /\ workUnfinished = Len(workQueue) + Cardinality(Busy)
  BY <1>1, LenProperties DEF LiveTypes, UnfinishedCounted
<1>3. ASSUME NEW s \in Shards
      PROVE  /\ shardQueue[s] \in Seq(Live) /\ Len(shardQueue[s]) \in Nat
             /\ shardUnfinished[s] \in Nat
             /\ routing[s] \in Live \cup {None}
             /\ routing[s] = None => shardUnfinished[s] = Len(shardQueue[s])
             /\ routing[s] # None => shardUnfinished[s] = Len(shardQueue[s]) + 1
  <2>1. shardQueue[s] \in Seq(Live) /\ shardUnfinished[s] \in Nat
        /\ routing[s] \in Live \cup {None}
    BY <1>1 DEF LiveTypes
  <2>2. Len(shardQueue[s]) \in Nat
    BY <2>1, LenProperties
  <2>3. /\ routing[s] = None => shardUnfinished[s] = Len(shardQueue[s])
        /\ routing[s] # None => shardUnfinished[s] = Len(shardQueue[s]) + 1
    BY <1>1 DEF UnfinishedCounted
  <2>4. QED
    BY <2>1, <2>2, <2>3
<1>4. QED
  BY <1>2, <1>3

LEMMA PipeInit == Init => PipeInv
<1> SUFFICES ASSUME Init PROVE PipeInv
  OBVIOUS
<1>1. Busy = {} /\ Cardinality({}) = 0 /\ IsFiniteSet({})
  BY FS_EmptySet DEF Init, Busy
<1>2. Len(Stream) \in Nat
  BY ConfigAssumption, LenProperties DEF ConfigAssumption
<1>3. LiveTypes
  BY <1>1, <1>2 DEF Init, LiveTypes, Metrics
<1>4. UnfinishedCounted /\ JoinsHold
  BY <1>1 DEF Init, UnfinishedCounted, JoinsHold
<1>5. StreamHeld /\ EffectsCounted
  BY <1>1 DEF Init, StreamHeld, EffectsCounted, OneEffectPerEvent
<1>6. QED
  BY <1>3, <1>4, <1>5 DEF PipeInv

\* A step that holds on to every event it finds held.
LEMMA StillHeld ==
    ASSUME PipeInv, \A e \in Ids : Held(e) => Held(e)',
           next' = next, producer' = producer
    PROVE  StreamHeld'
<1>1. \A i \in 1 .. Len(Stream) : Stream[i] \in Ids
  BY ConfigAssumption DEF ConfigAssumption
<1>2. /\ next \in 1 .. (Len(Stream) + 1) /\ Len(Stream) \in Nat
      /\ producer # "loop" => next <= Len(Stream)
  BY ConfigAssumption, LenProperties DEF ConfigAssumption, PipeInv, LiveTypes, JoinsHold
<1>3. \A i \in 1 .. (next - 1) : Stream[i] \in Ids
  BY <1>1, <1>2
<1>4. ASSUME producer = "again" PROVE Stream[next] \in Ids
  <2>1. producer # "loop"
    BY <1>4
  <2>2. next <= Len(Stream) /\ next \in 1 .. (Len(Stream) + 1) /\ Len(Stream) \in Nat
    BY <1>2, <2>1
  <2>3. QED
    BY <1>1, <2>2
<1>5. QED
  BY <1>3, <1>4 DEF PipeInv, StreamHeld

-----------------------------------------------------------------------------
(* The producer. *)

LEMMA AdmitInv ==
    ASSUME PipeInv, Admit
    PROVE  PipeInv'
<1>0. PICK e : e = Stream[next]
  OBVIOUS
<1> DEFINE s == ShardOf[e]
           x == [id |-> e, attempt |-> 0]
<1>1. /\ producer \in {"put", "again"}
      /\ shardQueue' = [shardQueue EXCEPT ![s] = Append(@, x)]
      /\ shardUnfinished' = [shardUnfinished EXCEPT ![s] = @ + 1]
      /\ metrics' = Count("admitted")
      /\ \/ producer = "put" /\ producer' = "again" /\ next' = next
         \/ producer' = "loop" /\ next' = next + 1
      /\ UNCHANGED <<routing, workQueue, workUnfinished, working, backingOff, inbox, dlq, main>>
  BY <1>0 DEF Admit, workVars
<1>2. next \in 1 .. Len(Stream) /\ Len(Stream) \in Nat /\ main = "producer"
  <2>1. main = "producer" /\ next <= Len(Stream) /\ next \in 1 .. (Len(Stream) + 1)
    BY <1>1 DEF PipeInv, JoinsHold, LiveTypes
  <2>2. Len(Stream) \in Nat
    BY ConfigAssumption, LenProperties DEF ConfigAssumption
  <2>3. QED
    BY <2>1, <2>2
<1>3. e \in Ids /\ s \in Shards
  BY <1>0, <1>2, ConfigAssumption DEF ConfigAssumption
<1>4. x \in Live /\ x.id = e
  BY <1>3, NewEvent
<1> HIDE DEF x, s
<1>5. /\ shardQueue'[s] \in Seq(Live)
      /\ Len(shardQueue[s]) \in Nat /\ Len(shardQueue'[s]) = Len(shardQueue[s]) + 1
      /\ DOMAIN shardQueue'[s] = DOMAIN shardQueue[s] \cup {Len(shardQueue[s]) + 1}
      /\ \A i \in DOMAIN shardQueue[s] : shardQueue'[s][i] = shardQueue[s][i]
      /\ shardQueue'[s][Len(shardQueue[s]) + 1] = x
      /\ \A t \in Shards : t # s => shardQueue'[t] = shardQueue[t]
  <2>1. shardQueue[s] \in Seq(Live) /\ shardQueue'[s] = Append(shardQueue[s], x)
    BY <1>1, <1>3 DEF PipeInv, LiveTypes
  <2>2. \A t \in Shards : t # s => shardQueue'[t] = shardQueue[t]
    BY <1>1 DEF PipeInv, LiveTypes
  <2>3. QED
    BY <1>4, <2>1, <2>2, PutLast
<1>6. LiveTypes'
  <2>1. metrics' \in Metrics
    BY <1>1, Counted DEF PipeInv, LiveTypes
  <2>2. shardQueue' \in [Shards -> Seq(Live)]
    <3>1. \A t \in Shards : shardQueue'[t] \in Seq(Live)
      BY <1>5, UnfinishedOf
    <3>2. shardQueue' = [t \in Shards |-> shardQueue'[t]]
      BY <1>1 DEF PipeInv, LiveTypes
    <3>3. QED
      BY <3>1, <3>2
  <2>5. shardUnfinished' \in [Shards -> Nat]
    <3>1. shardUnfinished \in [Shards -> Nat]
      BY DEF PipeInv, LiveTypes
    <3>2. shardUnfinished[s] + 1 \in Nat
      BY <1>3, <3>1
    <3>3. QED
      BY <1>1, <3>1, <3>2
  <2>3. producer' \in {"loop", "put", "again"} /\ next' \in 1 .. (Len(Stream) + 1)
    <3>1. next' \in 1 .. (Len(Stream) + 1)
      <4>1. CASE next' = next
        BY <1>2, <4>1
      <4>2. CASE next' = next + 1
        BY <1>2, <4>2
      <4>3. QED
        BY <1>1, <4>1, <4>2
    <3>2. QED
      BY <1>1, <3>1
  <2>4. QED
    BY <1>1, <2>1, <2>2, <2>3, <2>5 DEF PipeInv, LiveTypes, Busy
<1>7. UnfinishedCounted'
  <2>1. \A t \in Shards :
            /\ routing'[t] = None => shardUnfinished'[t] = Len(shardQueue'[t])
            /\ routing'[t] # None => shardUnfinished'[t] = Len(shardQueue'[t]) + 1
    <3> SUFFICES ASSUME NEW t \in Shards
                 PROVE  /\ routing'[t] = None => shardUnfinished'[t] = Len(shardQueue'[t])
                        /\ routing'[t] # None =>
                              shardUnfinished'[t] = Len(shardQueue'[t]) + 1
      OBVIOUS
    <3>1. CASE t = s
      <4>1. shardUnfinished'[t] = shardUnfinished[t] + 1
        BY <1>1, <3>1 DEF PipeInv, LiveTypes
      <4>2. Len(shardQueue'[t]) = Len(shardQueue[t]) + 1
        BY <1>5, <3>1
      <4>3. QED
        BY <1>1, <4>1, <4>2, UnfinishedOf
    <3>2. CASE t # s
      <4>1. shardUnfinished'[t] = shardUnfinished[t] /\ shardQueue'[t] = shardQueue[t]
        BY <1>1, <1>5, <3>2 DEF PipeInv, LiveTypes
      <4>2. QED
        BY <1>1, <4>1, UnfinishedOf
    <3>3. QED
      BY <3>1, <3>2
  <2>2. QED
    BY <1>1, <2>1 DEF PipeInv, UnfinishedCounted, Busy
<1>8. JoinsHold'
  BY <1>1, <1>2 DEF PipeInv, JoinsHold
<1>9. \A o : Held(o) => Held(o)'
  <2> SUFFICES ASSUME NEW o, Held(o) PROVE Held(o)'
    OBVIOUS
  <2>1. CASE \E t \in Shards : \E i \in DOMAIN shardQueue[t] : shardQueue[t][i].id = o
    <3>1. PICK t \in Shards : \E j \in DOMAIN shardQueue[t] : shardQueue[t][j].id = o
      BY <2>1
    <3>2. PICK i \in DOMAIN shardQueue[t] : shardQueue[t][i].id = o
      BY <3>1
    <3>3. i \in DOMAIN shardQueue'[t] /\ shardQueue'[t][i].id = o
      BY <1>5, <3>2
    <3>4. QED
      BY <3>3 DEF Held
  <2>2. QED
    BY <1>1, <2>1 DEF Held
<1>10. Held(e)'
  <2>1. Len(shardQueue[s]) + 1 \in DOMAIN shardQueue'[s]
        /\ shardQueue'[s][Len(shardQueue[s]) + 1].id = e
    BY <1>4, <1>5
  <2>2. \E t \in Shards : \E i \in DOMAIN shardQueue'[t] : shardQueue'[t][i].id = e
    BY <1>3, <2>1
  <2>3. QED
    BY <2>2 DEF Held
<1>11. StreamHeld'
  <2>1. CASE next' = next
    BY <1>0, <1>9, <1>10, <2>1 DEF PipeInv, StreamHeld
  <2>2. CASE producer' = "loop" /\ next' = next + 1
    <3>1. \A i \in 1 .. (next' - 1) : i \in 1 .. (next - 1) \/ i = next
      BY <1>2, <2>2
    <3>2. \A i \in 1 .. (next' - 1) : Held(Stream[i])'
      <4>1. \A i \in 1 .. (next - 1) : Held(Stream[i])'
        BY <1>9 DEF PipeInv, StreamHeld
      <4>2. QED
        BY <1>0, <1>10, <3>1, <4>1
    <3>3. QED
      BY <2>2, <3>2 DEF StreamHeld
  <2>3. QED
    BY <1>1, <2>1, <2>2
<1>12. EffectsCounted'
  <2>1. metrics'.processed = metrics.processed
    <3>1. metrics \in Metrics
      BY DEF PipeInv, LiveTypes
    <3>2. Count("admitted")["processed"] = metrics["processed"]
      BY <3>1, Counted
    <3>3. QED
      BY <1>1, <3>2
  <2>2. QED
    BY <1>1, <2>1 DEF PipeInv, EffectsCounted, OneEffectPerEvent
<1>13. QED
  BY <1>6, <1>7, <1>8, <1>11, <1>12 DEF PipeInv

\* The producer's other steps and the joins move no event.
LEMMA RunInv ==
    ASSUME PipeInv, Produce \/ ProducerReturns \/ ShardsJoined \/ WorkJoined \/ UNCHANGED vars
    PROVE  PipeInv'
<1>1. UNCHANGED <<next, shardQueue, shardUnfinished, routing, workQueue, workUnfinished,
                  working, backingOff, inbox, dlq, metrics>>
  BY DEF Produce, ProducerReturns, ShardsJoined, WorkJoined, vars, shardVars, workVars,
         resultVars
<1>2. \A o : Held(o)' <=> Held(o)
  BY <1>1 DEF Held
<1>3. LiveTypes' /\ JoinsHold'
  <2>1. CASE Produce
    BY <1>1, <2>1 DEF Produce, PipeInv, LiveTypes, Busy, JoinsHold
  <2>2. CASE ProducerReturns
    BY <1>1, <2>2 DEF ProducerReturns, PipeInv, LiveTypes, Busy, JoinsHold
  <2>3. CASE ShardsJoined
    BY <1>1, <2>3 DEF ShardsJoined, PipeInv, LiveTypes, Busy, JoinsHold
  <2>4. CASE WorkJoined
    BY <1>1, <2>4 DEF WorkJoined, PipeInv, LiveTypes, Busy, JoinsHold
  <2>5. CASE UNCHANGED vars
    BY <1>1, <2>5 DEF vars, PipeInv, LiveTypes, Busy, JoinsHold
  <2>6. QED
    BY <2>1, <2>2, <2>3, <2>4, <2>5
<1>4. UnfinishedCounted' /\ EffectsCounted'
  BY <1>1 DEF PipeInv, UnfinishedCounted, Busy, EffectsCounted, OneEffectPerEvent
<1>5. StreamHeld'
  <2>1. producer' = "again" => producer = "again"
    BY DEF Produce, ProducerReturns, ShardsJoined, WorkJoined, vars
  <2>2. QED
    BY <1>1, <1>2, <2>1 DEF PipeInv, StreamHeld
<1>6. QED
  BY <1>3, <1>4, <1>5 DEF PipeInv

-----------------------------------------------------------------------------
(* The routers. *)

LEMMA RouterGetInv ==
    ASSUME PipeInv, Running, NEW s \in Shards, RouterGet(s)
    PROVE  PipeInv'
<1> DEFINE q == shardQueue[s]
<1>1. /\ routing[s] = None /\ q # <<>>
      /\ routing' = [routing EXCEPT ![s] = Head(q)]
      /\ shardQueue' = [shardQueue EXCEPT ![s] = Tail(q)]
      /\ UNCHANGED <<shardUnfinished, producer, next, main, workQueue, workUnfinished, working,
                     backingOff, inbox, dlq, metrics>>
  BY DEF RouterGet, runVars, workVars, resultVars
<1>2. q \in Seq(Live)
  BY DEF PipeInv, LiveTypes
<1> HIDE DEF q
<1>3. /\ Head(q) \in Live /\ Tail(q) \in Seq(Live)
      /\ Len(q) \in Nat /\ Len(Tail(q)) = Len(q) - 1
      /\ \A i \in DOMAIN q : q[i] = Head(q) \/ \E j \in DOMAIN Tail(q) : Tail(q)[j] = q[i]
  BY <1>1, <1>2, GetFirst
<1>4. /\ routing'[s] = Head(q) /\ routing'[s] # None /\ shardQueue'[s] = Tail(q)
      /\ \A t \in Shards : t # s => routing'[t] = routing[t] /\ shardQueue'[t] = shardQueue[t]
  BY <1>1, <1>3, NoneIsNoEvent DEF PipeInv, LiveTypes
<1>5. LiveTypes' /\ JoinsHold'
  BY <1>1, <1>3 DEF PipeInv, LiveTypes, Busy, JoinsHold
<1>6. UnfinishedCounted'
  <2>1. \A t \in Shards :
            /\ routing'[t] = None => shardUnfinished'[t] = Len(shardQueue'[t])
            /\ routing'[t] # None => shardUnfinished'[t] = Len(shardQueue'[t]) + 1
    <3> SUFFICES ASSUME NEW t \in Shards
                 PROVE  /\ routing'[t] = None => shardUnfinished'[t] = Len(shardQueue'[t])
                        /\ routing'[t] # None =>
                              shardUnfinished'[t] = Len(shardQueue'[t]) + 1
      OBVIOUS
    <3>1. CASE t = s
      <4>1. shardUnfinished'[t] = Len(q) /\ Len(shardQueue'[t]) = Len(q) - 1 /\ Len(q) \in Nat
        BY <1>1, <1>3, <1>4, <3>1, UnfinishedOf DEF q
      <4>2. QED
        BY <1>4, <3>1, <4>1
    <3>2. CASE t # s
      <4>1. /\ shardUnfinished'[t] = shardUnfinished[t] /\ shardQueue'[t] = shardQueue[t]
            /\ routing'[t] = routing[t]
        BY <1>1, <1>4, <3>2
      <4>2. QED
        BY <4>1, UnfinishedOf
    <3>3. QED
      BY <3>1, <3>2
  <2>2. QED
    BY <1>1, <2>1 DEF PipeInv, UnfinishedCounted, Busy
<1>7. ASSUME NEW o, Held(o) PROVE Held(o)'
  <2>1. CASE \E t \in Shards : \E i \in DOMAIN shardQueue[t] : shardQueue[t][i].id = o
    <3>1. PICK t \in Shards : \E j \in DOMAIN shardQueue[t] : shardQueue[t][j].id = o
      BY <2>1
    <3>2. PICK i \in DOMAIN shardQueue[t] : shardQueue[t][i].id = o
      BY <3>1
    <3>3. CASE t = s /\ q[i] = Head(q)
      BY <1>4, <3>2, <3>3 DEF Held, q
    <3>4. CASE t = s /\ \E j \in DOMAIN Tail(q) : Tail(q)[j] = q[i]
      BY <1>4, <3>2, <3>4 DEF Held, q
    <3>5. CASE t # s
      BY <1>4, <3>2, <3>5 DEF Held
    <3>6. QED
      BY <1>3, <3>2, <3>3, <3>4, <3>5 DEF q
  <2>2. CASE \E t \in Shards : routing[t] # None /\ routing[t].id = o
    BY <1>1, <1>4, <2>2 DEF Held
  <2>3. QED
    BY <1>1, <1>7, <2>1, <2>2 DEF Held
<1>8. StreamHeld'
  BY <1>1, <1>7, StillHeld
<1>9. EffectsCounted'
  BY <1>1 DEF PipeInv, EffectsCounted, OneEffectPerEvent
<1>10. QED
  BY <1>5, <1>6, <1>8, <1>9 DEF PipeInv

LEMMA RouterPutInv ==
    ASSUME PipeInv, Running, NEW s \in Shards, RouterPut(s)
    PROVE  PipeInv'
<1> DEFINE x == routing[s]
<1>1. /\ x # None
      /\ workQueue' = Append(workQueue, x)
      /\ workUnfinished' = workUnfinished + 1
      /\ routing' = [routing EXCEPT ![s] = None]
      /\ shardUnfinished' = [shardUnfinished EXCEPT ![s] = @ - 1]
      /\ UNCHANGED <<shardQueue, working, backingOff, producer, next, main, inbox, dlq, metrics>>
  BY DEF RouterPut, runVars, resultVars
<1>2. x \in Live /\ workQueue \in Seq(Live)
  BY <1>1 DEF PipeInv, LiveTypes
<1>3. Len(shardQueue[s]) \in Nat /\ shardUnfinished[s] = Len(shardQueue[s]) + 1
  BY <1>1, UnfinishedOf
<1> HIDE DEF x
<1>4. /\ workQueue' \in Seq(Live)
      /\ Len(workQueue) \in Nat /\ Len(workQueue') = Len(workQueue) + 1
      /\ DOMAIN workQueue' = DOMAIN workQueue \cup {Len(workQueue) + 1}
      /\ \A i \in DOMAIN workQueue : workQueue'[i] = workQueue[i]
      /\ workQueue'[Len(workQueue) + 1] = x
  BY <1>1, <1>2, PutLast
<1>5. main \in {"producer", "shards"}
  <2>1. shardUnfinished[s] # 0
    BY <1>3
  <2>2. QED
    BY <2>1 DEF PipeInv, LiveTypes, JoinsHold
<1>6. LiveTypes' /\ JoinsHold'
  <2>1. shardUnfinished' \in [Shards -> Nat]
    <3>1. shardUnfinished \in [Shards -> Nat]
      BY DEF PipeInv, LiveTypes
    <3>2. shardUnfinished[s] - 1 \in Nat
      BY <1>3
    <3>3. QED
      BY <1>1, <3>1, <3>2
  <2>2. routing' \in [Shards -> Live \cup {None}] /\ workUnfinished' \in Nat
    <3>1. workUnfinished \in Nat
      BY DEF PipeInv, LiveTypes
    <3>2. workUnfinished + 1 \in Nat
      BY <3>1
    <3>3. QED
      BY <1>1, <3>2 DEF PipeInv, LiveTypes
  <2>3. LiveTypes'
    BY <1>1, <1>4, <2>1, <2>2 DEF PipeInv, LiveTypes, Busy
  <2>4. JoinsHold'
    BY <1>1, <1>5 DEF PipeInv, JoinsHold
  <2>5. QED
    BY <2>3, <2>4
<1>7. UnfinishedCounted'
  <2>1. \A t \in Shards :
            /\ routing'[t] = None => shardUnfinished'[t] = Len(shardQueue'[t])
            /\ routing'[t] # None => shardUnfinished'[t] = Len(shardQueue'[t]) + 1
    <3> SUFFICES ASSUME NEW t \in Shards
                 PROVE  /\ routing'[t] = None => shardUnfinished'[t] = Len(shardQueue'[t])
                        /\ routing'[t] # None =>
                              shardUnfinished'[t] = Len(shardQueue'[t]) + 1
      OBVIOUS
    <3>1. CASE t = s
      <4>1. shardUnfinished'[t] = shardUnfinished[t] - 1 /\ routing'[t] = None
        BY <1>1, <3>1 DEF PipeInv, LiveTypes
      <4>2. QED
        BY <1>1, <1>3, <3>1, <4>1
    <3>2. CASE t # s
      <4>1. shardUnfinished'[t] = shardUnfinished[t] /\ routing'[t] = routing[t]
        BY <1>1, <3>2 DEF PipeInv, LiveTypes
      <4>2. QED
        BY <1>1, <4>1, UnfinishedOf
    <3>3. QED
      BY <3>1, <3>2
  <2>2. workUnfinished' = Len(workQueue') + Cardinality(Busy)
    BY <1>1, <1>4, BusyFinite, UnfinishedOf
  <2>3. QED
    BY <1>1, <2>1, <2>2 DEF UnfinishedCounted, Busy
<1>8. ASSUME NEW o, Held(o) PROVE Held(o)'
  <2>1. CASE \E t \in Shards : routing[t] # None /\ routing[t].id = o
    <3>1. PICK t \in Shards : routing[t] # None /\ routing[t].id = o
      BY <2>1
    <3>2. CASE t = s
      <4>1. Len(workQueue) + 1 \in DOMAIN workQueue'
            /\ workQueue'[Len(workQueue) + 1].id = o
        BY <1>4, <3>1, <3>2 DEF x
      <4>2. QED
        BY <4>1 DEF Held
    <3>3. CASE t # s
      <4>1. routing'[t] = routing[t]
        BY <1>1, <3>3 DEF PipeInv, LiveTypes
      <4>2. QED
        BY <3>1, <4>1 DEF Held
    <3>4. QED
      BY <3>2, <3>3
  <2>2. CASE \E i \in DOMAIN workQueue : workQueue[i].id = o
    BY <1>4, <2>2 DEF Held
  <2>3. QED
    BY <1>1, <1>8, <2>1, <2>2 DEF Held
<1>9. StreamHeld'
  BY <1>1, <1>8, StillHeld
<1>10. EffectsCounted'
  BY <1>1 DEF PipeInv, EffectsCounted, OneEffectPerEvent
<1>11. QED
  BY <1>6, <1>7, <1>9, <1>10 DEF PipeInv

-----------------------------------------------------------------------------
(* The workers. *)

\* A worker takes an event in hand or puts it down.
LEMMA InHand ==
    ASSUME PipeInv, NEW w \in Workers, NEW x \in Live \cup {None},
           working' = [working EXCEPT ![w] = x]
    PROVE  /\ working' \in [Workers -> Live \cup {None}]
           /\ working'[w] = x
           /\ \A v \in Workers : v # w => working'[v] = working[v]
           /\ x # None => Busy' = Busy \cup {w}
           /\ x = None => Busy' = Busy \ {w}
           /\ w \in Busy <=> working[w] # None
<1>1. working \in [Workers -> Live \cup {None}]
  BY DEF PipeInv, LiveTypes
<1>2. /\ working' \in [Workers -> Live \cup {None}]
      /\ working'[w] = x
      /\ \A v \in Workers : v # w => working'[v] = working[v]
  BY <1>1
<1>3. QED
  BY <1>2 DEF Busy

LEMMA WorkerGetInv ==
    ASSUME PipeInv, Running, NEW w \in Workers, WorkerGet(w)
    PROVE  PipeInv'
<1> DEFINE q == workQueue
           x == Head(q)
<1>1. /\ working[w] = None /\ q # <<>>
      /\ working' = [working EXCEPT ![w] = x]
      /\ workQueue' = Tail(q)
      /\ UNCHANGED <<workUnfinished, backingOff, producer, next, main, shardQueue,
                     shardUnfinished, routing, inbox, dlq, metrics>>
  BY DEF WorkerGet, runVars, shardVars, resultVars
<1>2. q \in Seq(Live) /\ Len(q) \in Nat
      /\ workUnfinished = Len(q) + Cardinality(Busy)
  BY UnfinishedOf
<1>3. /\ x \in Live /\ Tail(q) \in Seq(Live) /\ Len(Tail(q)) = Len(q) - 1
      /\ \A i \in DOMAIN q : q[i] = x \/ \E j \in DOMAIN Tail(q) : Tail(q)[j] = q[i]
  BY <1>1, <1>2, GetFirst
<1>4. x # None
  BY <1>3, NoneIsNoEvent
<1> HIDE DEF x
<1>5. /\ working' \in [Workers -> Live \cup {None}]
      /\ working'[w] = x
      /\ \A v \in Workers : v # w => working'[v] = working[v]
      /\ Busy' = Busy \cup {w} /\ w \notin Busy
  BY <1>1, <1>3, <1>4, InHand
<1>6. LiveTypes'
  <2>1. \A v \in backingOff' : v \in Busy' /\ working'[v] = working[v]
    BY <1>1, <1>5 DEF PipeInv, LiveTypes, Busy
  <2>2. QED
    BY <1>1, <1>3, <1>5, <2>1 DEF PipeInv, LiveTypes
<1>7. UnfinishedCounted'
  <2>1. Cardinality(Busy') = Cardinality(Busy) + 1 /\ Cardinality(Busy) \in Nat
    BY <1>5, BusyFinite
  <2>2. workUnfinished' = Len(workQueue') + Cardinality(Busy')
    BY <1>1, <1>2, <1>3, <2>1
  <2>3. QED
    BY <1>1, <2>2 DEF PipeInv, UnfinishedCounted
<1>8. ASSUME NEW o, Held(o) PROVE Held(o)'
  <2>1. CASE \E i \in DOMAIN q : q[i].id = o
    <3>1. PICK i \in DOMAIN q : q[i].id = o
      BY <2>1
    <3>2. CASE q[i] = x
      BY <1>4, <1>5, <3>1, <3>2 DEF Held
    <3>3. CASE \E j \in DOMAIN Tail(q) : Tail(q)[j] = q[i]
      BY <1>1, <3>1, <3>3 DEF Held
    <3>4. QED
      BY <1>3, <3>1, <3>2, <3>3
  <2>2. CASE \E v \in Workers : working[v] # None /\ working[v].id = o
    BY <1>1, <1>5, <2>2 DEF Held
  <2>3. QED
    BY <1>1, <1>8, <2>1, <2>2 DEF Held
<1>9. StreamHeld'
  BY <1>1, <1>8, StillHeld
<1>10. JoinsHold' /\ EffectsCounted'
  BY <1>1 DEF PipeInv, JoinsHold, EffectsCounted, OneEffectPerEvent
<1>11. QED
  BY <1>6, <1>7, <1>9, <1>10 DEF PipeInv

\* Whatever the outcome, the handler that reports it is done with its event.
LEMMA TaskDoneInv ==
    ASSUME PipeInv, Running, NEW w \in Workers, Processing(w), TaskDone(w),
           inbox \subseteq inbox', inbox' \subseteq Ids,
           dlq' \in Seq(Dead),
           \A i \in DOMAIN dlq : i \in DOMAIN dlq' /\ dlq'[i] = dlq[i],
           \/ working[w].id \in inbox'
           \/ \E i \in DOMAIN dlq' : dlq'[i].id = working[w].id,
           metrics' \in Metrics, EffectsCounted'
    PROVE  PipeInv'
<1>1. /\ working[w] # None /\ w \notin backingOff
      /\ working' = [working EXCEPT ![w] = None]
      /\ workUnfinished' = workUnfinished - 1
      /\ UNCHANGED <<workQueue, backingOff, producer, next, main, shardQueue,
                     shardUnfinished, routing>>
  BY DEF Processing, TaskDone, runVars, shardVars
<1>2. /\ working' \in [Workers -> Live \cup {None}]
      /\ \A v \in Workers : v # w => working'[v] = working[v]
      /\ Busy' = Busy \ {w} /\ w \in Busy
  BY <1>1, InHand
<1>3. /\ workUnfinished = Len(workQueue) + Cardinality(Busy) /\ Len(workQueue) \in Nat
      /\ Cardinality(Busy') = Cardinality(Busy) - 1
      /\ Cardinality(Busy) \in Nat /\ Cardinality(Busy') \in Nat
  <2>1. Cardinality(Busy \ {w}) = Cardinality(Busy) - 1
    BY <1>2, BusyFinite
  <2>2. IsFiniteSet(Busy \ {w})
    BY BusyFinite, FS_RemoveElement
  <2>3. Cardinality(Busy \ {w}) \in Nat
    BY <2>2, FS_CardinalityType
  <2>4. QED
    BY <1>2, <2>1, <2>3, BusyFinite, UnfinishedOf
<1>4. workUnfinished' = Len(workQueue') + Cardinality(Busy') /\ workUnfinished' \in Nat
  <2>1. Len(workQueue') = Len(workQueue)
    BY <1>1
  <2>2. QED
    BY <1>1, <1>3, <2>1
<1>5. LiveTypes'
  <2>1. \A v \in backingOff' : v \in Busy' /\ working'[v] = working[v]
    BY <1>1, <1>2 DEF PipeInv, LiveTypes, Busy
  <2>2. QED
    BY <1>1, <1>2, <1>4, <2>1 DEF PipeInv, LiveTypes
<1>6. UnfinishedCounted'
  BY <1>1, <1>4 DEF PipeInv, UnfinishedCounted
<1>7. JoinsHold'
  BY <1>1 DEF PipeInv, JoinsHold, Running
<1>8. ASSUME NEW o, Held(o) PROVE Held(o)'
  <2>1. CASE \E v \in Workers : working[v] # None /\ working[v].id = o
    <3>1. PICK v \in Workers : working[v] # None /\ working[v].id = o
      BY <2>1
    <3>2. CASE v = w
      BY <3>1, <3>2 DEF Held
    <3>3. CASE v # w
      BY <1>2, <3>1, <3>3 DEF Held
    <3>4. QED
      BY <3>2, <3>3
  <2>2. CASE o \in inbox \/ \E i \in DOMAIN dlq : dlq[i].id = o
    BY <2>2 DEF Held
  <2>3. QED
    BY <1>1, <1>8, <2>1, <2>2 DEF Held
<1>9. StreamHeld'
  BY <1>1, <1>8, StillHeld
<1>10. QED
  BY <1>5, <1>6, <1>7, <1>9 DEF PipeInv

LEMMA ApplyInv ==
    ASSUME PipeInv, Running, NEW w \in Workers, Apply(w)
    PROVE  PipeInv'
<1> DEFINE e == working[w].id
           n == IF e \in inbox THEN "duplicates" ELSE "processed"
<1>1. /\ Processing(w) /\ TaskDone(w) /\ e \notin Poison
      /\ inbox' = inbox \cup {e} /\ dlq' = dlq
      /\ metrics' = Count(n)
  BY DEF Apply
<1>2. e \in Ids
  <2>1. working[w] \in Live
    BY <1>1 DEF PipeInv, LiveTypes, Processing
  <2>2. QED
    BY <2>1, NextAttempt
<1>3. metrics \in Metrics /\ inbox \subseteq Ids /\ dlq \in Seq(Dead)
  BY DEF PipeInv, LiveTypes
<1>4. /\ metrics' \in Metrics
      /\ metrics'.processed =
            IF e \in inbox THEN metrics.processed ELSE metrics.processed + 1
  <2>1. n \in {"admitted", "processed", "duplicates"} /\ (n = "processed" <=> e \notin inbox)
    OBVIOUS
  <2> HIDE DEF n
  <2>2. /\ Count(n) \in Metrics
        /\ Count(n)["processed"] =
              IF e \in inbox THEN metrics["processed"] ELSE metrics["processed"] + 1
    BY <1>3, <2>1, Counted
  <2>3. QED
    BY <1>1, <2>2
<1>5. EffectsCounted'
  <2>1. IsFiniteSet(inbox) /\ metrics.processed = Cardinality(inbox) /\ inbox \cap Poison = {}
    BY DEF PipeInv, EffectsCounted, OneEffectPerEvent
  <2>2. /\ IsFiniteSet(inbox \cup {e})
        /\ Cardinality(inbox \cup {e}) =
              IF e \in inbox THEN Cardinality(inbox) ELSE Cardinality(inbox) + 1
    BY <2>1, FS_AddElement
  <2>3. metrics'.processed = Cardinality(inbox')
    <3>1. Cardinality(inbox) \in Nat
      BY <2>1, FS_CardinalityType
    <3>2. CASE e \in inbox
      BY <1>1, <1>4, <2>1, <2>2, <3>1, <3>2
    <3>3. CASE e \notin inbox
      BY <1>1, <1>4, <2>1, <2>2, <3>1, <3>3
    <3>4. QED
      BY <3>2, <3>3
  <2>4. QED
    BY <1>1, <2>1, <2>2, <2>3 DEF EffectsCounted, OneEffectPerEvent
<1>6. QED
  BY <1>1, <1>2, <1>3, <1>4, <1>5, TaskDoneInv

LEMMA QuarantineInv ==
    ASSUME PipeInv, Running, NEW w \in Workers, Processing(w), Quarantine(w)
    PROVE  PipeInv'
<1>1. working[w] \in Live
  BY DEF PipeInv, LiveTypes, Processing
<1> DEFINE x == [working[w] EXCEPT !.attempt = @ + 1]
<1>2. x \in Dead /\ x.id = working[w].id
  BY <1>1, NextAttempt
<1>3. TaskDone(w) /\ dlq' = Append(dlq, x) /\ inbox' = inbox /\ metrics' = metrics
  BY DEF Quarantine
<1>4. dlq \in Seq(Dead) /\ inbox \subseteq Ids /\ metrics \in Metrics /\ EffectsCounted
  BY DEF PipeInv, LiveTypes
<1> HIDE DEF x
<1>5. /\ dlq' \in Seq(Dead)
      /\ \A i \in DOMAIN dlq : i \in DOMAIN dlq' /\ dlq'[i] = dlq[i]
      /\ Len(dlq) + 1 \in DOMAIN dlq' /\ dlq'[Len(dlq) + 1] = x
  BY <1>2, <1>3, <1>4, PutLast
<1>6. \E i \in DOMAIN dlq' : dlq'[i].id = working[w].id
  BY <1>2, <1>5
<1>7. EffectsCounted'
  BY <1>3, <1>4 DEF EffectsCounted, OneEffectPerEvent
<1>8. QED
  BY <1>3, <1>4, <1>5, <1>6, <1>7, TaskDoneInv

\* A failed worker with an attempt left sleeps with the event in hand.
LEMMA BackoffInv ==
    ASSUME PipeInv, NEW w \in Workers, Processing(w), working[w].id \notin Poison,
           ~Exhausted(working[w]), backingOff' = backingOff \cup {w},
           UNCHANGED <<workQueue, workUnfinished, working, runVars, shardVars, resultVars>>
    PROVE  PipeInv'
<1>1. UNCHANGED <<producer, next, main, shardQueue, shardUnfinished, routing, workQueue,
                  workUnfinished, working, inbox, dlq, metrics>>
  BY DEF runVars, shardVars, resultVars
<1>2. working[w] \in Live /\ working[w].attempt \in Nat /\ MaxAttempts \in Nat
  <2>1. working[w] \in Live
    BY DEF PipeInv, LiveTypes, Processing
  <2>2. QED
    BY <2>1, NextAttempt, ConfigAssumption DEF ConfigAssumption
<1>3. working[w].attempt + 1 < MaxAttempts
  BY <1>2 DEF Exhausted
<1>4. w \in Busy
  BY DEF Processing, Busy
<1>5. LiveTypes'
  BY <1>1, <1>3, <1>4 DEF PipeInv, LiveTypes, Busy
<1>6. UnfinishedCounted' /\ JoinsHold' /\ EffectsCounted'
  BY <1>1 DEF PipeInv, UnfinishedCounted, Busy, JoinsHold, EffectsCounted, OneEffectPerEvent
<1>7. StreamHeld'
  <2>1. \A o : Held(o) => Held(o)'
    BY <1>1 DEF Held
  <2>2. QED
    BY <1>1, <2>1, StillHeld
<1>8. QED
  BY <1>5, <1>6, <1>7 DEF PipeInv

LEMMA RetryPutInv ==
    ASSUME PipeInv, Running, NEW w \in Workers, RetryPut(w)
    PROVE  PipeInv'
<1> DEFINE x == [working[w] EXCEPT !.attempt = @ + 1]
<1>1. /\ w \in backingOff
      /\ workQueue' = Append(workQueue, x)
      /\ backingOff' = backingOff \ {w}
      /\ working' = [working EXCEPT ![w] = None]
      /\ UNCHANGED <<workUnfinished, producer, next, main, shardQueue, shardUnfinished,
                     routing, inbox, dlq, metrics>>
  BY DEF RetryPut, runVars, shardVars, resultVars
<1>2. /\ working[w] \in Live /\ working[w].id \notin Poison
      /\ working[w].attempt + 1 < MaxAttempts /\ w \in Busy
  BY <1>1 DEF PipeInv, LiveTypes, Busy
<1>3. x \in Live /\ x.id = working[w].id
  BY <1>2, NextAttempt
<1> HIDE DEF x
<1>4. /\ workQueue' \in Seq(Live)
      /\ Len(workQueue) \in Nat /\ Len(workQueue') = Len(workQueue) + 1
      /\ DOMAIN workQueue' = DOMAIN workQueue \cup {Len(workQueue) + 1}
      /\ \A i \in DOMAIN workQueue : workQueue'[i] = workQueue[i]
      /\ workQueue'[Len(workQueue) + 1] = x
  BY <1>1, <1>3, PutLast, UnfinishedOf
<1>5. /\ working' \in [Workers -> Live \cup {None}]
      /\ \A v \in Workers : v # w => working'[v] = working[v]
      /\ Busy' = Busy \ {w}
  BY <1>1, InHand
<1>6. LiveTypes'
  <2>1. \A v \in backingOff' : v \in backingOff /\ v \in Busy' /\ working'[v] = working[v]
    BY <1>1, <1>5 DEF PipeInv, LiveTypes, Busy
  <2>2. QED
    BY <1>1, <1>4, <1>5, <2>1 DEF PipeInv, LiveTypes
<1>7. UnfinishedCounted'
  <2>1. Cardinality(Busy') = Cardinality(Busy) - 1 /\ Cardinality(Busy) \in Nat
    BY <1>2, <1>5, BusyFinite
  <2>2. workUnfinished' = Len(workQueue') + Cardinality(Busy')
    BY <1>1, <1>4, <2>1, UnfinishedOf
  <2>3. QED
    BY <1>1, <2>2 DEF PipeInv, UnfinishedCounted
<1>8. ASSUME NEW o, Held(o) PROVE Held(o)'
  <2>1. CASE \E v \in Workers : working[v] # None /\ working[v].id = o
    <3>1. PICK v \in Workers : working[v] # None /\ working[v].id = o
      BY <2>1
    <3>2. CASE v = w
      <4>1. Len(workQueue) + 1 \in DOMAIN workQueue'
            /\ workQueue'[Len(workQueue) + 1].id = o
        BY <1>3, <1>4, <3>1, <3>2
      <4>2. QED
        BY <4>1 DEF Held
    <3>3. CASE v # w
      BY <1>5, <3>1, <3>3 DEF Held
    <3>4. QED
      BY <3>2, <3>3
  <2>2. CASE \E i \in DOMAIN workQueue : workQueue[i].id = o
    BY <1>4, <2>2 DEF Held
  <2>3. QED
    BY <1>1, <1>8, <2>1, <2>2 DEF Held
<1>9. StreamHeld'
  BY <1>1, <1>8, StillHeld
<1>10. JoinsHold' /\ EffectsCounted'
  BY <1>1 DEF PipeInv, JoinsHold, EffectsCounted, OneEffectPerEvent
<1>11. QED
  BY <1>6, <1>7, <1>9, <1>10 DEF PipeInv

-----------------------------------------------------------------------------
(* Copies in flight.  A step moves one, lets one in or ends one. *)

ShardCopy(c) == \E s \in Shards : \E i \in DOMAIN shardQueue[s] : c = <<"shard", s, i>>
RouterCopy(c) == \E s \in Shards : routing[s] # None /\ c = <<"router", s>>
WorkCopy(c) == \E i \in DOMAIN workQueue : c = <<"work", i>>
WorkerCopy(c) == \E w \in Busy : c = <<"worker", w>>

IsCopy(c) == ShardCopy(c) \/ RouterCopy(c) \/ WorkCopy(c) \/ WorkerCopy(c)

LEMMA Copies ==
    \A c : (c \in InFlight <=> IsCopy(c)) /\ (c \in InFlight' <=> IsCopy(c)')
<1>1. ASSUME NEW c PROVE c \in InFlight <=> IsCopy(c)
  <2> DEFINE S == UNION {{<<"shard", s, i>> : i \in DOMAIN shardQueue[s]} : s \in Shards}
             R == {<<"router", s>> : s \in {r \in Shards : routing[r] # None}}
             Q == {<<"work", i>> : i \in DOMAIN workQueue}
             W == {<<"worker", w>> : w \in {v \in Workers : working[v] # None}}
  <2>1. c \in S <=> ShardCopy(c)
    BY DEF ShardCopy
  <2>2. c \in R <=> RouterCopy(c)
    BY DEF RouterCopy
  <2>3. c \in Q <=> WorkCopy(c)
    BY DEF WorkCopy
  <2>4. c \in W <=> WorkerCopy(c)
    BY DEF WorkerCopy, Busy
  <2>5. InFlight = S \cup R \cup Q \cup W
    BY DEF InFlight
  <2> HIDE DEF S, R, Q, W
  <2>6. QED
    BY <2>1, <2>2, <2>3, <2>4, <2>5 DEF IsCopy
<1>2. ASSUME NEW c PROVE c \in InFlight' <=> IsCopy(c)'
  <2> DEFINE S == UNION {{<<"shard", s, i>> : i \in DOMAIN shardQueue'[s]} : s \in Shards}
             R == {<<"router", s>> : s \in {r \in Shards : routing'[r] # None}}
             Q == {<<"work", i>> : i \in DOMAIN workQueue'}
             W == {<<"worker", w>> : w \in {v \in Workers : working'[v] # None}}
  <2>1. c \in S <=> ShardCopy(c)'
    BY DEF ShardCopy
  <2>2. c \in R <=> RouterCopy(c)'
    BY DEF RouterCopy
  <2>3. c \in Q <=> WorkCopy(c)'
    BY DEF WorkCopy
  <2>4. c \in W <=> WorkerCopy(c)'
    BY DEF WorkerCopy, Busy
  <2>5. InFlight' = S \cup R \cup Q \cup W
    BY DEF InFlight
  <2> HIDE DEF S, R, Q, W
  <2>6. QED
    BY <2>1, <2>2, <2>3, <2>4, <2>5 DEF IsCopy
<1>3. QED
  BY <1>1, <1>2

LEMMA KindsDiffer ==
    ASSUME NEW s, NEW i, NEW w
    PROVE  /\ \A c : c = <<"shard", s, i>> => ~RouterCopy(c) /\ ~WorkCopy(c) /\ ~WorkerCopy(c)
           /\ \A c : c = <<"router", s>> => ~ShardCopy(c) /\ ~WorkCopy(c) /\ ~WorkerCopy(c)
           /\ \A c : c = <<"work", i>> => ~ShardCopy(c) /\ ~RouterCopy(c) /\ ~WorkerCopy(c)
           /\ \A c : c = <<"worker", w>> => ~ShardCopy(c) /\ ~RouterCopy(c) /\ ~WorkCopy(c)
  BY DEF ShardCopy, RouterCopy, WorkCopy, WorkerCopy

Ended == metrics.processed + metrics.duplicates + Len(dlq)

CopiesCounted ==
    IsFiniteSet(InFlight) /\ metrics.admitted = Cardinality(InFlight) + Ended

LEMMA CopyMoves ==
    ASSUME PipeInv, CopiesCounted, NEW a, NEW b, IsCopy(a), ~IsCopy(b),
           \A c : IsCopy(c)' <=> (IsCopy(c) /\ c # a) \/ c = b,
           UNCHANGED <<metrics, dlq>>
    PROVE  CopiesCounted'
<1>1. InFlight' = (InFlight \ {a}) \cup {b} /\ a \in InFlight /\ b \notin InFlight
  BY Copies
<1>2. IsFiniteSet(InFlight)
  BY DEF CopiesCounted
<1>3. /\ IsFiniteSet(InFlight \ {a})
      /\ Cardinality(InFlight \ {a}) = Cardinality(InFlight) - 1
  BY <1>1, <1>2, FS_RemoveElement
<1>4. /\ IsFiniteSet(InFlight')
      /\ Cardinality(InFlight') = Cardinality(InFlight \ {a}) + 1
  BY <1>1, <1>3, FS_AddElement
<1>5. Cardinality(InFlight) \in Nat
  BY <1>2, FS_CardinalityType
<1>6. Cardinality(InFlight') = Cardinality(InFlight)
  BY <1>3, <1>4, <1>5
<1>7. QED
  BY <1>4, <1>6 DEF CopiesCounted, Ended

LEMMA CopyEnters ==
    ASSUME PipeInv, CopiesCounted, NEW b, ~IsCopy(b),
           \A c : IsCopy(c)' <=> IsCopy(c) \/ c = b,
           metrics' = Count("admitted"), dlq' = dlq
    PROVE  CopiesCounted'
<1>1. InFlight' = InFlight \cup {b} /\ b \notin InFlight
  BY Copies
<1>2. IsFiniteSet(InFlight) /\ metrics.admitted = Cardinality(InFlight) + Ended
  BY DEF CopiesCounted
<1>3. /\ IsFiniteSet(InFlight')
      /\ Cardinality(InFlight') = Cardinality(InFlight) + 1
  BY <1>1, <1>2, FS_AddElement
<1>4. metrics'.admitted = metrics.admitted + 1 /\ Ended' = Ended /\ Ended \in Nat
  <2>1. metrics \in Metrics /\ dlq \in Seq(Dead)
    BY DEF PipeInv, LiveTypes
  <2>2. /\ Count("admitted")["admitted"] = metrics["admitted"] + 1
        /\ Count("admitted")["processed"] = metrics["processed"]
        /\ Count("admitted")["duplicates"] = metrics["duplicates"]
        /\ metrics["processed"] \in Nat /\ metrics["duplicates"] \in Nat
    BY <2>1, Counted
  <2>3. Len(dlq) \in Nat
    BY <2>1, LenProperties
  <2>4. QED
    BY <2>2, <2>3 DEF Ended
<1>5. Cardinality(InFlight) \in Nat
  BY <1>2, FS_CardinalityType
<1>6. metrics'.admitted = Cardinality(InFlight') + Ended'
  BY <1>2, <1>3, <1>4, <1>5
<1>7. QED
  BY <1>3, <1>6 DEF CopiesCounted

LEMMA CopyEnds ==
    ASSUME PipeInv, CopiesCounted, NEW a, IsCopy(a),
           \A c : IsCopy(c)' <=> IsCopy(c) /\ c # a,
           metrics'.admitted = metrics.admitted, Ended' = Ended + 1, Ended \in Nat
    PROVE  CopiesCounted'
<1>1. InFlight' = InFlight \ {a} /\ a \in InFlight
  BY Copies
<1>2. IsFiniteSet(InFlight) /\ metrics.admitted = Cardinality(InFlight) + Ended
  BY DEF CopiesCounted
<1>3. /\ IsFiniteSet(InFlight')
      /\ Cardinality(InFlight') = Cardinality(InFlight) - 1
  BY <1>1, <1>2, FS_RemoveElement
<1>4. Cardinality(InFlight) \in Nat
  BY <1>2, FS_CardinalityType
<1>5. metrics'.admitted = Cardinality(InFlight') + Ended'
  BY <1>2, <1>3, <1>4
<1>6. QED
  BY <1>3, <1>5 DEF CopiesCounted

LEMMA CopiesStay ==
    ASSUME CopiesCounted, UNCHANGED <<shardQueue, routing, workQueue, working, metrics, dlq>>
    PROVE  CopiesCounted'
  BY DEF CopiesCounted, InFlight, Ended

\* What a put and a worker's new hand do to the copies.
LEMMA WorkPut ==
    ASSUME PipeInv, NEW x \in Live, workQueue' = Append(workQueue, x)
    PROVE  \E b : /\ b = <<"work", Len(workQueue) + 1>>
                  /\ ~WorkCopy(b)
                  /\ \A c : WorkCopy(c)' <=> WorkCopy(c) \/ c = b
<1> DEFINE b == <<"work", Len(workQueue) + 1>>
<1>1. /\ DOMAIN workQueue' = DOMAIN workQueue \cup {Len(workQueue) + 1}
      /\ Len(workQueue) + 1 \notin DOMAIN workQueue
  BY UnfinishedOf, PutLast
<1>2. ~WorkCopy(b)
  BY <1>1 DEF WorkCopy
<1>3. \A c : WorkCopy(c)' <=> WorkCopy(c) \/ c = b
  BY <1>1 DEF WorkCopy
<1>4. QED
  BY <1>2, <1>3

LEMMA HandEmptied ==
    ASSUME PipeInv, NEW w \in Workers, working[w] # None,
           working' = [working EXCEPT ![w] = None]
    PROVE  \E a : /\ a = <<"worker", w>>
                  /\ WorkerCopy(a)
                  /\ \A c : WorkerCopy(c)' <=> WorkerCopy(c) /\ c # a
<1> DEFINE a == <<"worker", w>>
<1>1. Busy' = Busy \ {w} /\ w \in Busy
  BY InHand
<1>2. WorkerCopy(a)
  BY <1>1 DEF WorkerCopy
<1>3. \A c : WorkerCopy(c)' <=> WorkerCopy(c) /\ c # a
  BY <1>1 DEF WorkerCopy
<1>4. QED
  BY <1>2, <1>3

LEMMA AdmitCopies ==
    ASSUME PipeInv, CopiesCounted, Admit
    PROVE  CopiesCounted'
<1>1. PICK s, x :
         /\ s \in Shards /\ x \in Live
         /\ shardQueue' = [shardQueue EXCEPT ![s] = Append(@, x)]
  <2>1. next \in 1 .. Len(Stream)
    <3>1. producer # "loop" /\ next \in 1 .. (Len(Stream) + 1)
      BY DEF Admit, PipeInv, LiveTypes
    <3>2. next <= Len(Stream) /\ Len(Stream) \in Nat
      BY <3>1, ConfigAssumption, LenProperties DEF PipeInv, JoinsHold, ConfigAssumption
    <3>3. QED
      BY <3>1, <3>2
  <2>2. Stream[next] \in Ids /\ ShardOf[Stream[next]] \in Shards
    BY <2>1, ConfigAssumption DEF ConfigAssumption
  <2>3. QED
    BY <2>2, NewEvent DEF Admit
<1>2. /\ metrics' = Count("admitted")
      /\ UNCHANGED <<routing, workQueue, working, dlq>>
  BY DEF Admit, workVars
<1> DEFINE q == shardQueue[s]
           b == <<"shard", s, Len(q) + 1>>
<1>3. q \in Seq(Live)
  BY <1>1, UnfinishedOf
<1> HIDE DEF q
<1>4. /\ DOMAIN Append(q, x) = DOMAIN q \cup {Len(q) + 1}
      /\ Len(q) + 1 \notin DOMAIN q
  BY <1>1, <1>3, PutLast
<1>5. /\ shardQueue'[s] = Append(q, x)
      /\ \A t \in Shards : t # s => shardQueue'[t] = shardQueue[t]
  BY <1>1 DEF PipeInv, LiveTypes, q
<1>6. /\ ~ShardCopy(b) /\ \A c : ShardCopy(c)' <=> ShardCopy(c) \/ c = b
  <2>1. ~ShardCopy(b)
    BY <1>4 DEF ShardCopy, q
  <2>2. ASSUME NEW c, ShardCopy(c)' PROVE ShardCopy(c) \/ c = b
    <3>1. PICK t \in Shards : \E j \in DOMAIN shardQueue'[t] : c = <<"shard", t, j>>
      BY <2>2 DEF ShardCopy
    <3>2. PICK i \in DOMAIN shardQueue'[t] : c = <<"shard", t, i>>
      BY <3>1
    <3>3. i \in DOMAIN shardQueue[t] \/ (t = s /\ i = Len(q) + 1)
      BY <1>4, <1>5, <3>2 DEF q
    <3>4. QED
      BY <3>2, <3>3 DEF ShardCopy
  <2>3. ASSUME NEW c, ShardCopy(c) \/ c = b PROVE ShardCopy(c)'
    BY <1>1, <1>4, <1>5, <2>3 DEF ShardCopy, q
  <2>4. QED
    BY <2>1, <2>2, <2>3
<1>7. \A c : /\ (RouterCopy(c)' <=> RouterCopy(c))
             /\ (WorkCopy(c)' <=> WorkCopy(c))
             /\ (WorkerCopy(c)' <=> WorkerCopy(c))
  BY <1>2 DEF RouterCopy, WorkCopy, WorkerCopy, Busy
<1>8. ~IsCopy(b) /\ \A c : IsCopy(c)' <=> IsCopy(c) \/ c = b
  BY <1>6, <1>7, KindsDiffer DEF IsCopy
<1>9. QED
  BY <1>2, <1>8, CopyEnters

LEMMA RouterGetCopies ==
    ASSUME PipeInv, CopiesCounted, NEW s \in Shards, RouterGet(s)
    PROVE  CopiesCounted'
<1> DEFINE q == shardQueue[s]
           a == <<"shard", s, Len(q)>>
           b == <<"router", s>>
<1>1. /\ routing[s] = None /\ q # <<>>
      /\ routing' = [routing EXCEPT ![s] = Head(q)]
      /\ shardQueue' = [shardQueue EXCEPT ![s] = Tail(q)]
      /\ UNCHANGED <<workQueue, working, dlq, metrics>>
  BY DEF RouterGet, workVars, resultVars
<1>2. q \in Seq(Live)
  BY UnfinishedOf
<1> HIDE DEF q
<1>3. /\ Head(q) \in Live
      /\ DOMAIN q = DOMAIN Tail(q) \cup {Len(q)} /\ Len(q) \notin DOMAIN Tail(q)
  BY <1>1, <1>2, GetFirst
<1>4. /\ routing'[s] # None /\ shardQueue'[s] = Tail(q)
      /\ \A t \in Shards : t # s => routing'[t] = routing[t] /\ shardQueue'[t] = shardQueue[t]
  BY <1>1, <1>3, NoneIsNoEvent DEF PipeInv, LiveTypes
<1>5. /\ ShardCopy(a) /\ \A c : ShardCopy(c)' <=> ShardCopy(c) /\ c # a
  <2>1. ShardCopy(a)
    BY <1>3 DEF ShardCopy, q
  <2>2. ASSUME NEW c, ShardCopy(c)' PROVE ShardCopy(c) /\ c # a
    <3>1. PICK t \in Shards : \E j \in DOMAIN shardQueue'[t] : c = <<"shard", t, j>>
      BY <2>2 DEF ShardCopy
    <3>2. PICK i \in DOMAIN shardQueue'[t] : c = <<"shard", t, i>>
      BY <3>1
    <3>3. i \in DOMAIN shardQueue[t] /\ (t = s => i # Len(q))
      BY <1>3, <1>4, <3>2 DEF q
    <3>4. QED
      BY <3>2, <3>3 DEF ShardCopy
  <2>3. ASSUME NEW c, ShardCopy(c), c # a PROVE ShardCopy(c)'
    BY <1>3, <1>4, <2>3 DEF ShardCopy, q
  <2>4. QED
    BY <2>1, <2>2, <2>3
<1>6. ~RouterCopy(b) /\ \A c : RouterCopy(c)' <=> RouterCopy(c) \/ c = b
  BY <1>1, <1>4 DEF RouterCopy
<1>8. \A c : (WorkCopy(c)' <=> WorkCopy(c)) /\ (WorkerCopy(c)' <=> WorkerCopy(c))
  BY <1>1 DEF WorkCopy, WorkerCopy, Busy
<1>9. \A c : IsCopy(c)' <=> (IsCopy(c) /\ c # a) \/ c = b
  BY <1>5, <1>6, <1>8, KindsDiffer DEF IsCopy
<1>10. IsCopy(a) /\ ~IsCopy(b)
  BY <1>5, <1>6, KindsDiffer DEF IsCopy
<1>7. QED
  BY <1>1, <1>9, <1>10, CopyMoves


LEMMA RouterPutCopies ==
    ASSUME PipeInv, CopiesCounted, NEW s \in Shards, RouterPut(s)
    PROVE  CopiesCounted'
<1> DEFINE a == <<"router", s>>
<1>1. /\ routing[s] # None /\ routing[s] \in Live
      /\ workQueue' = Append(workQueue, routing[s])
      /\ routing' = [routing EXCEPT ![s] = None]
      /\ UNCHANGED <<shardQueue, working, dlq, metrics>>
  BY UnfinishedOf DEF RouterPut, resultVars
<1>2. PICK b : /\ b = <<"work", Len(workQueue) + 1>>
               /\ ~WorkCopy(b)
               /\ \A c : WorkCopy(c)' <=> WorkCopy(c) \/ c = b
  BY <1>1, WorkPut
<1>3. /\ routing'[s] = None
      /\ \A t \in Shards : t # s => routing'[t] = routing[t]
  BY <1>1 DEF PipeInv, LiveTypes
<1>4. RouterCopy(a) /\ \A c : RouterCopy(c)' <=> RouterCopy(c) /\ c # a
  BY <1>1, <1>3 DEF RouterCopy
<1>5. \A c : (ShardCopy(c)' <=> ShardCopy(c)) /\ (WorkerCopy(c)' <=> WorkerCopy(c))
  BY <1>1 DEF ShardCopy, WorkerCopy, Busy
<1>6. \A c : IsCopy(c)' <=> (IsCopy(c) /\ c # a) \/ c = b
  BY <1>2, <1>4, <1>5, KindsDiffer DEF IsCopy
<1>7. IsCopy(a) /\ ~IsCopy(b)
  BY <1>2, <1>4, KindsDiffer DEF IsCopy
<1>8. QED
  BY <1>1, <1>6, <1>7, CopyMoves

LEMMA WorkerGetCopies ==
    ASSUME PipeInv, CopiesCounted, NEW w \in Workers, WorkerGet(w)
    PROVE  CopiesCounted'
<1> DEFINE q == workQueue
           a == <<"work", Len(q)>>
           b == <<"worker", w>>
<1>1. /\ working[w] = None /\ q # <<>> /\ q \in Seq(Live)
      /\ working' = [working EXCEPT ![w] = Head(q)]
      /\ workQueue' = Tail(q)
      /\ UNCHANGED <<shardQueue, routing, dlq, metrics>>
  BY UnfinishedOf DEF WorkerGet, shardVars, resultVars
<1> HIDE DEF q
<1>2. /\ Head(q) \in Live /\ Head(q) # None
      /\ DOMAIN q = DOMAIN Tail(q) \cup {Len(q)} /\ Len(q) \notin DOMAIN Tail(q)
  <2>1. /\ Head(q) \in Live
        /\ DOMAIN q = DOMAIN Tail(q) \cup {Len(q)} /\ Len(q) \notin DOMAIN Tail(q)
    BY <1>1, GetFirst
  <2>2. QED
    BY <2>1, NoneIsNoEvent
<1>3. Busy' = Busy \cup {w} /\ w \notin Busy
  BY <1>1, <1>2, InHand
<1>4. WorkCopy(a) /\ \A c : WorkCopy(c)' <=> WorkCopy(c) /\ c # a
  <2>1. DOMAIN workQueue = DOMAIN workQueue' \cup {Len(q)} /\ Len(q) \notin DOMAIN workQueue'
    BY <1>1, <1>2 DEF q
  <2>2. WorkCopy(a)
    BY <2>1 DEF WorkCopy
  <2>3. \A c : WorkCopy(c)' <=> WorkCopy(c) /\ c # a
    BY <2>1 DEF WorkCopy
  <2>4. QED
    BY <2>2, <2>3
<1>5. ~WorkerCopy(b) /\ \A c : WorkerCopy(c)' <=> WorkerCopy(c) \/ c = b
  BY <1>3 DEF WorkerCopy
<1>6. \A c : (ShardCopy(c)' <=> ShardCopy(c)) /\ (RouterCopy(c)' <=> RouterCopy(c))
  BY <1>1 DEF ShardCopy, RouterCopy
<1>7. \A c : IsCopy(c)' <=> (IsCopy(c) /\ c # a) \/ c = b
  BY <1>4, <1>5, <1>6, KindsDiffer DEF IsCopy
<1>8. IsCopy(a) /\ ~IsCopy(b)
  BY <1>4, <1>5, KindsDiffer DEF IsCopy
<1>9. QED
  BY <1>1, <1>7, <1>8, CopyMoves

LEMMA RetryPutCopies ==
    ASSUME PipeInv, CopiesCounted, NEW w \in Workers, RetryPut(w)
    PROVE  CopiesCounted'
<1>1. /\ w \in backingOff
      /\ workQueue' = Append(workQueue, [working[w] EXCEPT !.attempt = @ + 1])
      /\ working' = [working EXCEPT ![w] = None]
      /\ UNCHANGED <<shardQueue, routing, dlq, metrics>>
  BY DEF RetryPut, shardVars, resultVars
<1>2. /\ working[w] # None /\ working[w] \in Live /\ working[w].id \notin Poison
      /\ working[w].attempt + 1 < MaxAttempts
  BY <1>1 DEF PipeInv, LiveTypes, Busy
<1>3. [working[w] EXCEPT !.attempt = @ + 1] \in Live
  BY <1>2, NextAttempt
<1>4. PICK b : /\ b = <<"work", Len(workQueue) + 1>>
               /\ ~WorkCopy(b)
               /\ \A c : WorkCopy(c)' <=> WorkCopy(c) \/ c = b
  BY <1>1, <1>3, WorkPut
<1>5. PICK a : /\ a = <<"worker", w>>
               /\ WorkerCopy(a)
               /\ \A c : WorkerCopy(c)' <=> WorkerCopy(c) /\ c # a
  BY <1>1, <1>2, HandEmptied
<1>6. \A c : (ShardCopy(c)' <=> ShardCopy(c)) /\ (RouterCopy(c)' <=> RouterCopy(c))
  BY <1>1 DEF ShardCopy, RouterCopy
<1>7. \A c : IsCopy(c)' <=> (IsCopy(c) /\ c # a) \/ c = b
  BY <1>4, <1>5, <1>6, KindsDiffer DEF IsCopy
<1>8. IsCopy(a) /\ ~IsCopy(b)
  BY <1>4, <1>5, KindsDiffer DEF IsCopy
<1>9. QED
  BY <1>1, <1>7, <1>8, CopyMoves

LEMMA TaskDoneCopies ==
    ASSUME PipeInv, CopiesCounted, NEW w \in Workers, Processing(w), TaskDone(w),
           metrics'.admitted = metrics.admitted, Ended' = Ended + 1, Ended \in Nat
    PROVE  CopiesCounted'
<1>1. /\ working[w] # None /\ working' = [working EXCEPT ![w] = None]
      /\ UNCHANGED <<shardQueue, routing, workQueue>>
  BY DEF Processing, TaskDone, shardVars
<1>2. PICK a : /\ a = <<"worker", w>>
               /\ WorkerCopy(a)
               /\ \A c : WorkerCopy(c)' <=> WorkerCopy(c) /\ c # a
  BY <1>1, HandEmptied
<1>3. \A c : /\ (ShardCopy(c)' <=> ShardCopy(c))
             /\ (RouterCopy(c)' <=> RouterCopy(c))
             /\ (WorkCopy(c)' <=> WorkCopy(c))
  BY <1>1 DEF ShardCopy, RouterCopy, WorkCopy
<1>4. IsCopy(a) /\ \A c : IsCopy(c)' <=> IsCopy(c) /\ c # a
  BY <1>2, <1>3, KindsDiffer DEF IsCopy
<1>5. QED
  BY <1>4, CopyEnds

LEMMA EndedType ==
    ASSUME PipeInv
    PROVE  /\ metrics \in Metrics /\ dlq \in Seq(Dead) /\ Len(dlq) \in Nat
           /\ metrics["processed"] \in Nat /\ metrics["duplicates"] \in Nat
           /\ Ended \in Nat
<1>1. metrics \in Metrics /\ dlq \in Seq(Dead)
  BY DEF PipeInv, LiveTypes
<1>2. metrics["processed"] \in Nat /\ metrics["duplicates"] \in Nat /\ Len(dlq) \in Nat
  BY <1>1, Counted, LenProperties
<1>3. QED
  BY <1>1, <1>2 DEF Ended

LEMMA ApplyCopies ==
    ASSUME PipeInv, CopiesCounted, NEW w \in Workers, Apply(w)
    PROVE  CopiesCounted'
<1>1. /\ Processing(w) /\ TaskDone(w) /\ dlq' = dlq
      /\ \E n \in {"duplicates", "processed"} : metrics' = Count(n)
  BY DEF Apply
<1>2. PICK n \in {"duplicates", "processed"} : metrics' = Count(n)
  BY <1>1
<1>3. /\ Count(n)["admitted"] = metrics["admitted"]
      /\ Count(n)["processed"] = IF n = "processed" THEN metrics["processed"] + 1
                                                   ELSE metrics["processed"]
      /\ Count(n)["duplicates"] = IF n = "duplicates" THEN metrics["duplicates"] + 1
                                                     ELSE metrics["duplicates"]
  BY <1>2, EndedType, Counted
<1>4. metrics'.admitted = metrics.admitted
  BY <1>2, <1>3
<1>5. Ended' = Ended + 1
  <2>1. CASE n = "processed"
    BY <1>1, <1>2, <1>3, <2>1, EndedType DEF Ended
  <2>2. CASE n = "duplicates"
    <3>1. /\ metrics'["processed"] = metrics["processed"]
          /\ metrics'["duplicates"] = metrics["duplicates"] + 1
      BY <1>2, <1>3, <2>2
    <3>2. QED
      BY <1>1, <3>1, EndedType DEF Ended
  <2>3. QED
    BY <2>1, <2>2
<1>6. QED
  BY <1>1, <1>4, <1>5, EndedType, TaskDoneCopies

LEMMA QuarantineCopies ==
    ASSUME PipeInv, CopiesCounted, NEW w \in Workers, Processing(w), Quarantine(w)
    PROVE  CopiesCounted'
<1>1. working[w] \in Live
  BY DEF PipeInv, LiveTypes, Processing
<1>2. PICK x \in Dead : dlq' = Append(dlq, x)
  BY <1>1, NextAttempt DEF Quarantine
<1>3. TaskDone(w) /\ metrics' = metrics
  BY DEF Quarantine
<1>4. Len(dlq') = Len(dlq) + 1
  BY <1>2, EndedType, PutLast
<1>5. Ended' = Ended + 1
  BY <1>3, <1>4, EndedType DEF Ended
<1>6. QED
  BY <1>3, <1>5, EndedType, TaskDoneCopies

-----------------------------------------------------------------------------
(* The pipeline. *)

LEMMA PipeStep == PipeInv /\ [Next]_vars => PipeInv'
<1> SUFFICES ASSUME PipeInv, [Next]_vars PROVE PipeInv'
  OBVIOUS
<1>1. CASE Produce \/ ProducerReturns \/ ShardsJoined \/ WorkJoined \/ UNCHANGED vars
  BY <1>1, RunInv
<1>2. CASE Admit
  BY <1>2, AdmitInv
<1>3. CASE Running /\ \E s \in Shards : RouterGet(s) \/ RouterPut(s)
  BY <1>3, RouterGetInv, RouterPutInv
<1>4. CASE Running /\ \E w \in Workers : Worker(w)
  <2>1. PICK w \in Workers : Worker(w)
    BY <1>4
  <2>2. CASE WorkerGet(w)
    BY <1>4, <2>2, WorkerGetInv
  <2>3. CASE Apply(w)
    BY <1>4, <2>3, ApplyInv
  <2>4. CASE PermanentFailure(w)
    BY <1>4, <2>4, QuarantineInv DEF PermanentFailure
  <2>5. CASE TransientFailure(w)
    BY <1>4, <2>5, QuarantineInv, BackoffInv DEF TransientFailure
  <2>6. CASE RetryPut(w)
    BY <1>4, <2>6, RetryPutInv
  <2>7. QED
    BY <2>1, <2>2, <2>3, <2>4, <2>5, <2>6 DEF Worker
<1>5. QED
  BY <1>1, <1>2, <1>3, <1>4 DEF Next, Finished

LEMMA CopiesStep == PipeInv /\ CopiesCounted /\ [Next]_vars => CopiesCounted'
<1> SUFFICES ASSUME PipeInv, CopiesCounted, [Next]_vars PROVE CopiesCounted'
  OBVIOUS
<1>1. CASE Produce \/ ProducerReturns \/ ShardsJoined \/ WorkJoined \/ UNCHANGED vars
  <2>1. UNCHANGED <<shardQueue, routing, workQueue, working, metrics, dlq>>
    BY <1>1 DEF Produce, ProducerReturns, ShardsJoined, WorkJoined, vars, shardVars, workVars,
                resultVars
  <2>2. QED
    BY <2>1, CopiesStay
<1>2. CASE Admit
  BY <1>2, AdmitCopies
<1>3. CASE Running /\ \E s \in Shards : RouterGet(s) \/ RouterPut(s)
  BY <1>3, RouterGetCopies, RouterPutCopies
<1>4. CASE Running /\ \E w \in Workers : Worker(w)
  <2>1. PICK w \in Workers : Worker(w)
    BY <1>4
  <2>2. CASE WorkerGet(w)
    BY <2>2, WorkerGetCopies
  <2>3. CASE Apply(w)
    BY <2>3, ApplyCopies
  <2>4. CASE PermanentFailure(w)
    BY <2>4, QuarantineCopies DEF PermanentFailure
  <2>5. CASE TransientFailure(w)
    <3>1. CASE Quarantine(w)
      BY <2>5, <3>1, QuarantineCopies DEF TransientFailure
    <3>2. CASE ~Quarantine(w)
      BY <2>5, <3>2, CopiesStay DEF TransientFailure, shardVars, resultVars
    <3>3. QED
      BY <3>1, <3>2
  <2>6. CASE RetryPut(w)
    BY <2>6, RetryPutCopies
  <2>7. QED
    BY <2>1, <2>2, <2>3, <2>4, <2>5, <2>6 DEF Worker
<1>5. QED
  BY <1>1, <1>2, <1>3, <1>4 DEF Next, Finished

\* The inductive invariant: the joins' counts, what each join has seen, and where
\* every event of the stream is held.
THEOREM PipelineInvariant == Spec => []PipeInv
<1>1. Init => PipeInv
  BY PipeInit
<1>2. PipeInv /\ [Next]_vars => PipeInv'
  BY PipeStep
<1>3. QED
  BY <1>1, <1>2, PTL DEF Spec

LEMMA CopiesInvariant == Spec => []CopiesCounted
<1>1. Init => CopiesCounted
  <2> SUFFICES ASSUME Init PROVE CopiesCounted
    OBVIOUS
  <2>1. InFlight = {}
    <3>1. \A c : ~IsCopy(c)
      BY DEF Init, IsCopy, ShardCopy, RouterCopy, WorkCopy, WorkerCopy, Busy
    <3>2. QED
      BY <3>1, Copies
  <2>2. Ended = 0 /\ metrics.admitted = 0
    BY DEF Init, Ended
  <2>3. QED
    BY <2>1, <2>2, FS_EmptySet DEF CopiesCounted
<1>2. PipeInv /\ CopiesCounted /\ [Next]_vars => CopiesCounted'
  BY CopiesStep
<1>3. QED
  BY <1>1, <1>2, PipelineInvariant, PTL DEF Spec

\* Every admitted copy is in flight, an effect, a suppressed duplicate or a dead
\* letter, at any moment of any run (_admit, _router, _worker, _process).
THEOREM CopiesConserved == Spec => []Conservation
<1>1. PipeInv /\ CopiesCounted => Conservation
  <2> SUFFICES ASSUME PipeInv, CopiesCounted PROVE Conservation
    OBVIOUS
  <2>1. Cardinality(InFlight) \in Nat
    BY FS_CardinalityType DEF CopiesCounted
  <2>2. QED
    BY <2>1, EndedType DEF CopiesCounted, Ended, Conservation
<1>2. QED
  BY <1>1, PipelineInvariant, CopiesInvariant, PTL

\* The types, and bounded retry: no dead letter was worked on more than
\* max_attempts times, or once (_retry_or_dlq).
THEOREM PipelineTyped == Spec => []TypeOK
<1>1. PipeInv => TypeOK
  <2> SUFFICES ASSUME LiveTypes PROVE TypeOK
    BY DEF PipeInv
  <2>1. Live \subseteq Event /\ Dead \subseteq Event
    BY DEF Live, Dead
  <2>2. /\ shardQueue \in [Shards -> Seq(Event)] /\ workQueue \in Seq(Event)
        /\ routing \in [Shards -> Event \cup {None}]
        /\ working \in [Workers -> Event \cup {None}]
        /\ dlq \in Seq(Event)
    <3>1. /\ shardQueue \in [Shards -> Seq(Live)] /\ workQueue \in Seq(Live)
          /\ routing \in [Shards -> Live \cup {None}]
          /\ working \in [Workers -> Live \cup {None}]
          /\ dlq \in Seq(Dead)
      BY DEF LiveTypes
    <3>2. Seq(Live) \subseteq Seq(Event) /\ Seq(Dead) \subseteq Seq(Event)
      BY <2>1, SeqMonotonic
    <3> HIDE DEF Event, Live, Dead
    <3>3. QED
      BY <2>1, <3>1, <3>2
  <2>3. \A i \in DOMAIN dlq : dlq[i].attempt = 1 \/ dlq[i].attempt <= MaxAttempts
    <3>1. \A i \in DOMAIN dlq : dlq[i] \in Dead
      <4>1. dlq \in Seq(Dead)
        BY DEF LiveTypes
      <4>2. QED
        BY <4>1, ElementOfSeq, LenProperties
    <3>2. QED
      BY <3>1 DEF Dead
  <2>4. QED
    BY <2>2, <2>3 DEF LiveTypes, TypeOK, Busy, Metrics
<1>2. QED
  BY <1>1, PipelineInvariant, PTL

\* One counted effect per inbox row, and none for a poison event (apply_once),
\* whatever copies, retries and workers there are.
THEOREM OneEffect == Spec => []OneEffectPerEvent
<1>1. PipeInv => OneEffectPerEvent
  BY DEF PipeInv, EffectsCounted
<1>2. QED
  BY <1>1, PipelineInvariant, PTL

\* When run returns nothing is queued or in hand, and every event that was made
\* has had its effect or is dead-lettered.
THEOREM RunLeavesNothingBehind == Spec => []NothingLeftBehind
<1>1. PipeInv => NothingLeftBehind
  <2> SUFFICES ASSUME PipeInv, main = "done"
               PROVE  InFlight = {}
                      /\ \A i \in 1 .. (next - 1) : Stream[i] \in inbox \cup DeadLettered
    BY DEF NothingLeftBehind
  <2>1. \A s \in Shards : shardQueue[s] = <<>> /\ routing[s] = None
    <3>1. \A s \in Shards : shardUnfinished[s] = 0
      BY DEF PipeInv, JoinsHold
    <3>2. \A s \in Shards : Len(shardQueue[s]) = 0 /\ routing[s] = None
      BY <3>1, UnfinishedOf
    <3>3. QED
      BY <3>2, UnfinishedOf, EmptySeq
  <2>2. workQueue = <<>> /\ Busy = {}
    <3>1. workUnfinished = 0
      BY DEF PipeInv, JoinsHold
    <3>2. Len(workQueue) = 0 /\ Cardinality(Busy) = 0
      BY <3>1, UnfinishedOf, BusyFinite
    <3>3. QED
      BY <3>2, UnfinishedOf, BusyFinite, EmptySeq, FS_EmptySet
  <2>3. InFlight = {}
    BY <2>1, <2>2 DEF InFlight, Busy
  <2>4. \A i \in 1 .. (next - 1) : Held(Stream[i])
    BY DEF PipeInv, StreamHeld
  <2>5. ASSUME NEW o, Held(o) PROVE o \in inbox \cup DeadLettered
    BY <2>1, <2>2, <2>5 DEF Held, Busy, DeadLettered
  <2>6. QED
    BY <2>3, <2>4, <2>5
<1>2. QED
  BY <1>1, PipelineInvariant, PTL

-----------------------------------------------------------------------------
(* No wedge.  What the wedge run shows cannot happen when the work queue and *)
(* the workers together have room for more copies than there can be.         *)

\* An event has at most two copies.
AmpleRoom == WorkQueueSize = 0 \/ 2 * Len(Stream) < WorkQueueSize + Cardinality(Workers)

AdmittedTwice ==
    /\ producer = "again" => metrics["admitted"] <= 2 * next - 1
    /\ producer # "again" => metrics["admitted"] <= 2 * next - 2

\* Every worker waits to put a retry into a queue that only workers drain.
Wedged == Full(workQueue, WorkQueueSize) /\ backingOff = Workers

\* Some guard of a task or of run is open; the prover does not know ENABLED.
SomeoneCanGoOn ==
    \/ main = "producer" /\ producer = "loop"
    \/ producer # "loop" /\ ~Full(shardQueue[ShardOf[Stream[next]]], ShardQueueSize)
    \/ \E s \in Shards :
        \/ routing[s] = None /\ shardQueue[s] # <<>>
        \/ routing[s] # None /\ ~Full(workQueue, WorkQueueSize)
    \/ \E w \in Workers :
        \/ working[w] = None /\ workQueue # <<>>
        \/ Processing(w)
        \/ w \in backingOff /\ ~Full(workQueue, WorkQueueSize)
    \/ main = "shards" /\ \A s \in Shards : shardUnfinished[s] = 0
    \/ main = "work" /\ workUnfinished = 0

LEMMA AdmittedStep == PipeInv /\ AdmittedTwice /\ [Next]_vars => AdmittedTwice'
<1> SUFFICES ASSUME PipeInv, AdmittedTwice, [Next]_vars PROVE AdmittedTwice'
  OBVIOUS
<1>1. /\ metrics \in Metrics /\ next \in Nat /\ metrics["admitted"] \in Nat
      /\ producer \in {"loop", "put", "again"}
  <2>1. /\ metrics \in Metrics /\ next \in 1 .. (Len(Stream) + 1)
        /\ producer \in {"loop", "put", "again"}
    BY DEF PipeInv, LiveTypes
  <2>2. Len(Stream) \in Nat
    BY ConfigAssumption, LenProperties DEF ConfigAssumption
  <2>3. next \in Nat
    BY <2>1, <2>2
  <2>4. metrics["admitted"] \in Nat
    BY <2>1, Counted
  <2>5. QED
    BY <2>1, <2>3, <2>4
<1>2. \A n \in {"processed", "duplicates"} : Count(n)["admitted"] = metrics["admitted"]
  BY <1>1, Counted
<1>3. CASE Admit
  <2>1. metrics'["admitted"] = metrics["admitted"] + 1
    BY <1>1, <1>3, Counted DEF Admit
  <2>2. \/ producer = "put" /\ producer' = "again" /\ next' = next
        \/ producer # "loop" /\ producer' = "loop" /\ next' = next + 1
    BY <1>3 DEF Admit
  <2>3. CASE producer = "put" /\ producer' = "again" /\ next' = next
    BY <1>1, <2>1, <2>3 DEF AdmittedTwice
  <2>4. CASE producer' = "loop" /\ next' = next + 1
    BY <1>1, <2>1, <2>4 DEF AdmittedTwice
  <2>5. QED
    BY <2>2, <2>3, <2>4
<1>4. CASE Produce
  BY <1>4 DEF Produce, resultVars, AdmittedTwice
<1>5. CASE ProducerReturns \/ ShardsJoined \/ WorkJoined \/ UNCHANGED vars
  BY <1>5 DEF ProducerReturns, ShardsJoined, WorkJoined, vars, resultVars, AdmittedTwice
<1>6. CASE Running /\ \E s \in Shards : RouterGet(s) \/ RouterPut(s)
  BY <1>6 DEF RouterGet, RouterPut, runVars, resultVars, AdmittedTwice
<1>7. CASE Running /\ \E w \in Workers : Worker(w)
  <2>1. PICK w \in Workers : Worker(w)
    BY <1>7
  <2>2. /\ next' = next /\ producer' = producer
        /\ \/ metrics' = metrics
           \/ \E n \in {"processed", "duplicates"} : metrics' = Count(n)
    <3>1. CASE WorkerGet(w) \/ RetryPut(w)
      BY <3>1 DEF WorkerGet, RetryPut, runVars, resultVars
    <3>2. CASE Apply(w)
      BY <3>2 DEF Apply, TaskDone, runVars
    <3>3. CASE PermanentFailure(w) \/ TransientFailure(w)
      BY <3>3 DEF PermanentFailure, TransientFailure, Quarantine, TaskDone, runVars, resultVars
    <3>4. QED
      BY <2>1, <3>1, <3>2, <3>3 DEF Worker
  <2>3. metrics'["admitted"] = metrics["admitted"]
    BY <1>2, <2>2
  <2>4. QED
    BY <2>2, <2>3 DEF AdmittedTwice
<1>8. QED
  BY <1>3, <1>4, <1>5, <1>6, <1>7 DEF Next, Finished

LEMMA Numbered ==
    ASSUME NEW n \in Nat
    PROVE  IsFiniteSet(1 .. n) /\ Cardinality(1 .. n) = n
<1>1. 1 \in Int /\ n \in Int
  OBVIOUS
<1>2. /\ IsFiniteSet(1 .. n)
      /\ Cardinality(1 .. n) = IF 1 > n THEN 0 ELSE n - 1 + 1
  BY <1>1, FS_Interval
<1>3. QED
  BY <1>2

LEMMA Tagged ==
    ASSUME NEW S, IsFiniteSet(S), NEW kind
    PROVE  /\ IsFiniteSet({<<kind, x>> : x \in S})
           /\ Cardinality({<<kind, x>> : x \in S}) = Cardinality(S)
<1> DEFINE T == {<<kind, x>> : x \in S}
           f == [x \in S |-> <<kind, x>>]
<1>1. f \in Bijection(S, T)
  <2>1. f \in [S -> T] /\ \A t \in T : \E x \in S : f[x] = t
    OBVIOUS
  <2>2. \A x, y \in S : f[x] = f[y] => x = y
    OBVIOUS
  <2> HIDE DEF T, f
  <2>3. f \in Injection(S, T)
    BY <2>1, <2>2 DEF Injection, IsInjective
  <2>4. f \in Surjection(S, T)
    BY <2>1 DEF Surjection
  <2>5. QED
    BY <2>3, <2>4 DEF Bijection
<1> HIDE DEF T, f
<1>2. IsFiniteSet(T) /\ Cardinality(T) = Cardinality(S)
  BY <1>1, FS_Bijection DEF ExistsBijection
<1>3. QED
  BY <1>2 DEF T

\* The work queue and the hands of the workers hold no more copies than were admitted.
LEMMA NotWedged ==
    ASSUME AmpleRoom, PipeInv, CopiesCounted, AdmittedTwice
    PROVE  ~Wedged
<1> SUFFICES ASSUME Wedged PROVE FALSE
  OBVIOUS
<1>1. /\ Len(Stream) \in Nat /\ WorkQueueSize \in Nat /\ IsFiniteSet(Workers)
      /\ Cardinality(Workers) \in Nat
  BY ConfigAssumption, LenProperties, FS_CardinalityType DEF ConfigAssumption
<1>2. /\ next \in 1 .. (Len(Stream) + 1) /\ metrics \in Metrics
      /\ producer # "loop" => next <= Len(Stream)
      /\ workQueue \in Seq(Live) /\ Len(workQueue) \in Nat /\ backingOff \subseteq Busy
  BY LenProperties DEF PipeInv, LiveTypes, JoinsHold
<1>3. metrics.admitted \in Nat /\ metrics.admitted <= 2 * Len(Stream)
  <2>1. metrics.admitted \in Nat
    BY <1>2 DEF Metrics
  <2>2. QED
    BY <1>1, <1>2, <2>1 DEF AdmittedTwice
<1>4. Cardinality(InFlight) \in Nat /\ Cardinality(InFlight) <= metrics.admitted
  <2>1. Cardinality(InFlight) \in Nat /\ Ended \in Nat
    BY EndedType, FS_CardinalityType DEF CopiesCounted
  <2>2. QED
    BY <2>1 DEF CopiesCounted
<1>5. Len(workQueue) + Cardinality(Workers) <= Cardinality(InFlight)
  <2> DEFINE Q == {<<"work", i>> : i \in 1 .. Len(workQueue)}
             W == {<<"worker", w>> : w \in Workers}
  <2>2. Q \cap W = {}
    OBVIOUS
  <2>3. Q \cup W \subseteq InFlight
    <3>1. backingOff = Workers /\ Busy = Workers
      BY <1>2 DEF Wedged, Busy
    <3>2. DOMAIN workQueue = 1 .. Len(workQueue)
      BY <1>2, LenProperties
    <3>3. \A c \in Q \cup W : IsCopy(c)
      BY <3>1, <3>2 DEF IsCopy, WorkCopy, WorkerCopy
    <3>4. QED
      BY <3>3, Copies
  <2>4. IsFiniteSet(Q) /\ Cardinality(Q) = Len(workQueue)
    <3>1. /\ IsFiniteSet(1 .. Len(workQueue))
          /\ Cardinality(1 .. Len(workQueue)) = Len(workQueue)
      BY <1>2, Numbered
    <3>2. QED
      BY <3>1, Tagged
  <2>5. IsFiniteSet(W) /\ Cardinality(W) = Cardinality(Workers)
    BY <1>1, Tagged
  <2> HIDE DEF Q, W
  <2>6. /\ Cardinality(Q \cap W) = 0
        /\ Cardinality(Q \cup W) = Cardinality(Q) + Cardinality(W) - Cardinality(Q \cap W)
    BY <2>2, <2>4, <2>5, FS_Union, FS_EmptySet
  <2>7. Cardinality(Q \cup W) = Len(workQueue) + Cardinality(Workers)
    BY <1>1, <1>2, <2>4, <2>5, <2>6
  <2>8. Cardinality(Q \cup W) <= Cardinality(InFlight)
    BY <2>3, FS_Subset DEF CopiesCounted
  <2>9. QED
    BY <2>7, <2>8
<1>6. QED
  BY <1>1, <1>2, <1>3, <1>4, <1>5 DEF Wedged, Full, AmpleRoom

LEMMA NeverStuck ==
    ASSUME PipeInv, ~Wedged, main # "done"
    PROVE  SomeoneCanGoOn
<1> SUFFICES ASSUME ~SomeoneCanGoOn PROVE FALSE
  OBVIOUS
<1>1. /\ WorkQueueSize \in Nat /\ ShardQueueSize \in Nat /\ Workers # {}
      /\ ShardOf \in [Ids -> Shards] /\ Stream \in Seq(Ids)
  BY ConfigAssumption DEF ConfigAssumption
<1>2. /\ workQueue \in Seq(Live) /\ Len(workQueue) \in Nat
      /\ workQueue # <<>> <=> Len(workQueue) > 0
      /\ main \in {"producer", "shards", "work", "done"} /\ backingOff \subseteq Busy
  BY LenProperties, EmptySeq DEF PipeInv, LiveTypes
<1>3. \A w \in Workers :
          \/ w \in backingOff /\ Full(workQueue, WorkQueueSize)
          \/ w \notin Busy /\ workQueue = <<>>
  BY DEF SomeoneCanGoOn, Processing, Busy
<1>4. Full(workQueue, WorkQueueSize) => workQueue # <<>>
  BY <1>1, <1>2 DEF Full
<1>5. CASE workQueue # <<>>
  <2>1. \A w \in Workers : w \in backingOff /\ Full(workQueue, WorkQueueSize)
    BY <1>3, <1>5
  <2>2. backingOff = Workers
    BY <1>2, <2>1 DEF Busy
  <2>3. QED
    BY <1>1, <2>1, <2>2 DEF Wedged
<1>6. CASE workQueue = <<>>
  <2>1. ~Full(workQueue, WorkQueueSize) /\ Len(workQueue) = 0
    BY <1>2, <1>4, <1>6
  <2>2. Busy = {}
    BY <1>3, <2>1 DEF Busy
  <2>3. workUnfinished = 0
    <3>1. Cardinality(Busy) = 0
      BY <2>2, FS_EmptySet
    <3>2. QED
      BY <2>1, <3>1, UnfinishedOf
  <2>4. \A s \in Shards : routing[s] = None /\ shardQueue[s] = <<>>
    BY <2>1 DEF SomeoneCanGoOn
  <2>5. \A s \in Shards : Len(shardQueue[s]) = 0
    BY <2>4, UnfinishedOf, EmptySeq
  <2>6. \A s \in Shards : shardUnfinished[s] = 0
    BY <2>4, <2>5, UnfinishedOf
  <2>7. main = "producer"
    BY <1>2, <2>3, <2>6 DEF SomeoneCanGoOn
  <2>8. producer # "loop" /\ next <= Len(Stream)
    BY <2>7 DEF SomeoneCanGoOn, PipeInv, JoinsHold
  <2>9. ShardOf[Stream[next]] \in Shards
    <3>1. next \in 1 .. Len(Stream)
      BY <1>1, <2>8, LenProperties DEF PipeInv, LiveTypes
    <3>2. Stream[next] \in Ids
      BY <1>1, <3>1, ElementOfSeq
    <3>3. QED
      BY <1>1, <3>2
  <2>10. Full(shardQueue[ShardOf[Stream[next]]], ShardQueueSize)
    BY <2>8 DEF SomeoneCanGoOn
  <2>11. QED
    BY <1>1, <2>5, <2>9, <2>10 DEF Full
<1>7. QED
  BY <1>5, <1>6

\* run, _router, _worker, _retry_or_dlq: with a work queue and workers that together
\* outnumber the copies, or with an unbounded work queue, the pipeline is never stuck:
\* until run has returned, some task can go on.
THEOREM NeverWedges == ASSUME AmpleRoom PROVE Spec => [](main # "done" => SomeoneCanGoOn)
<1>1. Init => AdmittedTwice
  BY DEF Init, AdmittedTwice
<1>2. PipeInv /\ AdmittedTwice /\ [Next]_vars => AdmittedTwice'
  BY AdmittedStep
<1>3. Spec => []AdmittedTwice
  BY <1>1, <1>2, PipelineInvariant, PTL DEF Spec
<1>4. PipeInv /\ CopiesCounted /\ AdmittedTwice => (main # "done" => SomeoneCanGoOn)
  BY NotWedged, NeverStuck
<1>5. QED
  BY <1>3, <1>4, PipelineInvariant, CopiesInvariant, PTL

=============================================================================
