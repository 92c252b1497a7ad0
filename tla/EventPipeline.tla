--------------------------- MODULE EventPipeline ----------------------------
(***************************************************************************)
(* The asyncio pipeline of                                                 *)
(* tracks/aws/labs/03-event-stream-backpressure/pipeline.py: a producer,    *)
(* one router per shard queue, a pool of workers behind one bounded work    *)
(* queue, an idempotency inbox and a dead-letter queue.                     *)
(*                                                                         *)
(* A task runs without interruption from one await that blocks to the next, *)
(* so an action is what a task does between two such points.  A put on a    *)
(* full queue, a get on an empty one and a join wait: here the action is    *)
(* disabled.  Sleeps may last for any time.                                 *)
(***************************************************************************)
EXTENDS Integers, Sequences, FiniteSets

CONSTANTS
    Ids,              \* event ids
    Stream,           \* bound: the events the producer has time for, in order
    Shards,           \* shard indexes
    ShardOf,          \* stable_shard of each event's partition key
    Poison,           \* the events whose partition key is poison_key
    Workers,          \* worker tasks
    ShardQueueSize,   \* shard_queue_size (0: unbounded, as in asyncio)
    WorkQueueSize,    \* work_queue_size (0: unbounded)
    MaxAttempts,      \* max_attempts
    None              \* no event in hand

ASSUME ConfigAssumption ==
    /\ Stream \in Seq(Ids)
    /\ \A i, j \in 1 .. Len(Stream) : Stream[i] = Stream[j] => i = j
    /\ ShardOf \in [Ids -> Shards]
    /\ Poison \subseteq Ids
    /\ IsFiniteSet(Shards) /\ IsFiniteSet(Workers) /\ Workers # {}
    /\ ShardQueueSize \in Nat /\ WorkQueueSize \in Nat /\ MaxAttempts \in Nat
    /\ None \notin [id : Ids, attempt : Nat]

VARIABLES
    producer,         \* "loop", "put" (first copy), "again" (duplicate)
    next,             \* position in Stream of the event being produced
    shardQueue,       \* the bounded queue of each shard
    shardUnfinished,  \* its count of unfinished tasks, which join waits for
    routing,          \* the event each router holds between get and put
    workQueue,        \* the bounded work queue
    workUnfinished,   \* its count of unfinished tasks
    working,          \* the event each worker holds
    backingOff,       \* workers that sleep and then put their event back
    inbox,            \* event ids in the SQLite inbox
    dlq,              \* the unbounded dead-letter queue
    metrics,          \* admitted, processed and duplicates
    main              \* what run waits for

vars == <<producer, next, shardQueue, shardUnfinished, routing, workQueue,
          workUnfinished, working, backingOff, inbox, dlq, metrics, main>>

runVars == <<producer, next, main>>
shardVars == <<shardQueue, shardUnfinished, routing>>
workVars == <<workQueue, workUnfinished, working, backingOff>>
resultVars == <<inbox, dlq, metrics>>

Event == [id : Ids, attempt : Nat]

\* asyncio.Queue.full
Full(queue, maxsize) == maxsize > 0 /\ Len(queue) >= maxsize

Count(name) == [metrics EXCEPT ![name] = @ + 1]

-----------------------------------------------------------------------------
(* _produce and _admit *)

\* The deadline is looked at here only; an event, once made, must be admitted.
Produce ==
    /\ main = "producer" /\ producer = "loop"
    /\ next <= Len(Stream)
    /\ producer' = "put"
    /\ UNCHANGED <<next, main, shardVars, workVars, resultVars>>

\* The event enters its shard's queue; a random duplicate follows the first copy.
Admit ==
    /\ producer \in {"put", "again"}
    /\ LET e == Stream[next]
           s == ShardOf[e]
       IN  /\ ~Full(shardQueue[s], ShardQueueSize)
           /\ shardQueue' = [shardQueue EXCEPT ![s] = Append(@, [id |-> e, attempt |-> 0])]
           /\ shardUnfinished' = [shardUnfinished EXCEPT ![s] = @ + 1]
    /\ metrics' = Count("admitted")
    /\ \/ producer = "put" /\ producer' = "again" /\ next' = next
       \/ producer' = "loop" /\ next' = next + 1
    /\ UNCHANGED <<routing, workVars, inbox, dlq, main>>

ProducerReturns ==
    /\ main = "producer" /\ producer = "loop"
    /\ main' = "shards"
    /\ UNCHANGED <<producer, next, shardVars, workVars, resultVars>>

-----------------------------------------------------------------------------
(* _router *)

RouterGet(s) ==
    /\ routing[s] = None
    /\ shardQueue[s] # <<>>
    /\ routing' = [routing EXCEPT ![s] = Head(shardQueue[s])]
    /\ shardQueue' = [shardQueue EXCEPT ![s] = Tail(@)]
    /\ UNCHANGED <<shardUnfinished, runVars, workVars, resultVars>>

RouterPut(s) ==
    /\ routing[s] # None
    /\ ~Full(workQueue, WorkQueueSize)
    /\ workQueue' = Append(workQueue, routing[s])
    /\ workUnfinished' = workUnfinished + 1
    /\ routing' = [routing EXCEPT ![s] = None]
    /\ shardUnfinished' = [shardUnfinished EXCEPT ![s] = @ - 1]
    /\ UNCHANGED <<shardQueue, working, backingOff, runVars, resultVars>>

-----------------------------------------------------------------------------
(* _worker, _process, _retry_or_dlq and Inbox.apply_once *)

WorkerGet(w) ==
    /\ working[w] = None
    /\ workQueue # <<>>
    /\ working' = [working EXCEPT ![w] = Head(workQueue)]
    /\ workQueue' = Tail(workQueue)
    /\ UNCHANGED <<workUnfinished, backingOff, runVars, shardVars, resultVars>>

Processing(w) == working[w] # None /\ w \notin backingOff

\* Mutated form: the handler returns without having called task_done.
TaskForgotten(w) ==
    /\ working' = [working EXCEPT ![w] = None]
    /\ UNCHANGED <<workUnfinished, workQueue, backingOff, runVars, shardVars>>

\* The handler returns and task_done is called.
TaskDone(w) ==
    /\ working' = [working EXCEPT ![w] = None]
    /\ workUnfinished' = workUnfinished - 1
    /\ UNCHANGED <<workQueue, backingOff, runVars, shardVars>>

\* Mutated form: the effect is counted without a look at the inbox.
ApplyTwice(w) ==
    /\ Processing(w)
    /\ working[w].id \notin Poison
    /\ inbox' = inbox \cup {working[w].id}
    /\ metrics' = Count("processed")
    /\ TaskDone(w)
    /\ UNCHANGED dlq

\* apply_once: the primary key on event_id lets the first copy through.
Apply(w) ==
    /\ Processing(w)
    /\ working[w].id \notin Poison
    /\ inbox' = inbox \cup {working[w].id}
    /\ metrics' = Count(IF working[w].id \in inbox THEN "duplicates" ELSE "processed")
    /\ TaskDone(w)
    /\ UNCHANGED dlq

\* Mutated form: one attempt too many.
ExhaustedLate(event) == event.attempt + 1 > MaxAttempts

Exhausted(event) == event.attempt + 1 >= MaxAttempts

Quarantine(w) ==
    /\ dlq' = Append(dlq, [working[w] EXCEPT !.attempt = @ + 1])
    /\ TaskDone(w)
    /\ UNCHANGED <<inbox, metrics>>

PermanentFailure(w) ==
    /\ Processing(w)
    /\ working[w].id \in Poison
    /\ Quarantine(w)

TransientFailure(w) ==
    /\ Processing(w)
    /\ working[w].id \notin Poison
    /\ \/ Exhausted(working[w]) /\ Quarantine(w)
       \/ /\ ~Exhausted(working[w])
          /\ backingOff' = backingOff \cup {w}
          /\ UNCHANGED <<workQueue, workUnfinished, working, runVars, shardVars, resultVars>>

\* Mutated form: a retry that finds the queue full is dropped.
RetryPutOrDrop(w) ==
    /\ w \in backingOff
    /\ workQueue' = IF Full(workQueue, WorkQueueSize) THEN workQueue
                    ELSE Append(workQueue, [working[w] EXCEPT !.attempt = @ + 1])
    /\ workUnfinished' = Len(workQueue') + Cardinality({v \in Workers \ {w} : working[v] # None})
    /\ backingOff' = backingOff \ {w}
    /\ working' = [working EXCEPT ![w] = None]
    /\ UNCHANGED <<runVars, shardVars, resultVars>>

\* The put adds an unfinished task and the task_done that follows removes one.
RetryPut(w) ==
    /\ w \in backingOff
    /\ ~Full(workQueue, WorkQueueSize)
    /\ workQueue' = Append(workQueue, [working[w] EXCEPT !.attempt = @ + 1])
    /\ backingOff' = backingOff \ {w}
    /\ working' = [working EXCEPT ![w] = None]
    /\ UNCHANGED <<workUnfinished, runVars, shardVars, resultVars>>

Worker(w) ==
    \/ WorkerGet(w)
    \/ Apply(w)
    \/ PermanentFailure(w)
    \/ TransientFailure(w)
    \/ RetryPut(w)

-----------------------------------------------------------------------------
(* run *)

\* Mutated form: the first join that returns is enough.
ShardsJoinedFirst ==
    /\ main = "shards"
    /\ \E s \in Shards : shardUnfinished[s] = 0
    /\ main' = "work"
    /\ UNCHANGED <<producer, next, shardVars, workVars, resultVars>>

ShardsJoined ==
    /\ main = "shards"
    /\ \A s \in Shards : shardUnfinished[s] = 0
    /\ main' = "work"
    /\ UNCHANGED <<producer, next, shardVars, workVars, resultVars>>

\* After the last join every router and worker is cancelled.
WorkJoined ==
    /\ main = "work"
    /\ workUnfinished = 0
    /\ main' = "done"
    /\ UNCHANGED <<producer, next, shardVars, workVars, resultVars>>

Finished ==
    /\ main = "done"
    /\ UNCHANGED vars

Init ==
    /\ producer = "loop"
    /\ next = 1
    /\ shardQueue = [s \in Shards |-> <<>>]
    /\ shardUnfinished = [s \in Shards |-> 0]
    /\ routing = [s \in Shards |-> None]
    /\ workQueue = <<>>
    /\ workUnfinished = 0
    /\ working = [w \in Workers |-> None]
    /\ backingOff = {}
    /\ inbox = {}
    /\ dlq = <<>>
    /\ metrics = [admitted |-> 0, processed |-> 0, duplicates |-> 0]
    /\ main = "producer"

Running == main # "done"

Next ==
    \/ Produce
    \/ Admit
    \/ ProducerReturns
    \/ Running /\ \E s \in Shards : RouterGet(s) \/ RouterPut(s)
    \/ Running /\ \E w \in Workers : Worker(w)
    \/ ShardsJoined
    \/ WorkJoined
    \/ Finished

\* The event loop runs every task that can go on; the deadline passes.
Fairness ==
    /\ WF_vars(Produce) /\ WF_vars(Admit) /\ WF_vars(ProducerReturns)
    /\ \A s \in Shards : WF_vars(Running /\ (RouterGet(s) \/ RouterPut(s)))
    /\ \A w \in Workers : WF_vars(Running /\ Worker(w))
    /\ WF_vars(ShardsJoined) /\ WF_vars(WorkJoined)

Spec == Init /\ [][Next]_vars

FairSpec == Spec /\ Fairness

-----------------------------------------------------------------------------
(* Correctness. *)

\* Types, and bounded retry: no copy is worked on more than max_attempts times, or
\* once.
TypeOK ==
    /\ producer \in {"loop", "put", "again"}
    /\ next \in 1 .. (Len(Stream) + 1)
    /\ shardQueue \in [Shards -> Seq(Event)]
    /\ shardUnfinished \in [Shards -> Nat]
    /\ routing \in [Shards -> Event \cup {None}]
    /\ workQueue \in Seq(Event)
    /\ workUnfinished \in Nat
    /\ working \in [Workers -> Event \cup {None}]
    /\ backingOff \subseteq {w \in Workers : working[w] # None}
    /\ inbox \subseteq Ids
    /\ dlq \in Seq(Event)
    /\ \A i \in DOMAIN dlq : dlq[i].attempt = 1 \/ dlq[i].attempt <= MaxAttempts
    /\ metrics \in [admitted : Nat, processed : Nat, duplicates : Nat]
    /\ main \in {"producer", "shards", "work", "done"}

\* Copies between admission and outcome: queued, or in the hands of a task.
InFlight ==
    (UNION {{<<"shard", s, i>> : i \in DOMAIN shardQueue[s]} : s \in Shards})
        \cup {<<"router", s>> : s \in {r \in Shards : routing[r] # None}}
        \cup {<<"work", i>> : i \in DOMAIN workQueue}
        \cup {<<"worker", w>> : w \in {v \in Workers : working[v] # None}}

DeadLettered == {dlq[i].id : i \in DOMAIN dlq}

\* No copy is lost or made up at any moment: every admitted copy is in flight, an
\* effect, a suppressed duplicate or in the DLQ, through routing, failures,
\* backoff and retries.
Conservation ==
    metrics.admitted = Cardinality(InFlight) + metrics.processed
                         + metrics.duplicates + Len(dlq)

\* The inbox is the exactly-once boundary (README, scenario 4): one counted
\* effect per row, whatever copies, retries and workers there are, and a poison
\* event is never among them.
OneEffectPerEvent ==
    /\ metrics.processed = Cardinality(inbox)
    /\ inbox \cap Poison = {}

\* What run reports when it returns: both joins have seen every event to its
\* effect or to the DLQ.  Nothing is left in a queue or in the hands of a task
\* that is about to be cancelled.
NothingLeftBehind ==
    main = "done" =>
        /\ InFlight = {}
        /\ \A i \in 1 .. (next - 1) : Stream[i] \in inbox \cup DeadLettered

\* The producer's time is up, the joins return and so does run.
RunReturns == <>(main = "done")

\* README, scenario 5, "eventual success or DLQ after maximum attempts": an event
\* that a worker has taken gets its effect or goes to the DLQ.
EventuallySettled ==
    \A e \in Ids :
        (\E w \in Workers : working[w] # None /\ working[w].id = e)
            ~> e \in inbox \cup DeadLettered

=============================================================================
