----------------------------- MODULE RetryChain -----------------------------
(***************************************************************************)
(* labs/distributed-systems/01-retry-amplification/retry_simulator.py: run  *)
(* and simulate_request, the recursion of call as a stack with one frame    *)
(* per layer that is waiting for the layer below.  Time (latency, backoff,  *)
(* jitter) is left out: it decides when an attempt happens, not whether.    *)
(***************************************************************************)
EXTENDS Integers, SequencesExt, Sums

CONSTANT Configs     \* the configurations that run is called with

\* run raises ValueError on anything else.  dependency_failure_rate is 0, 1 or
\* between them.
ASSUME RetryAssumption ==
    \A c \in Configs :
        /\ {c.logical_requests, c.service_layers} \subseteq Nat \ {0}
        /\ c.retries_per_layer \in Nat
        /\ c.failure_rate \in {"0", "between", "1"}
        /\ c.mode \in {"none", "edge", "layered"}

VARIABLES
    config,            \* the configuration, or <<>> before run is called
    frames,            \* attempt_index of each layer that is inside call, the edge first
    returned,          \* what the last call returned: "none", "success" or "failure"
    calls,             \* attempts_by_layer of the current request
    totalCalls,        \* total_calls_by_layer
    successful,        \* requests that ended with success
    failed

retryVars == <<config, frames, returned, calls, totalCalls, successful, failed>>

\* The lists that count calls are as long as the layers, the dependency included.
NoCalls(c) == [i \in 0..c.service_layers |-> 0]

RetryInit ==
    /\ config = <<>> /\ frames = <<>> /\ returned = "none"
    /\ calls = <<>> /\ totalCalls = <<>> /\ successful = 0 /\ failed = 0

\* run is called.
Run(c) ==
    /\ config = <<>>
    /\ config' = c
    /\ calls' = NoCalls(c) /\ totalCalls' = NoCalls(c)
    /\ UNCHANGED <<frames, returned, successful, failed>>

RetryLimit(layer) ==
    IF \/ config.mode = "layered"
       \/ config.mode = "edge" /\ layer = 0
    THEN config.retries_per_layer
    ELSE 0

InRequest == calls[0] > 0

Layers == IF config = <<>> THEN 0 ELSE config.service_layers

\* Mutated form: run makes one request too many.
StartRequestOnceMore ==
    /\ config # <<>> /\ ~InRequest
    /\ successful + failed <= config.logical_requests
    /\ calls' = [calls EXCEPT ![0] = 1]
    /\ frames' = <<0>>
    /\ UNCHANGED <<config, returned, totalCalls, successful, failed>>

\* simulate_request calls layer 0.
StartRequest ==
    /\ config # <<>> /\ ~InRequest
    /\ successful + failed < config.logical_requests
    /\ calls' = [calls EXCEPT ![0] = 1]
    /\ frames' = <<0>>
    /\ UNCHANGED <<config, returned, totalCalls, successful, failed>>

\* A layer above the last calls the next one.
CallLayer ==
    /\ frames # <<>> /\ returned = "none" /\ Len(frames) < Layers
    /\ calls' = [calls EXCEPT ![Len(frames)] = @ + 1]
    /\ frames' = Append(frames, 0)
    /\ UNCHANGED <<config, returned, totalCalls, successful, failed>>

\* The last layer calls the dependency, which answers at random.
CallDependency ==
    /\ frames # <<>> /\ returned = "none" /\ Len(frames) = Layers
    /\ calls' = [calls EXCEPT ![Layers] = @ + 1]
    /\ \/ config.failure_rate # "1" /\ returned' = "success"
       \/ config.failure_rate # "0" /\ returned' = "failure"
    /\ UNCHANGED <<config, frames, totalCalls, successful, failed>>

\* A success is returned to the caller at once.
ReturnSuccess ==
    /\ frames # <<>> /\ returned = "success"
    /\ frames' = Front(frames)
    /\ UNCHANGED <<config, returned, calls, totalCalls, successful, failed>>

\* Mutated form: attempt_index starts from 1, so the first call is a retry.
OneRetryLess(layer, attempt) == attempt + 1 < RetryLimit(layer)

AttemptsLeft(layer, attempt) == attempt < RetryLimit(layer)

\* A failure makes the layer call again, or is returned when its attempts are used up.
ReturnFailure ==
    /\ frames # <<>> /\ returned = "failure"
    /\ IF AttemptsLeft(Len(frames) - 1, Last(frames))
       THEN frames' = Front(frames) \o <<Last(frames) + 1>> /\ returned' = "none"
       ELSE frames' = Front(frames) /\ UNCHANGED returned
    /\ UNCHANGED <<config, calls, totalCalls, successful, failed>>

\* The request is over; run adds its calls to the totals.
EndRequest ==
    /\ frames = <<>> /\ returned # "none"
    /\ totalCalls' = [i \in 0..Layers |-> totalCalls[i] + calls[i]]
    /\ calls' = NoCalls(config)
    /\ IF returned = "success"
       THEN successful' = successful + 1 /\ UNCHANGED failed
       ELSE failed' = failed + 1 /\ UNCHANGED successful
    /\ returned' = "none"
    /\ UNCHANGED <<config, frames>>

RetryNext ==
    \/ \E c \in Configs : Run(c)
    \/ StartRequest \/ CallLayer \/ CallDependency
    \/ ReturnSuccess \/ ReturnFailure \/ EndRequest

\* overload_lab's layered_retry_attempts: the worst case for layers that retry.
LayeredRetryAttempts(retries) ==
    Product([layer \in DOMAIN retries |-> retries[layer] + 1], DOMAIN retries)

-----------------------------------------------------------------------------
RetryTypeOK ==
    /\ config \in Configs \cup {<<>>}
    /\ frames \in Seq(Nat) /\ Len(frames) <= Layers
    /\ returned \in {"none", "success", "failure"}
    /\ config # <<>> =>
        /\ calls \in [0..Layers -> Nat] /\ totalCalls \in [0..Layers -> Nat]
        /\ successful + failed \in 0..config.logical_requests

\* The retries of the layers above layer n, as the modes are documented: no layer,
\* the edge alone, every layer.
OwnedRetries(n) ==
    CASE config.mode = "none" -> <<>>
      [] config.mode = "edge" -> IF n = 0 THEN <<>> ELSE <<config.retries_per_layer>>
      [] OTHER -> [i \in 1..n |-> config.retries_per_layer]

\* The lab's claim and the formula of overload_lab: attempts multiply along the
\* chain.  A layer is never called more often than the formula says, is called
\* exactly that often when the request fails, and the totals of a run lie between
\* what its failed requests must and all its requests may have caused.
AttemptsMatchFormula ==
    config # <<>> =>
        \A n \in 0..Layers :
            LET worst == LayeredRetryAttempts(OwnedRetries(n))
            IN  /\ calls[n] <= worst
                /\ frames = <<>> /\ returned = "failure" => calls[n] = worst
                /\ totalCalls[n] <= worst * (successful + failed)
                /\ totalCalls[n] >= worst * failed + successful

=============================================================================
