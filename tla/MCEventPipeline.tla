-------------------------- MODULE MCEventPipeline ---------------------------
(* Two shards; a hot shard with an ordinary and a poison event; every event  *)
(* may be submitted twice.                                                   *)
EXTENDS EventPipeline, TLC

CONSTANTS a, b, p, s1, s2, w1, w2

HotShard == (a :> s1) @@ (p :> s1) @@ (b :> s2)

ThreeEvents == <<a, p, b>>
=============================================================================
