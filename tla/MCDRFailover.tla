---------------------------- MODULE MCDRFailover ----------------------------
(* A small instance of DRFailover: two gates of each region may change, one   *)
(* of them the application gate, which is also the trigger of the failover;   *)
(* calls of run_until_stable that may run out of steps and calls that may not. *)
EXTENDS DRFailover

FallibleGates == {"application", "observability"}

\* 16 = 8 transitions and two shifts of 4 steps (3 when nothing is rounded); 3 runs
\* out in most states.
CallLimits == {3, 16}
=============================================================================
