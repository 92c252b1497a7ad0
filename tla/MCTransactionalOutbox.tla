----------------------- MODULE MCTransactionalOutbox ------------------------
(* Two orders, two relays and two consumers side by side, one crash. *)
EXTENDS TransactionalOutbox, TLC

CONSTANTS o1, o2, r1, r2, c1, c2
=============================================================================
