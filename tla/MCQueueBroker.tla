--------------------------- MODULE MCQueueBroker ----------------------------
(* Two workers, and three messages of one group under two ids, so that one   *)
(* message may come back under an id that was used before.                   *)
EXTENDS QueueBroker, TLC

CONSTANTS d1, d2, w1, w2

OneAccount == (d1 :> "account-1") @@ (d2 :> "account-1")
=============================================================================
