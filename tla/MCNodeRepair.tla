---------------------------- MODULE MCNodeRepair ----------------------------
(* A small instance of NodeRepair: two nodes in each of two zones, with a     *)
(* writer, a critical node and two images.                                    *)
EXTENDS NodeRepair

CONSTANTS a1, a2, b1, b2, none

FourNodes == {a1, a2, b1, b2}

\* a1, a2 in zone a; b1, b2 in zone b.
TwoZones == [n \in FourNodes |-> IF n \in {a1, a2} THEN "a" ELSE "b"]

\* b1 is alone on its image.
TwoImages == [n \in FourNodes |-> IF n = b1 THEN "new" ELSE "good"]

EqualCapacity == [n \in FourNodes |-> 10]

OneCritical == [n \in FourNodes |-> n = b2]

OneWriter == [n \in FourNodes |-> n = a1]

\* a2 and b2 fail alike, b1 fails without a signature.
FailureSignatures == [n \in FourNodes |->
    CASE n = a1 -> "network" [] n \in {a2, b2} -> "disk" [] n = b1 -> none]

ByZoneAndName == [n \in FourNodes |->
    CASE n = a1 -> 1 [] n = a2 -> 2 [] n = b1 -> 3 [] n = b2 -> 4]
=============================================================================
