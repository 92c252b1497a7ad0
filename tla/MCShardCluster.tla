--------------------------- MODULE MCShardCluster ---------------------------
(* Two nodes, two shards with one key each, and enough migrations for one to *)
(* come back to its first owner or to collide with another.                  *)
EXTENDS ShardCluster, TLC

CONSTANTS A, B, k1, k2, r1, r2

ShardOfKey == (k1 :> 0) @@ (k2 :> 1)

FirstOwner == (0 :> A) @@ (1 :> B)

AnyRouter == Permutations(Routers)
=============================================================================
