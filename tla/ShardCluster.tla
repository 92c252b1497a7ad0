---------------------------- MODULE ShardCluster ----------------------------
(***************************************************************************)
(* The sharded store of                                                    *)
(* labs/distributed-systems/05-shard-rebalancing/shard_rebalance_demo.py:   *)
(* routers write through cached routes while migrations copy, catch up, cut *)
(* over and clean up.  Every method of Cluster is an action, and callers    *)
(* may interleave them in any order that the methods' own checks allow;     *)
(* several migrations may be in progress at once.                           *)
(*                                                                         *)
(* A record is its sequence number, which is unique (0: no record).         *)
(***************************************************************************)
EXTENDS Integers, Sequences

CONSTANTS
    Nodes, Shards, Keys, Routers,
    ShardOf,        \* hash_partition: the virtual shard of each key
    InitialOwner,   \* the owner that set_owner gives each shard at the start
    InitialEpoch,   \* and its epoch
    MaxSequence,    \* bound: accepted writes
    MaxMigrations   \* bound: migrations ever begun

ASSUME ClusterAssumption ==
    /\ ShardOf \in [Keys -> Shards]
    /\ InitialOwner \in [Shards -> Nodes]
    /\ InitialEpoch \in Nat \ {0}
    /\ MaxSequence \in Nat /\ MaxMigrations \in Nat

VARIABLES
    nodes,       \* the record each node holds under each key
    shardMap,    \* the current owner and epoch of each shard
    writeLog,    \* every accepted write; its length is self.sequence
    routes,      \* the routes each router has cached
    migrations,  \* the Migration objects, in the order they were begun
    acked,       \* history: the last acknowledged write of each key
    disciplined  \* history: no caller has broken the safe sequence so far

vars == <<nodes, shardMap, writeLog, routes, migrations, acked, disciplined>>

Entry == [owner : Nodes, epoch : Nat]

LogEntry == [shard : Shards, owner : Nodes, key : Keys]

Phases == {"prepare", "copy", "catch_up", "cutover", "cleanup"}

Migration == [shard : Shards, source : Nodes, target : Nodes, source_epoch : Nat,
              replayed_through : Nat, phase : Phases]

sequence == Len(writeLog)

KeysOf(shard) == {k \in Keys : ShardOf[k] = shard}

Authoritative(k) == nodes[shardMap[ShardOf[k]].owner][k]

Init ==
    /\ nodes = [n \in Nodes |-> [k \in Keys |-> 0]]
    /\ shardMap = [s \in Shards |-> [owner |-> InitialOwner[s], epoch |-> InitialEpoch]]
    /\ writeLog = <<>>
    /\ routes = [r \in Routers |-> shardMap]
    /\ migrations = <<>>
    /\ acked = [k \in Keys |-> 0]
    /\ disciplined = TRUE

\* snapshot_routes
RefreshRoutes(r) ==
    /\ routes' = [routes EXCEPT ![r] = shardMap]
    /\ UNCHANGED <<nodes, shardMap, writeLog, migrations, acked, disciplined>>

-----------------------------------------------------------------------------
(* write, with fencing enforced: a rejected write changes nothing. *)

\* Mutated form: routes are not compared with the shard map.
RouteCurrentUnfenced(route, shard) == route \in Entry

RouteCurrent(route, shard) ==
    /\ route.epoch = shardMap[shard].epoch
    /\ route.owner = shardMap[shard].owner

Write(r, k) ==
    LET shard == ShardOf[k]
        route == routes[r][shard]
    IN  /\ sequence < MaxSequence
        /\ RouteCurrent(route, shard)
        /\ nodes' = [nodes EXCEPT ![route.owner][k] = sequence + 1]
        /\ writeLog' = Append(writeLog, [shard |-> shard, owner |-> route.owner, key |-> k])
        /\ acked' = [acked EXCEPT ![k] = sequence + 1]
        /\ UNCHANGED <<shardMap, routes, migrations, disciplined>>

-----------------------------------------------------------------------------
(* begin_migration, copy_snapshot, catch_up, cutover, cleanup *)

Idle(shard) ==
    \A i \in DOMAIN migrations :
        migrations[i].shard = shard => migrations[i].phase = "cleanup"

BeginMigration(shard, target) ==
    /\ Len(migrations) < MaxMigrations
    /\ shardMap[shard].owner # target
    /\ migrations' = Append(migrations,
            [shard |-> shard, source |-> shardMap[shard].owner, target |-> target,
             source_epoch |-> shardMap[shard].epoch, replayed_through |-> 0,
             phase |-> "prepare"])
    /\ disciplined' = (disciplined /\ Idle(shard))
    /\ UNCHANGED <<nodes, shardMap, writeLog, routes, acked>>

\* Mutated form: the write that is next in line counts as copied.
WatermarkPast == sequence + 1

\* What a copy or a replay that ends now has seen.
Watermark == sequence

CopySnapshot(i) ==
    LET m == migrations[i] IN
    /\ m.phase = "prepare"
    /\ nodes' = [nodes EXCEPT ![m.target] = [k \in Keys |->
            IF k \in KeysOf(m.shard) /\ nodes[m.source][k] # 0
            THEN nodes[m.source][k] ELSE @[k]]]
    /\ migrations' = [migrations EXCEPT ![i].phase = "copy",
                                        ![i].replayed_through = Watermark]
    /\ UNCHANGED <<shardMap, writeLog, routes, acked, disciplined>>

\* Mutated form: the replay starts one write too late.
UnreplayedTooFew(m, k) ==
    {n \in (m.replayed_through + 2) .. sequence :
        writeLog[n] = [shard |-> m.shard, owner |-> m.source, key |-> k]}

\* The writes of k on m's source that m has not replayed.
Unreplayed(m, k) ==
    {n \in (m.replayed_through + 1) .. sequence :
        writeLog[n] = [shard |-> m.shard, owner |-> m.source, key |-> k]}

\* Replayed in log order, so that the last write of a key stays.
CatchUp(i) ==
    LET m == migrations[i] IN
    /\ m.phase \in {"copy", "catch_up"}
    /\ nodes' = [nodes EXCEPT ![m.target] = [k \in Keys |->
            IF Unreplayed(m, k) # {}
            THEN CHOOSE n \in Unreplayed(m, k) : \A o \in Unreplayed(m, k) : o <= n
            ELSE @[k]]]
    /\ migrations' = [migrations EXCEPT ![i].phase = "catch_up",
                                        ![i].replayed_through = Watermark]
    /\ UNCHANGED <<shardMap, writeLog, routes, acked, disciplined>>

\* Mutated form: ownership moves under the epoch it had.
NewEpochSame(current) == current.epoch

NewEpoch(current) == current.epoch + 1

\* require_catch_up, and ownership as it was when the migration began.
Cutover(i) ==
    LET m == migrations[i] IN
    /\ m.phase = "catch_up"
    /\ shardMap[m.shard] = [owner |-> m.source, epoch |-> m.source_epoch]
    /\ shardMap' = [shardMap EXCEPT ![m.shard] =
            [owner |-> m.target, epoch |-> NewEpoch(@)]]
    /\ migrations' = [migrations EXCEPT ![i].phase = "cutover"]
    /\ disciplined' = (disciplined /\ \A k \in Keys : Unreplayed(m, k) = {})
    /\ UNCHANGED <<nodes, writeLog, routes, acked>>

Cleanup(i) ==
    LET m == migrations[i] IN
    /\ m.phase = "cutover"
    /\ nodes' = [nodes EXCEPT ![m.source] = [k \in Keys |->
            IF k \in KeysOf(m.shard) THEN 0 ELSE @[k]]]
    /\ migrations' = [migrations EXCEPT ![i].phase = "cleanup"]
    /\ UNCHANGED <<shardMap, writeLog, routes, acked, disciplined>>

Next ==
    \/ \E r \in Routers : RefreshRoutes(r)
    \/ \E r \in Routers, k \in Keys : Write(r, k)
    \/ \E shard \in Shards, target \in Nodes : BeginMigration(shard, target)
    \/ \E i \in DOMAIN migrations : CopySnapshot(i)
    \/ \E i \in DOMAIN migrations : CatchUp(i)
    \/ \E i \in DOMAIN migrations : Cutover(i)
    \/ \E i \in DOMAIN migrations : Cleanup(i)

Spec == Init /\ [][Next]_vars

-----------------------------------------------------------------------------
(* Correctness. *)

TypeOK ==
    /\ nodes \in [Nodes -> [Keys -> 0 .. sequence]]
    /\ shardMap \in [Shards -> Entry]
    /\ writeLog \in Seq(LogEntry)
    /\ routes \in [Routers -> [Shards -> Entry]]
    /\ migrations \in Seq(Migration)
    /\ \A i \in DOMAIN migrations : migrations[i].replayed_through <= sequence
    /\ acked \in [Keys -> 0 .. sequence]
    /\ disciplined \in BOOLEAN

\* README, first invariant, and what it takes: as long as a shard has one
\* migration at a time and each cutover finds every write of its source replayed,
\* the authoritative copy of every key is its last acknowledged write, at every
\* moment of every migration.  simulate_rebalance(safe=True) is such a caller.
AcknowledgedWritesSurvive ==
    disciplined => \A k \in Keys : Authoritative(k) = acked[k]

\* README, first invariant, as written, for any order of calls that the methods
\* of Cluster accept.
EveryAcknowledgedWriteSurvives ==
    \A k \in Keys : Authoritative(k) = acked[k]

\* Everything that names the owner of a shard: the map, the routers' caches and
\* the migrations.
Claims(shard) ==
    {shardMap[shard]}
        \cup {routes[r][shard] : r \in Routers}
        \cup {[owner |-> migrations[i].source, epoch |-> migrations[i].source_epoch] :
                i \in {j \in DOMAIN migrations : migrations[j].shard = shard}}

\* An epoch of a shard never names two owners, however stale the cache or the
\* migration that remembers it: comparing epochs is enough to fence.
EpochNamesOneOwner ==
    \A shard \in Shards : \A c, d \in Claims(shard) :
        c.epoch = d.epoch => c.owner = d.owner

\* README, second invariant: a node that does not own a shard gets new records of
\* it only as the target of a migration, never from a router.
FormerOwnerFrozen ==
    [][\A n \in Nodes, k \in Keys :
        nodes'[n][k] \notin {0, nodes[n][k]} =>
            \/ shardMap[ShardOf[k]].owner = n
            \/ \E i \in DOMAIN migrations :
                   /\ migrations[i].shard = ShardOf[k]
                   /\ migrations[i].target = n
                   /\ migrations[i].phase \in {"prepare", "copy", "catch_up"}]_vars

=============================================================================
