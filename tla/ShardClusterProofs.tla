------------------------- MODULE ShardClusterProofs -------------------------
(***************************************************************************)
(* Machine-checked proofs about ShardCluster, for any nodes, shards, keys,  *)
(* routers and placement, and any number of writes and migrations.          *)
(***************************************************************************)
EXTENDS ShardCluster, TLAPS, SequenceTheorems, WellFoundedInduction

-----------------------------------------------------------------------------
(* Types. *)

\* A set of sequence numbers has a greatest member, which CatchUp chooses.
LEMMA LastExists ==
    ASSUME NEW top \in Nat, NEW S, S \subseteq 0 .. top, S # {}
    PROVE  \E n \in S : \A o \in S : o <= n
<1> DEFINE T == {top - n : n \in S}
<1>1. T \subseteq Nat /\ T # {}
  <2>1. \A n \in S : top - n \in Nat
    OBVIOUS
  <2>2. QED
    BY <2>1
<1>2. PICK x \in T : \A y \in T : ~(<<y, x>> \in OpToRel(<, Nat))
  <2> HIDE DEF T
  <2> QED
    BY <1>1, WFMin, NatLessThanWellFounded
<1>3. \A y \in T : x <= y
  <2> SUFFICES ASSUME NEW y \in T, y < x PROVE FALSE
    BY <1>1
  <2>1. <<y, x>> \in OpToRel(<, Nat)
    BY <1>1 DEF OpToRel
  <2>2. QED
    BY <1>2, <2>1
<1>4. PICK n \in S : x = top - n
  OBVIOUS
<1>5. ASSUME NEW o \in S PROVE o <= n
  <2>1. top - o \in T
    OBVIOUS
  <2>2. x <= top - o
    BY <1>3, <2>1
  <2>3. QED
    BY <1>4, <2>2
<1>6. QED
  BY <1>5

\* Replacing one migration of the list keeps the list's type.
LEMMA MigrationReplaced ==
    ASSUME NEW ms \in Seq(Migration), NEW i \in DOMAIN ms, NEW m \in Migration
    PROVE  /\ [ms EXCEPT ![i] = m] \in Seq(Migration)
           /\ DOMAIN [ms EXCEPT ![i] = m] = DOMAIN ms
           /\ \A j \in DOMAIN ms : [ms EXCEPT ![i] = m][j] = IF j = i THEN m ELSE ms[j]
  BY ExceptSeq, LenProperties

\* A migration that only goes to another phase.
LEMMA MigrationAdvanced ==
    ASSUME NEW m \in Migration, NEW p \in Phases
    PROVE  /\ [m EXCEPT !.phase = p] \in Migration
           /\ [m EXCEPT !.phase = p].replayed_through = m.replayed_through
  BY DEF Migration

LEMMA InitType == Init => TypeOK
<1> SUFFICES ASSUME Init PROVE TypeOK
  OBVIOUS
<1>1. sequence = 0
  BY DEF Init, sequence
<1>2. shardMap \in [Shards -> Entry]
  BY ClusterAssumption DEF Init, Entry, ClusterAssumption
<1>3. 0 \in 0 .. sequence
  BY <1>1
<1>4. nodes \in [Nodes -> [Keys -> 0 .. sequence]] /\ acked \in [Keys -> 0 .. sequence]
  BY <1>3 DEF Init
<1>5. QED
  BY <1>2, <1>4 DEF Init, TypeOK

LEMMA RefreshRoutesType ==
    ASSUME TypeOK, NEW r \in Routers, RefreshRoutes(r)
    PROVE  TypeOK'
  BY DEF TypeOK, RefreshRoutes, sequence

LEMMA WriteType ==
    ASSUME TypeOK, NEW r \in Routers, NEW k \in Keys, Write(r, k)
    PROVE  TypeOK'
<1> DEFINE shard == ShardOf[k]
           route == routes[r][shard]
           entry == [shard |-> shard, owner |-> route.owner, key |-> k]
<1>1. shard \in Shards /\ route \in Entry /\ route.owner \in Nodes
  BY ClusterAssumption DEF ClusterAssumption, TypeOK, Entry
<1>2. entry \in LogEntry
  BY <1>1 DEF LogEntry
<1>3. /\ writeLog' = Append(writeLog, entry)
      /\ nodes' = [nodes EXCEPT ![route.owner][k] = sequence + 1]
      /\ acked' = [acked EXCEPT ![k] = sequence + 1]
      /\ UNCHANGED <<shardMap, routes, migrations, disciplined>>
  BY DEF Write
<1> HIDE DEF entry, route, shard
<1>4. /\ writeLog' \in Seq(LogEntry)
      /\ sequence \in Nat
      /\ sequence' = sequence + 1
  BY <1>2, <1>3 DEF TypeOK, sequence
<1>5. 0 .. sequence \subseteq 0 .. sequence' /\ sequence + 1 \in 0 .. sequence'
  BY <1>4
<1>6. nodes' \in [Nodes -> [Keys -> 0 .. sequence']]
  BY <1>1, <1>3, <1>5 DEF TypeOK
<1>7. acked' \in [Keys -> 0 .. sequence']
  BY <1>3, <1>5 DEF TypeOK
<1>8. \A i \in DOMAIN migrations' : migrations'[i].replayed_through <= sequence'
  <2> SUFFICES ASSUME NEW i \in DOMAIN migrations
               PROVE  migrations[i].replayed_through <= sequence'
    BY <1>3
  <2>1. migrations[i] \in Migration /\ migrations[i].replayed_through <= sequence
    BY DEF TypeOK
  <2>2. migrations[i].replayed_through \in Nat
    BY <2>1 DEF Migration
  <2>3. QED
    BY <2>1, <2>2, <1>4
<1>9. QED
  BY <1>3, <1>4, <1>6, <1>7, <1>8 DEF TypeOK

LEMMA BeginMigrationType ==
    ASSUME TypeOK, NEW shard \in Shards, NEW target \in Nodes, BeginMigration(shard, target)
    PROVE  TypeOK'
<1> DEFINE m == [shard |-> shard, source |-> shardMap[shard].owner, target |-> target,
                 source_epoch |-> shardMap[shard].epoch, replayed_through |-> 0,
                 phase |-> "prepare"]
<1>1. m \in Migration
  BY DEF TypeOK, Entry, Migration, Phases
<1>2. /\ migrations' = Append(migrations, m)
      /\ UNCHANGED <<nodes, shardMap, writeLog, routes, acked>>
  BY DEF BeginMigration
<1>3. m.replayed_through = 0
  OBVIOUS
<1> HIDE DEF m
<1>4. /\ migrations' \in Seq(Migration)
      /\ DOMAIN migrations' = 1 .. (Len(migrations) + 1)
      /\ \A i \in DOMAIN migrations' :
            migrations'[i] = IF i = Len(migrations) + 1 THEN m ELSE migrations[i]
  BY <1>1, <1>2 DEF TypeOK
<1>5. sequence \in Nat /\ sequence' = sequence
  BY <1>2 DEF TypeOK, sequence
<1>6. \A i \in DOMAIN migrations' : migrations'[i].replayed_through <= sequence'
  <2> SUFFICES ASSUME NEW i \in DOMAIN migrations'
               PROVE  migrations'[i].replayed_through <= sequence'
    OBVIOUS
  <2>1. CASE i = Len(migrations) + 1
    BY <2>1, <1>3, <1>4, <1>5
  <2>2. CASE i # Len(migrations) + 1
    <3>1. i \in DOMAIN migrations
      BY <2>2, <1>4 DEF TypeOK
    <3>2. migrations[i].replayed_through <= sequence
      BY <3>1 DEF TypeOK
    <3>3. QED
      BY <2>2, <3>2, <1>4, <1>5
  <2>3. QED
    BY <2>1, <2>2
<1>7. disciplined' \in BOOLEAN
  BY DEF BeginMigration, TypeOK
<1>8. QED
  BY <1>2, <1>4, <1>5, <1>6, <1>7 DEF TypeOK

\* A step of migration i that replaces it by m and the target's or source's records
\* by ones of the right type.
LEMMA MigrationStepType ==
    ASSUME TypeOK, NEW i \in DOMAIN migrations, NEW m \in Migration,
           m.replayed_through <= sequence,
           migrations' = [migrations EXCEPT ![i] = m],
           nodes' \in [Nodes -> [Keys -> 0 .. sequence]],
           shardMap' \in [Shards -> Entry],
           disciplined' \in BOOLEAN,
           UNCHANGED <<writeLog, routes, acked>>
    PROVE  TypeOK'
<1>1. sequence' = sequence
  BY DEF sequence
<1>2. /\ migrations' \in Seq(Migration)
      /\ DOMAIN migrations' = DOMAIN migrations
      /\ \A j \in DOMAIN migrations : migrations'[j] = IF j = i THEN m ELSE migrations[j]
  BY MigrationReplaced DEF TypeOK
<1>3. \A j \in DOMAIN migrations' : migrations'[j].replayed_through <= sequence'
  BY <1>1, <1>2 DEF TypeOK
<1>4. QED
  BY <1>1, <1>2, <1>3 DEF TypeOK

LEMMA CopySnapshotType ==
    ASSUME TypeOK, NEW i \in DOMAIN migrations, CopySnapshot(i)
    PROVE  TypeOK'
<1> DEFINE m == [migrations[i] EXCEPT !.phase = "copy", !.replayed_through = sequence]
<1>1. migrations[i] \in Migration /\ sequence \in Nat
  BY DEF TypeOK, sequence
<1>2. m \in Migration /\ m.replayed_through <= sequence
  <2>1. "copy" \in Phases
    BY DEF Phases
  <2>2. m \in Migration
    BY <1>1, <2>1 DEF Migration
  <2>3. m.replayed_through = sequence
    BY <1>1 DEF Migration
  <2>4. QED
    BY <1>1, <2>2, <2>3
<1>3. migrations' = [migrations EXCEPT ![i] = m]
  BY DEF CopySnapshot, Watermark, TypeOK
<1>4. nodes' \in [Nodes -> [Keys -> 0 .. sequence]]
  BY <1>1 DEF CopySnapshot, TypeOK, Migration
<1>5. QED
  BY <1>2, <1>3, <1>4, MigrationStepType DEF CopySnapshot, TypeOK

LEMMA CatchUpType ==
    ASSUME TypeOK, NEW i \in DOMAIN migrations, CatchUp(i)
    PROVE  TypeOK'
<1> DEFINE m == [migrations[i] EXCEPT !.phase = "catch_up", !.replayed_through = sequence]
           last(k) == CHOOSE n \in Unreplayed(migrations[i], k) :
                        \A o \in Unreplayed(migrations[i], k) : o <= n
<1>1. migrations[i] \in Migration /\ sequence \in Nat
  BY DEF TypeOK, sequence
<1>2. m \in Migration /\ m.replayed_through <= sequence
  <2>1. "catch_up" \in Phases
    BY DEF Phases
  <2>2. m \in Migration
    BY <1>1, <2>1 DEF Migration
  <2>3. m.replayed_through = sequence
    BY <1>1 DEF Migration
  <2>4. QED
    BY <1>1, <2>2, <2>3
<1>3. migrations' = [migrations EXCEPT ![i] = m]
  BY DEF CatchUp, Watermark, TypeOK
<1>4. ASSUME NEW k \in Keys, Unreplayed(migrations[i], k) # {}
      PROVE  last(k) \in 0 .. sequence
  <2>1. Unreplayed(migrations[i], k) \subseteq 0 .. sequence
    BY <1>1 DEF Unreplayed, Migration
  <2>2. last(k) \in Unreplayed(migrations[i], k)
    BY <1>1, <1>4, <2>1, LastExists
  <2>3. QED
    BY <2>1, <2>2
<1>5. nodes' = [nodes EXCEPT ![migrations[i].target] = [k \in Keys |->
                  IF Unreplayed(migrations[i], k) # {} THEN last(k) ELSE @[k]]]
  BY DEF CatchUp
<1> HIDE DEF last
<1>6. nodes' \in [Nodes -> [Keys -> 0 .. sequence]]
  BY <1>1, <1>4, <1>5 DEF TypeOK, Migration
<1>7. QED
  BY <1>2, <1>3, <1>6, MigrationStepType DEF CatchUp, TypeOK

LEMMA CutoverType ==
    ASSUME TypeOK, NEW i \in DOMAIN migrations, Cutover(i)
    PROVE  TypeOK'
<1> DEFINE m == [migrations[i] EXCEPT !.phase = "cutover"]
<1>1. migrations[i] \in Migration /\ migrations[i].replayed_through <= sequence
  BY DEF TypeOK
<1>2. m \in Migration /\ m.replayed_through <= sequence
  BY <1>1, MigrationAdvanced DEF Phases
<1>3. migrations' = [migrations EXCEPT ![i] = m]
  BY DEF Cutover, TypeOK
<1>4. shardMap' \in [Shards -> Entry]
  <2>1. /\ migrations[i].shard \in Shards
        /\ migrations[i].target \in Nodes
    BY <1>1 DEF Migration
  <2>2. [owner |-> migrations[i].target, epoch |-> shardMap[migrations[i].shard].epoch + 1] \in Entry
    BY <2>1 DEF TypeOK, Entry
  <2>3. QED
    BY <2>1, <2>2 DEF Cutover, NewEpoch, TypeOK
<1>5. disciplined' \in BOOLEAN
  BY DEF Cutover, TypeOK
<1>6. QED
  BY <1>2, <1>3, <1>4, <1>5, MigrationStepType DEF Cutover, TypeOK

LEMMA CleanupType ==
    ASSUME TypeOK, NEW i \in DOMAIN migrations, Cleanup(i)
    PROVE  TypeOK'
<1> DEFINE m == [migrations[i] EXCEPT !.phase = "cleanup"]
<1>1. /\ migrations[i] \in Migration /\ migrations[i].replayed_through <= sequence
      /\ sequence \in Nat
  BY DEF TypeOK, sequence
<1>2. m \in Migration /\ m.replayed_through <= sequence
  BY <1>1, MigrationAdvanced DEF Phases
<1>3. migrations' = [migrations EXCEPT ![i] = m]
  BY DEF Cleanup, TypeOK
<1>4. nodes' \in [Nodes -> [Keys -> 0 .. sequence]]
  BY <1>1 DEF Cleanup, TypeOK, Migration
<1>5. QED
  BY <1>2, <1>3, <1>4, MigrationStepType DEF Cleanup, TypeOK

LEMMA NextType == TypeOK /\ [Next]_vars => TypeOK'
<1> SUFFICES ASSUME TypeOK, [Next]_vars PROVE TypeOK'
  OBVIOUS
<1>1. CASE UNCHANGED vars
  BY <1>1 DEF vars, TypeOK, sequence
<1>2. CASE Next
  BY <1>2, RefreshRoutesType, WriteType, BeginMigrationType, CopySnapshotType,
     CatchUpType, CutoverType, CleanupType DEF Next
<1>3. QED
  BY <1>1, <1>2

\* Type correctness of the cluster: records and watermarks never run ahead of the
\* write log, for any number of writes and migrations.
THEOREM TypeCorrect == Spec => []TypeOK
  BY InitType, NextType, PTL DEF Spec

-----------------------------------------------------------------------------
(* Epochs.  Whoever remembers an owner of a shard, the map, a cache or a     *)
(* migration, remembers an epoch that is not above the map's: this makes     *)
(* EpochNamesOneOwner inductive, since a cutover goes above all of them.     *)

EpochsBehindMap ==
    \A shard \in Shards : \A c \in Claims(shard) : c.epoch <= shardMap[shard].epoch

EpochInv == TypeOK /\ EpochsBehindMap /\ EpochNamesOneOwner

\* What a migration remembers of its source.
Remembered(m) == [owner |-> m.source, epoch |-> m.source_epoch]

LEMMA ClaimTypes ==
    ASSUME TypeOK, NEW shard \in Shards
    PROVE  /\ Claims(shard) \subseteq Entry
           /\ shardMap[shard] \in Claims(shard)
<1>1. \A i \in DOMAIN migrations : Remembered(migrations[i]) \in Entry
  <2> SUFFICES ASSUME NEW i \in DOMAIN migrations
               PROVE  Remembered(migrations[i]) \in Entry
    OBVIOUS
  <2>1. migrations[i] \in Migration
    BY DEF TypeOK
  <2>2. QED
    BY <2>1 DEF Remembered, Migration, Entry
<1>2. QED
  BY <1>1 DEF Claims, TypeOK, Remembered

\* A step that adds no claim about any shard preserves the invariant.
LEMMA NoNewClaims ==
    ASSUME EpochInv, TypeOK', shardMap' = shardMap,
           \A shard \in Shards : Claims(shard)' \subseteq Claims(shard)
    PROVE  EpochInv'
  BY DEF EpochInv, EpochsBehindMap, EpochNamesOneOwner

\* The migrations of a shard and what they remember do not change.
LEMMA SameClaims ==
    ASSUME TypeOK, NEW i \in DOMAIN migrations, NEW m,
           m.shard = migrations[i].shard, Remembered(m) = Remembered(migrations[i]),
           migrations' = [migrations EXCEPT ![i] = m],
           shardMap' = shardMap, routes' = routes
    PROVE  \A shard \in Shards : Claims(shard)' \subseteq Claims(shard)
<1>1. /\ DOMAIN migrations' = DOMAIN migrations
      /\ \A j \in DOMAIN migrations :
            /\ migrations'[j].shard = migrations[j].shard
            /\ Remembered(migrations'[j]) = Remembered(migrations[j])
  BY DEF TypeOK
<1>2. QED
  BY <1>1 DEF Claims, Remembered

LEMMA EpochInit == Init => EpochInv
<1> SUFFICES ASSUME Init PROVE EpochInv
  OBVIOUS
<1>1. TypeOK
  BY InitType
<1>2. \A shard \in Shards : Claims(shard) = {shardMap[shard]}
  BY DEF Init, Claims
<1>3. \A shard \in Shards : shardMap[shard].epoch \in Nat
  BY <1>1 DEF TypeOK, Entry
<1>4. QED
  BY <1>1, <1>2, <1>3 DEF EpochInv, EpochsBehindMap, EpochNamesOneOwner

LEMMA EpochBegin ==
    ASSUME EpochInv, NEW shard \in Shards, NEW target \in Nodes, BeginMigration(shard, target)
    PROVE  EpochInv'
<1>1. TypeOK /\ TypeOK'
  BY BeginMigrationType DEF EpochInv
<1>2. PICK m : /\ migrations' = Append(migrations, m)
               /\ m.shard = shard
               /\ Remembered(m) = shardMap[shard]
  <2> DEFINE m == [shard |-> shard, source |-> shardMap[shard].owner, target |-> target,
                   source_epoch |-> shardMap[shard].epoch, replayed_through |-> 0,
                   phase |-> "prepare"]
  <2>1. migrations' = Append(migrations, m) /\ m.shard = shard
    BY DEF BeginMigration
  <2>2. Remembered(m) = shardMap[shard]
    BY <1>1 DEF Remembered, TypeOK, Entry
  <2>3. QED
    BY <2>1, <2>2
<1>3. /\ DOMAIN migrations' = 1 .. (Len(migrations) + 1)
      /\ DOMAIN migrations = 1 .. Len(migrations)
      /\ Len(migrations) \in Nat
      /\ \A j \in DOMAIN migrations : migrations'[j] = migrations[j]
      /\ migrations'[Len(migrations) + 1] = m
  BY <1>1, <1>2 DEF TypeOK
<1>4. shardMap' = shardMap /\ routes' = routes
  BY DEF BeginMigration
<1>5. ASSUME NEW s \in Shards PROVE Claims(s)' \subseteq Claims(s)
  <2>1. \A j \in DOMAIN migrations' :
            \/ j \in DOMAIN migrations /\ migrations'[j] = migrations[j]
            \/ migrations'[j].shard = shard /\ Remembered(migrations'[j]) = shardMap[shard]
    BY <1>2, <1>3
  <2>2. QED
    BY <1>4, <2>1 DEF Claims, Remembered
<1>6. QED
  BY <1>1, <1>4, <1>5, NoNewClaims

\* A cutover raises the epoch above every claim about its shard.
LEMMA EpochCutover ==
    ASSUME EpochInv, NEW i \in DOMAIN migrations, Cutover(i)
    PROVE  EpochInv'
<1> DEFINE shard == migrations[i].shard
<1>1. TypeOK /\ TypeOK'
  BY CutoverType DEF EpochInv
<1>2. shard \in Shards
  <2>1. migrations[i] \in Migration
    BY <1>1 DEF TypeOK
  <2>2. QED
    BY <2>1 DEF Migration
<1>3. /\ DOMAIN migrations' = DOMAIN migrations
      /\ \A j \in DOMAIN migrations :
            /\ migrations'[j].shard = migrations[j].shard
            /\ Remembered(migrations'[j]) = Remembered(migrations[j])
  <2>1. migrations' = [migrations EXCEPT ![i] = [migrations[i] EXCEPT !.phase = "cutover"]]
    BY <1>1 DEF Cutover, TypeOK
  <2>2. migrations[i] \in Migration
    BY <1>1 DEF TypeOK
  <2>3. /\ [migrations[i] EXCEPT !.phase = "cutover"].shard = migrations[i].shard
        /\ Remembered([migrations[i] EXCEPT !.phase = "cutover"]) = Remembered(migrations[i])
    BY <2>2 DEF Migration, Remembered
  <2>4. QED
    BY <1>1, <2>1, <2>3 DEF TypeOK
<1>4. /\ routes' = routes
      /\ \A s \in Shards : s # shard => shardMap'[s] = shardMap[s]
      /\ shardMap'[shard].epoch = shardMap[shard].epoch + 1
  BY <1>1, <1>2 DEF Cutover, NewEpoch, TypeOK
<1>5. ASSUME NEW s \in Shards PROVE Claims(s)' \subseteq Claims(s) \cup {shardMap'[s]}
  <2> SUFFICES ASSUME NEW c \in Claims(s)' PROVE c \in Claims(s) \cup {shardMap'[s]}
    OBVIOUS
  <2>1. CASE c \in {routes'[r][s] : r \in Routers}
    BY <1>4, <2>1 DEF Claims
  <2>2. CASE \E j \in DOMAIN migrations' :
                migrations'[j].shard = s /\ c = Remembered(migrations'[j])
    BY <1>3, <2>2 DEF Claims, Remembered
  <2>3. QED
    BY <2>1, <2>2 DEF Claims, Remembered
<1>6. \A s \in Shards : \A c \in Claims(s) : c.epoch \in Nat /\ shardMap[s].epoch \in Nat
  BY <1>1, ClaimTypes DEF Entry, TypeOK
<1>7. EpochsBehindMap'
  <2> SUFFICES ASSUME NEW s \in Shards, NEW c \in Claims(s)'
               PROVE  c.epoch <= shardMap'[s].epoch
    BY DEF EpochsBehindMap
  <2>1. shardMap'[s].epoch \in Nat
    BY <1>1 DEF TypeOK, Entry
  <2>2. CASE c = shardMap'[s]
    BY <2>1, <2>2
  <2>3. CASE c \in Claims(s)
    <3>1. c.epoch <= shardMap[s].epoch
      BY <2>3 DEF EpochInv, EpochsBehindMap
    <3>2. QED
      BY <1>4, <1>6, <2>3, <3>1
  <2>4. QED
    BY <1>5, <2>2, <2>3
<1>8. EpochNamesOneOwner'
  <2> SUFFICES ASSUME NEW s \in Shards, NEW c \in Claims(s)', NEW d \in Claims(s)',
                      c.epoch = d.epoch
               PROVE  c.owner = d.owner
    BY DEF EpochNamesOneOwner
  <2>1. CASE c \in Claims(s) /\ d \in Claims(s)
    BY <2>1 DEF EpochInv, EpochNamesOneOwner
  <2>2. CASE s # shard
    <3>1. c \in Claims(s) /\ d \in Claims(s)
      BY <1>1, <1>4, <1>5, <2>2, ClaimTypes
    <3>2. QED
      BY <2>1, <3>1
  <2>3. CASE s = shard
    <3>1. \A o \in Claims(s) : o.epoch < shardMap'[s].epoch
      BY <1>2, <1>4, <1>6, <2>3 DEF EpochInv, EpochsBehindMap
    <3>2. shardMap'[s].epoch \in Nat
      BY <1>1 DEF TypeOK, Entry
    <3>3. \A o \in Claims(s) : o.epoch # shardMap'[s].epoch
      BY <1>6, <3>1, <3>2
    <3>4. QED
      BY <1>5, <2>1, <3>3
  <2>4. QED
    BY <2>2, <2>3
<1>9. QED
  BY <1>1, <1>7, <1>8 DEF EpochInv

LEMMA EpochNext == EpochInv /\ [Next]_vars => EpochInv'
<1> SUFFICES ASSUME EpochInv, [Next]_vars PROVE EpochInv'
  OBVIOUS
<1>0. TypeOK /\ TypeOK'
  BY NextType DEF EpochInv
<1>1. CASE UNCHANGED vars
  BY <1>0, <1>1, NoNewClaims DEF vars, Claims
<1>2. ASSUME NEW r \in Routers, RefreshRoutes(r) PROVE EpochInv'
  <2>1. \A shard \in Shards : Claims(shard)' \subseteq Claims(shard)
    BY <1>0, <1>2 DEF RefreshRoutes, Claims, TypeOK
  <2>2. QED
    BY <1>0, <1>2, <2>1, NoNewClaims DEF RefreshRoutes
<1>3. ASSUME NEW r \in Routers, NEW k \in Keys, Write(r, k) PROVE EpochInv'
  BY <1>0, <1>3, NoNewClaims DEF Write, Claims
<1>4. ASSUME NEW i \in DOMAIN migrations, CopySnapshot(i) \/ CatchUp(i) \/ Cleanup(i)
      PROVE  EpochInv'
  <2>1. PICK m : /\ migrations' = [migrations EXCEPT ![i] = m]
                 /\ m.shard = migrations[i].shard
                 /\ Remembered(m) = Remembered(migrations[i])
    <3>1. migrations[i] \in Migration
      BY <1>0 DEF TypeOK
    <3>2. CASE CopySnapshot(i)
      <4> DEFINE m == [migrations[i] EXCEPT !.phase = "copy", !.replayed_through = Watermark]
      <4>1. migrations' = [migrations EXCEPT ![i] = m]
        BY <1>0, <3>2 DEF CopySnapshot, TypeOK
      <4>2. m.shard = migrations[i].shard /\ Remembered(m) = Remembered(migrations[i])
        BY <3>1 DEF Migration, Remembered
      <4>3. QED
        BY <4>1, <4>2
    <3>3. CASE CatchUp(i)
      <4> DEFINE m == [migrations[i] EXCEPT !.phase = "catch_up", !.replayed_through = Watermark]
      <4>1. migrations' = [migrations EXCEPT ![i] = m]
        BY <1>0, <3>3 DEF CatchUp, TypeOK
      <4>2. m.shard = migrations[i].shard /\ Remembered(m) = Remembered(migrations[i])
        BY <3>1 DEF Migration, Remembered
      <4>3. QED
        BY <4>1, <4>2
    <3>4. CASE Cleanup(i)
      <4> DEFINE m == [migrations[i] EXCEPT !.phase = "cleanup"]
      <4>1. migrations' = [migrations EXCEPT ![i] = m]
        BY <1>0, <3>4 DEF Cleanup, TypeOK
      <4>2. m.shard = migrations[i].shard /\ Remembered(m) = Remembered(migrations[i])
        BY <3>1 DEF Migration, Remembered
      <4>3. QED
        BY <4>1, <4>2
    <3>5. QED
      BY <1>4, <3>2, <3>3, <3>4
  <2>2. shardMap' = shardMap /\ routes' = routes
    BY <1>4 DEF CopySnapshot, CatchUp, Cleanup
  <2>3. QED
    BY <1>0, <2>1, <2>2, SameClaims, NoNewClaims
<1>5. QED
  BY <1>1, <1>2, <1>3, <1>4, EpochBegin, EpochCutover DEF Next

\* No epoch of a shard ever names two owners, whoever remembers it and for however
\* long: comparing epochs is enough to fence a stale router or migration.
THEOREM EpochsFence == Spec => []EpochNamesOneOwner
<1>1. EpochInv => EpochNamesOneOwner
  BY DEF EpochInv
<1>2. QED
  BY <1>1, EpochInit, EpochNext, PTL DEF Spec

-----------------------------------------------------------------------------
(* Former owners.  A replay writes what the log says, so the log must file   *)
(* every write under the shard of its key.                                   *)

LogFiled == \A n \in 1 .. sequence : writeLog[n].shard = ShardOf[writeLog[n].key]

LEMMA LogFiledInit == Init => LogFiled
<1> SUFFICES ASSUME Init PROVE LogFiled
  OBVIOUS
<1>1. sequence = 0
  BY DEF Init, sequence
<1>2. QED
  BY <1>1 DEF LogFiled

LEMMA LogFiledNext == TypeOK /\ LogFiled /\ [Next]_vars => LogFiled'
<1> SUFFICES ASSUME TypeOK, LogFiled, [Next]_vars PROVE LogFiled'
  OBVIOUS
<1>1. ASSUME NEW r \in Routers, NEW k \in Keys, Write(r, k) PROVE LogFiled'
  <2> DEFINE e == [shard |-> ShardOf[k], owner |-> routes[r][ShardOf[k]].owner, key |-> k]
  <2>1. writeLog' = Append(writeLog, e) /\ e.shard = ShardOf[e.key]
    BY <1>1 DEF Write
  <2>2. ShardOf[k] \in Shards /\ routes[r][ShardOf[k]].owner \in Nodes
    BY ClusterAssumption DEF ClusterAssumption, TypeOK, Entry
  <2>3. e \in LogEntry /\ writeLog \in Seq(LogEntry)
    BY <2>2 DEF LogEntry, TypeOK
  <2> HIDE DEF e
  <2>4. /\ sequence \in Nat /\ sequence' = sequence + 1
        /\ writeLog'[sequence + 1] = e
        /\ \A n \in 1 .. sequence : writeLog'[n] = writeLog[n]
    BY <2>1, <2>3, AppendProperties DEF sequence
  <2>5. \A n \in 1 .. sequence' : n \in 1 .. sequence \/ n = sequence + 1
    BY <2>4
  <2>6. \A n \in 1 .. sequence' : writeLog'[n].shard = ShardOf[writeLog'[n].key]
    BY <2>1, <2>4, <2>5 DEF LogFiled
  <2>7. QED
    BY <2>6 DEF LogFiled
<1>2. CASE writeLog' = writeLog
  BY <1>2 DEF LogFiled, sequence
<1>3. QED
  BY <1>1, <1>2 DEF Next, vars, RefreshRoutes, BeginMigration, CopySnapshot, CatchUp,
     Cutover, Cleanup

LEMMA LogFiledAlways == Spec => [](TypeOK /\ LogFiled)
<1>1. Init => TypeOK /\ LogFiled
  BY InitType, LogFiledInit
<1>2. TypeOK /\ LogFiled /\ [Next]_vars => TypeOK' /\ LogFiled'
  BY NextType, LogFiledNext
<1>3. QED
  BY <1>1, <1>2, PTL DEF Spec

\* New records reach a node only from a router when it owns their shard, or as the
\* target of a migration that is under way.
THEOREM FormerOwnersStayFrozen == Spec => FormerOwnerFrozen
<1> DEFINE Allowed(n, k) ==
              \/ shardMap[ShardOf[k]].owner = n
              \/ \E i \in DOMAIN migrations :
                     /\ migrations[i].shard = ShardOf[k]
                     /\ migrations[i].target = n
                     /\ migrations[i].phase \in {"prepare", "copy", "catch_up"}
<1>1. TypeOK /\ LogFiled /\ [Next]_vars =>
        [\A n \in Nodes, k \in Keys :
            nodes'[n][k] \notin {0, nodes[n][k]} => Allowed(n, k)]_vars
  <2> SUFFICES ASSUME TypeOK, LogFiled, Next, NEW n \in Nodes, NEW k \in Keys,
                      nodes'[n][k] \notin {0, nodes[n][k]}
               PROVE  Allowed(n, k)
    OBVIOUS
  <2>0. nodes \in [Nodes -> [Keys -> 0 .. sequence]]
    BY DEF TypeOK
  <2>1. ASSUME NEW r \in Routers, NEW l \in Keys, Write(r, l) PROVE Allowed(n, k)
    <3>1. nodes' = [nodes EXCEPT ![routes[r][ShardOf[l]].owner][l] = sequence + 1]
      BY <2>1 DEF Write
    <3>2. l = k /\ routes[r][ShardOf[l]].owner = n
      BY <2>0, <3>1
    <3>3. QED
      BY <2>1, <3>2 DEF Write, RouteCurrent
  <2>2. ASSUME NEW i \in DOMAIN migrations, CopySnapshot(i) PROVE Allowed(n, k)
    <3>1. migrations[i].phase = "prepare"
      BY <2>2 DEF CopySnapshot
    <3>2. migrations[i].target = n /\ k \in KeysOf(migrations[i].shard)
      BY <2>0, <2>2 DEF CopySnapshot
    <3>3. QED
      BY <3>1, <3>2 DEF KeysOf
  <2>3. ASSUME NEW i \in DOMAIN migrations, CatchUp(i) PROVE Allowed(n, k)
    <3>1. migrations[i].phase \in {"copy", "catch_up"}
      BY <2>3 DEF CatchUp
    <3>2. migrations[i].target = n /\ Unreplayed(migrations[i], k) # {}
      BY <2>0, <2>3 DEF CatchUp
    <3>3. PICK w \in 1 .. sequence :
            writeLog[w] = [shard |-> migrations[i].shard, owner |-> migrations[i].source,
                           key |-> k]
      <4>1. migrations[i] \in Migration /\ sequence \in Nat
        BY DEF TypeOK, sequence
      <4>2. migrations[i].replayed_through \in Nat
        BY <4>1 DEF Migration
      <4>3. QED
        BY <3>2, <4>1, <4>2 DEF Unreplayed
    <3>4. migrations[i].shard = ShardOf[k]
      BY <3>3 DEF LogFiled
    <3>5. QED
      BY <3>1, <3>2, <3>4
  <2>4. ASSUME NEW i \in DOMAIN migrations, Cleanup(i) PROVE FALSE
    BY <2>0, <2>4 DEF Cleanup
  <2>5. QED
    BY <2>1, <2>2, <2>3, <2>4 DEF Next, RefreshRoutes, BeginMigration, Cutover
<1>2. QED
  BY <1>1, LogFiledAlways, PTL DEF Spec, FormerOwnerFrozen

-----------------------------------------------------------------------------
(***************************************************************************)
(* A rebalance loses no acknowledged write, for any cluster, any number of   *)
(* migrations and writes, and any interleaving of the methods of Cluster in *)
(* which each shard has one migration at a time and a cutover finds nothing *)
(* left to replay.                                                         *)
(***************************************************************************)
OneMigrationAtATime ==
    \A i, j \in DOMAIN migrations :
        i # j /\ migrations[i].shard = migrations[j].shard =>
            "cleanup" \in {migrations[i].phase, migrations[j].phase}

Unfinished == {"prepare", "copy", "catch_up"}

\* A migration knows the owner of its shard: its source until it cuts over, its
\* target from then until it has cleaned up.
OwnersKnown ==
    \A i \in DOMAIN migrations : LET m == migrations[i] IN
        /\ m.source # m.target
        /\ m.phase \in Unfinished => shardMap[m.shard].owner = m.source
        /\ m.phase = "cutover" => shardMap[m.shard].owner = m.target

\* The target has the last acknowledged write of a key of the shard, or this write
\* is the last of those that the migration has still to replay.
Following(m, k) ==
    /\ Unreplayed(m, k) = {} => nodes[m.target][k] = acked[k]
    /\ Unreplayed(m, k) # {} =>
          acked[k] \in Unreplayed(m, k) /\ \A n \in Unreplayed(m, k) : n <= acked[k]

TargetsFollow ==
    \A i \in DOMAIN migrations : migrations[i].phase \in {"copy", "catch_up"} =>
        \A k \in KeysOf(migrations[i].shard) : Following(migrations[i], k)

\* No node has a record that was never acknowledged, of a key that never was written.
NothingInvented == \A k \in Keys : acked[k] = 0 => \A n \in Nodes : nodes[n][k] = 0

WritesSafe ==
    /\ OneMigrationAtATime
    /\ OwnersKnown
    /\ TargetsFollow
    /\ NothingInvented
    /\ \A k \in Keys : Authoritative(k) = acked[k]

SurvivalInv == disciplined => WritesSafe

-----------------------------------------------------------------------------
LEMMA SurvivalInit == Init => SurvivalInv
<1> SUFFICES ASSUME Init PROVE SurvivalInv
  OBVIOUS
<1>1. DOMAIN migrations = {}
  BY DEF Init
<1>2. \A k \in Keys : shardMap[ShardOf[k]].owner \in Nodes
  BY ClusterAssumption DEF Init, ClusterAssumption
<1>3. NothingInvented /\ \A k \in Keys : Authoritative(k) = acked[k]
  BY <1>2 DEF Init, NothingInvented, Authoritative
<1>4. QED
  BY <1>1, <1>3 DEF SurvivalInv, WritesSafe, OneMigrationAtATime, OwnersKnown, TargetsFollow

LEMMA MigrationFields ==
    ASSUME TypeOK, NEW i \in DOMAIN migrations
    PROVE  /\ migrations[i].shard \in Shards
           /\ migrations[i].source \in Nodes
           /\ migrations[i].target \in Nodes
           /\ migrations[i].replayed_through \in Nat
           /\ migrations[i].phase \in Phases
           /\ sequence \in Nat
<1>1. migrations[i] \in Migration /\ sequence \in Nat
  BY DEF TypeOK, sequence
<1>2. QED
  BY <1>1 DEF Migration

LEMMA OwnerIsNode ==
    ASSUME TypeOK, NEW k \in Keys
    PROVE  ShardOf[k] \in Shards /\ shardMap[ShardOf[k]].owner \in Nodes
  BY ClusterAssumption DEF ClusterAssumption, TypeOK, Entry

\* A write of a current router goes to the owner of the key's shard, and is the
\* last that a migration of this shard has to replay.
LEMMA SurvivalWrite ==
    ASSUME TypeOK, LogFiled, WritesSafe, NEW r \in Routers, NEW k \in Keys, Write(r, k)
    PROVE  WritesSafe'
<1> DEFINE owner == shardMap[ShardOf[k]].owner
           e == [shard |-> ShardOf[k], owner |-> owner, key |-> k]
<1>1. /\ nodes' = [nodes EXCEPT ![owner][k] = sequence + 1]
      /\ writeLog' = Append(writeLog, e)
      /\ acked' = [acked EXCEPT ![k] = sequence + 1]
      /\ UNCHANGED <<shardMap, routes, migrations>>
  BY DEF Write, RouteCurrent
<1>2. ShardOf[k] \in Shards /\ owner \in Nodes
  BY OwnerIsNode
<1>3. e \in LogEntry
  BY <1>2 DEF LogEntry
<1>4. /\ sequence \in Nat /\ sequence' = sequence + 1
      /\ writeLog'[sequence + 1] = e
      /\ \A n \in 1 .. sequence : writeLog'[n] = writeLog[n]
  <2> HIDE DEF e
  <2> QED
    BY <1>1, <1>3, AppendProperties DEF TypeOK, sequence
<1>5. \A n \in Nodes, l \in Keys :
        nodes'[n][l] = IF n = owner /\ l = k THEN sequence + 1 ELSE nodes[n][l]
  BY <1>1, <1>2 DEF TypeOK
<1>6. \A l \in Keys : acked'[l] = IF l = k THEN sequence + 1 ELSE acked[l]
  BY <1>1 DEF TypeOK
<1> HIDE DEF owner
<1>7. \A l \in Keys : Authoritative(l)' = acked'[l]
  BY <1>1, <1>5, <1>6, OwnerIsNode DEF Authoritative, WritesSafe, owner
<1>8. NothingInvented'
  BY <1>4, <1>5, <1>6 DEF NothingInvented, WritesSafe
<1>9. TargetsFollow'
  <2> SUFFICES ASSUME NEW i \in DOMAIN migrations, migrations[i].phase \in {"copy", "catch_up"},
                      NEW l \in KeysOf(migrations[i].shard)
               PROVE  Following(migrations[i], l)'
    BY <1>1 DEF TargetsFollow, KeysOf
  <2> DEFINE m == migrations[i]
  <2>1. /\ Following(m, l) /\ m.source # m.target
        /\ shardMap[m.shard].owner = m.source
        /\ l \in Keys /\ ShardOf[l] = m.shard
    BY DEF WritesSafe, TargetsFollow, OwnersKnown, Unfinished, KeysOf
  <2>2. /\ m.replayed_through \in Nat /\ m.replayed_through <= sequence
        /\ m.target \in Nodes
    BY MigrationFields DEF TypeOK
  <2>3. m' = m
    BY <1>1
  <2>4. CASE l = k
    <3>1. owner = m.source
      BY <2>1, <2>4 DEF owner
    <3>2. /\ sequence + 1 \in Unreplayed(m, k)'
          /\ \A n \in Unreplayed(m, k)' : n <= sequence + 1
      BY <1>4, <2>1, <2>2, <2>3, <2>4, <3>1 DEF Unreplayed
    <3>3. QED
      BY <1>6, <2>3, <2>4, <3>2 DEF Following
  <2>5. CASE l # k
    <3>1. e # [shard |-> m.shard, owner |-> m.source, key |-> l]
      BY <2>5
    <3>2. Unreplayed(m, l)' = Unreplayed(m, l)
      <4> HIDE DEF e, m
      <4>1. \A n : n \in (m.replayed_through + 1) .. (sequence + 1) <=>
                \/ n = sequence + 1
                \/ n \in (m.replayed_through + 1) .. sequence
        BY <1>4, <2>2
      <4>2. \A n \in (m.replayed_through + 1) .. sequence : writeLog'[n] = writeLog[n]
        BY <1>4, <2>2
      <4>3. QED
        BY <1>4, <2>3, <3>1, <4>1, <4>2 DEF Unreplayed
    <3>3. nodes'[m.target][l] = nodes[m.target][l] /\ acked'[l] = acked[l]
      BY <1>5, <1>6, <2>1, <2>2, <2>5
    <3>4. QED
      BY <2>1, <2>3, <3>2, <3>3 DEF Following
  <2>6. QED
    BY <2>4, <2>5
<1>10. OneMigrationAtATime' /\ OwnersKnown'
  BY <1>1 DEF WritesSafe, OneMigrationAtATime, OwnersKnown
<1>11. QED
  BY <1>7, <1>8, <1>9, <1>10 DEF WritesSafe

\* A disciplined caller begins a migration only when the shard has none.
LEMMA SurvivalBegin ==
    ASSUME TypeOK, WritesSafe, NEW shard \in Shards, NEW target \in Nodes,
           BeginMigration(shard, target), Idle(shard)
    PROVE  WritesSafe'
<1> DEFINE m == [shard |-> shard, source |-> shardMap[shard].owner, target |-> target,
                 source_epoch |-> shardMap[shard].epoch, replayed_through |-> 0,
                 phase |-> "prepare"]
           last == Len(migrations) + 1
<1>1. /\ migrations' = Append(migrations, m)
      /\ shardMap[shard].owner # target
      /\ UNCHANGED <<nodes, shardMap, writeLog, routes, acked>>
  BY DEF BeginMigration
<1>2. /\ m.shard = shard /\ m.source = shardMap[shard].owner /\ m.target = target
      /\ m.phase = "prepare"
  OBVIOUS
<1> HIDE DEF m
<1>3. /\ DOMAIN migrations' = DOMAIN migrations \cup {last}
      /\ last \notin DOMAIN migrations
      /\ \A i \in DOMAIN migrations : migrations'[i] = migrations[i]
      /\ migrations'[last] = m
  BY <1>1 DEF TypeOK
<1> HIDE DEF last
<1>4. OneMigrationAtATime'
  <2> SUFFICES ASSUME NEW i \in DOMAIN migrations', NEW j \in DOMAIN migrations', i # j,
                      migrations'[i].shard = migrations'[j].shard
               PROVE  "cleanup" \in {migrations'[i].phase, migrations'[j].phase}
    BY DEF OneMigrationAtATime
  <2>1. CASE i # last /\ j # last
    BY <1>3, <2>1 DEF WritesSafe, OneMigrationAtATime
  <2>2. CASE i = last
    BY <1>2, <1>3, <2>2 DEF Idle
  <2>3. CASE j = last
    BY <1>2, <1>3, <2>3 DEF Idle
  <2>4. QED
    BY <2>1, <2>2, <2>3
<1>5. OwnersKnown'
  BY <1>1, <1>2, <1>3 DEF WritesSafe, OwnersKnown
<1>6. TargetsFollow'
  <2>1. \A i \in DOMAIN migrations' :
            migrations'[i].phase \in {"copy", "catch_up"} =>
                i \in DOMAIN migrations /\ migrations'[i] = migrations[i]
    BY <1>2, <1>3
  <2>2. ASSUME NEW i \in DOMAIN migrations', migrations'[i].phase \in {"copy", "catch_up"},
               NEW k \in KeysOf(migrations[i].shard)
        PROVE  Following(migrations[i], k)'
    <3>1. Following(migrations[i], k) /\ migrations'[i] = migrations[i]
      BY <2>1, <2>2 DEF WritesSafe, TargetsFollow
    <3>2. QED
      BY <1>1, <3>1 DEF Following, Unreplayed, sequence
  <2>3. QED
    BY <2>1, <2>2 DEF TargetsFollow, KeysOf
<1>7. NothingInvented' /\ \A k \in Keys : Authoritative(k)' = acked'[k]
  BY <1>1 DEF WritesSafe, NothingInvented, Authoritative
<1>8. QED
  BY <1>4, <1>5, <1>6, <1>7 DEF WritesSafe

-----------------------------------------------------------------------------
(* The steps of one migration.  Each changes records of its own shard only,  *)
(* which no other migration that is in progress works on.                    *)

\* What a step owes that makes m of migration i: it leaves the log, the other shards
\* and the other migrations alone, and the owner and the target with what was
\* acknowledged.
StepKeepsWrites(i, m) ==
    /\ migrations[i].phase # "cleanup"
    /\ migrations' = [migrations EXCEPT ![i] = m]
    /\ m.shard = migrations[i].shard
    /\ m.source = migrations[i].source
    /\ m.target = migrations[i].target
    /\ m.phase \in Unfinished => shardMap'[m.shard].owner = m.source
    /\ m.phase = "cutover" => shardMap'[m.shard].owner = m.target
    /\ m.phase \in {"copy", "catch_up"} =>
          /\ m.replayed_through = sequence
          /\ \A k \in KeysOf(m.shard) : nodes'[m.target][k] = acked[k]
    /\ \A s \in Shards : s # m.shard => shardMap'[s] = shardMap[s]
    /\ \A n \in Nodes, k \in Keys : k \notin KeysOf(m.shard) => nodes'[n][k] = nodes[n][k]
    /\ \A k \in KeysOf(m.shard) : nodes'[shardMap'[m.shard].owner][k] = acked[k]
    /\ \A n \in Nodes, k \in KeysOf(m.shard) : acked[k] = 0 => nodes'[n][k] = 0
    /\ UNCHANGED <<writeLog, acked>>

LEMMA SurvivalStep ==
    ASSUME TypeOK, WritesSafe, NEW i \in DOMAIN migrations, NEW m, StepKeepsWrites(i, m)
    PROVE  WritesSafe'
<1> USE DEF StepKeepsWrites
<1>1. /\ DOMAIN migrations' = DOMAIN migrations
      /\ \A j \in DOMAIN migrations : migrations'[j] = IF j = i THEN m ELSE migrations[j]
  BY DEF TypeOK
<1>2. \A k \in Keys : k \in KeysOf(m.shard) <=> ShardOf[k] = m.shard
  BY DEF KeysOf
<1>3. m.shard \in Shards
  BY MigrationFields
<1>4. \A j \in DOMAIN migrations :
        j # i /\ migrations[j].phase # "cleanup" => migrations[j].shard # m.shard
  BY DEF WritesSafe, OneMigrationAtATime
<1>5. OneMigrationAtATime'
  <2> SUFFICES ASSUME NEW a \in DOMAIN migrations, NEW b \in DOMAIN migrations, a # b,
                      migrations'[a].shard = migrations'[b].shard
               PROVE  "cleanup" \in {migrations'[a].phase, migrations'[b].phase}
    BY <1>1 DEF OneMigrationAtATime
  <2>1. CASE a # i /\ b # i
    BY <1>1, <2>1 DEF WritesSafe, OneMigrationAtATime
  <2>2. CASE a = i
    BY <1>1, <1>4, <2>2
  <2>3. CASE b = i
    BY <1>1, <1>4, <2>3
  <2>4. QED
    BY <2>1, <2>2, <2>3
<1>6. OwnersKnown'
  <2> SUFFICES ASSUME NEW j \in DOMAIN migrations
               PROVE  LET n == migrations'[j] IN
                        /\ n.source # n.target
                        /\ n.phase \in Unfinished => shardMap'[n.shard].owner = n.source
                        /\ n.phase = "cutover" => shardMap'[n.shard].owner = n.target
    BY <1>1 DEF OwnersKnown
  <2>1. CASE j = i
    BY <1>1, <2>1 DEF WritesSafe, OwnersKnown
  <2>2. CASE j # i
    <3>1. migrations'[j] = migrations[j] /\ migrations[j].shard \in Shards
      BY <1>1, <2>2, MigrationFields
    <3>2. migrations[j].phase # "cleanup" =>
                shardMap'[migrations[j].shard] = shardMap[migrations[j].shard]
      BY <1>4, <2>2, <3>1
    <3>3. migrations[j].phase \in Unfinished => migrations[j].phase # "cleanup"
      BY DEF Unfinished
    <3>4. QED
      BY <3>1, <3>2, <3>3 DEF WritesSafe, OwnersKnown
  <2>3. QED
    BY <2>1, <2>2
<1>7. TargetsFollow'
  <2> SUFFICES ASSUME NEW j \in DOMAIN migrations,
                      migrations'[j].phase \in {"copy", "catch_up"},
                      NEW k \in KeysOf(migrations'[j].shard)
               PROVE  Following(migrations[j], k)'
    BY <1>1 DEF TargetsFollow, KeysOf
  <2>0. sequence' = sequence /\ sequence \in Nat
    BY MigrationFields DEF sequence
  <2>1. CASE j = i
    <3>1. migrations'[j] = m /\ m.replayed_through = sequence
          /\ nodes'[m.target][k] = acked'[k]
      BY <1>1, <2>1
    <3>2. Unreplayed(migrations[j], k)' = {}
      BY <2>0, <3>1 DEF Unreplayed
    <3>3. QED
      BY <3>1, <3>2 DEF Following
  <2>2. CASE j # i
    <3>1. /\ migrations'[j] = migrations[j]
          /\ Following(migrations[j], k)
          /\ migrations[j].shard # m.shard
      BY <1>1, <1>4, <2>2 DEF WritesSafe, TargetsFollow
    <3>2. migrations[j].target \in Nodes /\ k \in Keys /\ k \notin KeysOf(m.shard)
      BY <3>1, MigrationFields DEF KeysOf
    <3>3. QED
      BY <2>0, <3>1, <3>2 DEF Following, Unreplayed
  <2>3. QED
    BY <2>1, <2>2
<1>8. NothingInvented'
  BY DEF WritesSafe, NothingInvented
<1>9. ASSUME NEW k \in Keys PROVE Authoritative(k)' = acked'[k]
  <2>1. ShardOf[k] \in Shards /\ shardMap[ShardOf[k]].owner \in Nodes
    BY OwnerIsNode
  <2>2. CASE ShardOf[k] = m.shard
    BY <1>2, <2>2 DEF Authoritative
  <2>3. CASE ShardOf[k] # m.shard
    BY <1>2, <2>1, <2>3 DEF Authoritative, WritesSafe
  <2>4. QED
    BY <2>2, <2>3
<1>10. QED
  BY <1>5, <1>6, <1>7, <1>8, <1>9 DEF WritesSafe

LEMMA SurvivalCopy ==
    ASSUME TypeOK, WritesSafe, NEW i \in DOMAIN migrations, CopySnapshot(i)
    PROVE  WritesSafe'
<1> DEFINE old == migrations[i]
           m == [old EXCEPT !.phase = "copy", !.replayed_through = sequence]
<1>1. old \in Migration
  BY DEF TypeOK
<1>2. /\ m.shard = old.shard /\ m.source = old.source /\ m.target = old.target
      /\ m.phase = "copy" /\ m.replayed_through = sequence
  BY <1>1 DEF Migration
<1>3. /\ migrations' = [migrations EXCEPT ![i] = m]
      /\ old.phase = "prepare"
      /\ UNCHANGED <<shardMap, writeLog, acked>>
  BY DEF CopySnapshot, Watermark, TypeOK
<1> HIDE DEF m
<1>4. old.shard \in Shards /\ old.source \in Nodes /\ old.target \in Nodes
  BY MigrationFields
<1>5. /\ old.source # old.target /\ shardMap[old.shard].owner = old.source
      /\ \A k \in KeysOf(old.shard) : k \in Keys /\ nodes[old.source][k] = acked[k]
  BY <1>3 DEF WritesSafe, OwnersKnown, Unfinished, Authoritative, KeysOf
<1>6. \A n \in Nodes, k \in Keys : nodes'[n][k] =
        IF n = old.target /\ k \in KeysOf(old.shard) /\ nodes[old.source][k] # 0
        THEN nodes[old.source][k] ELSE nodes[n][k]
  BY <1>4 DEF CopySnapshot, TypeOK
<1>7. \A k \in KeysOf(old.shard) : nodes'[old.target][k] = acked[k]
  BY <1>4, <1>5, <1>6 DEF WritesSafe, NothingInvented
<1>8. \A k \in KeysOf(old.shard) : nodes'[old.source][k] = acked[k]
  BY <1>4, <1>5, <1>6
<1>9. \A n \in Nodes, k \in KeysOf(old.shard) : acked[k] = 0 => nodes'[n][k] = 0
  BY <1>5, <1>6 DEF WritesSafe, NothingInvented
<1>10. StepKeepsWrites(i, m)
  BY <1>2, <1>3, <1>4, <1>5, <1>6, <1>7, <1>8, <1>9 DEF StepKeepsWrites, Unfinished
<1>11. QED
  BY <1>10, SurvivalStep

\* The last write that is replayed is the last that was acknowledged.
LEMMA SurvivalCatchUp ==
    ASSUME TypeOK, LogFiled, WritesSafe, NEW i \in DOMAIN migrations, CatchUp(i)
    PROVE  WritesSafe'
<1> DEFINE old == migrations[i]
           m == [old EXCEPT !.phase = "catch_up", !.replayed_through = sequence]
           last(k) == CHOOSE n \in Unreplayed(old, k) : \A o \in Unreplayed(old, k) : o <= n
<1>1. old \in Migration
  BY DEF TypeOK
<1>2. /\ m.shard = old.shard /\ m.source = old.source /\ m.target = old.target
      /\ m.phase = "catch_up" /\ m.replayed_through = sequence
  BY <1>1 DEF Migration
<1>3. /\ migrations' = [migrations EXCEPT ![i] = m]
      /\ old.phase \in {"copy", "catch_up"}
      /\ UNCHANGED <<shardMap, writeLog, acked>>
  BY DEF CatchUp, Watermark, TypeOK
<1> HIDE DEF m
<1>4. /\ old.shard \in Shards /\ old.source \in Nodes /\ old.target \in Nodes
      /\ old.replayed_through \in Nat /\ sequence \in Nat
  BY MigrationFields
<1>5. /\ old.source # old.target /\ shardMap[old.shard].owner = old.source
      /\ \A k \in KeysOf(old.shard) :
            k \in Keys /\ nodes[old.source][k] = acked[k] /\ Following(old, k)
  BY <1>3 DEF WritesSafe, OwnersKnown, TargetsFollow, Unfinished, Authoritative, KeysOf
<1>6. \A n \in Nodes, k \in Keys : nodes'[n][k] =
        IF n = old.target /\ Unreplayed(old, k) # {} THEN last(k) ELSE nodes[n][k]
  <2> HIDE DEF last
  <2>1. nodes' = [nodes EXCEPT ![old.target] = [k \in Keys |->
                    IF Unreplayed(old, k) # {} THEN last(k) ELSE @[k]]]
    BY DEF CatchUp, last
  <2>2. QED
    BY <1>4, <2>1 DEF TypeOK
<1>7. ASSUME NEW k \in KeysOf(old.shard), Unreplayed(old, k) # {}
      PROVE  last(k) = acked[k] /\ acked[k] # 0
  <2>1. Unreplayed(old, k) \subseteq Nat \ {0}
    BY <1>4 DEF Unreplayed
  <2>2. acked[k] \in Unreplayed(old, k) /\ \A n \in Unreplayed(old, k) : n <= acked[k]
    BY <1>5, <1>7 DEF Following
  <2>3. last(k) \in Unreplayed(old, k) /\ acked[k] <= last(k)
    BY <2>2
  <2> HIDE DEF last
  <2>4. last(k) <= acked[k]
    BY <2>2, <2>3
  <2>5. QED
    BY <2>1, <2>2, <2>3, <2>4
<1>8. ASSUME NEW k \in Keys, k \notin KeysOf(old.shard)
      PROVE  Unreplayed(old, k) = {}
  <2> SUFFICES ASSUME NEW n \in Unreplayed(old, k) PROVE FALSE
    OBVIOUS
  <2>1. n \in 1 .. sequence /\ writeLog[n].shard = old.shard /\ writeLog[n].key = k
    BY <1>4 DEF Unreplayed
  <2>2. QED
    BY <1>8, <2>1 DEF LogFiled, KeysOf
<1> HIDE DEF last
<1>9. \A k \in KeysOf(old.shard) : nodes'[old.target][k] = acked[k]
  BY <1>4, <1>5, <1>6, <1>7 DEF Following
<1>10. \A k \in KeysOf(old.shard) : nodes'[old.source][k] = acked[k]
  BY <1>4, <1>5, <1>6
<1>11. \A n \in Nodes, k \in KeysOf(old.shard) : acked[k] = 0 => nodes'[n][k] = 0
  BY <1>5, <1>6, <1>7 DEF WritesSafe, NothingInvented
<1>12. \A n \in Nodes, k \in Keys : k \notin KeysOf(old.shard) => nodes'[n][k] = nodes[n][k]
  BY <1>6, <1>8
<1>13. StepKeepsWrites(i, m)
  BY <1>2, <1>3, <1>4, <1>5, <1>9, <1>10, <1>11, <1>12 DEF StepKeepsWrites, Unfinished
<1>14. QED
  BY <1>13, SurvivalStep

\* A disciplined caller cuts over when the target has every write of the source.
LEMMA SurvivalCutover ==
    ASSUME TypeOK, WritesSafe, NEW i \in DOMAIN migrations, Cutover(i),
           \A k \in Keys : Unreplayed(migrations[i], k) = {}
    PROVE  WritesSafe'
<1> DEFINE old == migrations[i]
           m == [old EXCEPT !.phase = "cutover"]
<1>1. old \in Migration
  BY DEF TypeOK
<1>2. /\ m.shard = old.shard /\ m.source = old.source /\ m.target = old.target
      /\ m.phase = "cutover"
  BY <1>1 DEF Migration
<1>3. /\ migrations' = [migrations EXCEPT ![i] = m]
      /\ old.phase = "catch_up"
      /\ UNCHANGED <<nodes, writeLog, acked>>
  BY DEF Cutover, TypeOK
<1> HIDE DEF m
<1>4. old.shard \in Shards /\ old.target \in Nodes
  BY MigrationFields
<1>5. /\ \A s \in Shards : s # old.shard => shardMap'[s] = shardMap[s]
      /\ shardMap'[old.shard].owner = old.target
  BY <1>4 DEF Cutover, TypeOK
<1>6. \A k \in KeysOf(old.shard) : k \in Keys /\ nodes[old.target][k] = acked[k]
  BY <1>3 DEF WritesSafe, TargetsFollow, Following, KeysOf
<1>7. \A n \in Nodes, k \in KeysOf(old.shard) : acked[k] = 0 => nodes[n][k] = 0
  BY <1>6 DEF WritesSafe, NothingInvented
<1>8. StepKeepsWrites(i, m)
  BY <1>2, <1>3, <1>4, <1>5, <1>6, <1>7 DEF StepKeepsWrites, Unfinished
<1>9. QED
  BY <1>8, SurvivalStep

\* What is cleaned up is the source's, and the owner is the target by then.
LEMMA SurvivalCleanup ==
    ASSUME TypeOK, WritesSafe, NEW i \in DOMAIN migrations, Cleanup(i)
    PROVE  WritesSafe'
<1> DEFINE old == migrations[i]
           m == [old EXCEPT !.phase = "cleanup"]
<1>1. old \in Migration
  BY DEF TypeOK
<1>2. /\ m.shard = old.shard /\ m.source = old.source /\ m.target = old.target
      /\ m.phase = "cleanup"
  BY <1>1 DEF Migration
<1>3. /\ migrations' = [migrations EXCEPT ![i] = m]
      /\ old.phase = "cutover"
      /\ UNCHANGED <<shardMap, writeLog, acked>>
  BY DEF Cleanup, TypeOK
<1> HIDE DEF m
<1>4. old.shard \in Shards /\ old.source \in Nodes /\ old.target \in Nodes
  BY MigrationFields
<1>5. /\ old.source # old.target /\ shardMap[old.shard].owner = old.target
      /\ \A k \in KeysOf(old.shard) : k \in Keys /\ nodes[old.target][k] = acked[k]
  BY <1>3 DEF WritesSafe, OwnersKnown, Authoritative, KeysOf
<1>6. \A n \in Nodes, k \in Keys : nodes'[n][k] =
        IF n = old.source /\ k \in KeysOf(old.shard) THEN 0 ELSE nodes[n][k]
  BY <1>4 DEF Cleanup, TypeOK
<1>7. \A k \in KeysOf(old.shard) : nodes'[old.target][k] = acked[k]
  BY <1>4, <1>5, <1>6
<1>8. \A n \in Nodes, k \in KeysOf(old.shard) : acked[k] = 0 => nodes'[n][k] = 0
  BY <1>5, <1>6 DEF WritesSafe, NothingInvented
<1>9. StepKeepsWrites(i, m)
  BY <1>2, <1>3, <1>4, <1>5, <1>6, <1>7, <1>8 DEF StepKeepsWrites, Unfinished
<1>10. QED
  BY <1>9, SurvivalStep

LEMMA SurvivalNext == TypeOK /\ LogFiled /\ SurvivalInv /\ [Next]_vars => SurvivalInv'
<1> SUFFICES ASSUME TypeOK, LogFiled, SurvivalInv, [Next]_vars, disciplined'
             PROVE  WritesSafe'
  BY DEF SurvivalInv
<1>1. disciplined
  BY DEF TypeOK, Next, vars, RefreshRoutes, Write, BeginMigration, CopySnapshot, CatchUp,
         Cutover, Cleanup
<1>2. WritesSafe
  BY <1>1 DEF SurvivalInv
<1>3. CASE UNCHANGED vars \/ \E r \in Routers : RefreshRoutes(r)
  <2>1. UNCHANGED <<nodes, shardMap, writeLog, migrations, acked>>
    BY <1>3 DEF vars, RefreshRoutes
  <2>2. \A m, k : Following(m, k)' <=> Following(m, k)
    BY <2>1 DEF Following, Unreplayed, sequence
  <2>3. QED
    BY <1>2, <2>1, <2>2 DEF WritesSafe, OneMigrationAtATime, OwnersKnown, TargetsFollow,
       NothingInvented, Authoritative
<1>4. ASSUME NEW shard \in Shards, NEW target \in Nodes, BeginMigration(shard, target)
      PROVE  WritesSafe'
  <2>1. Idle(shard)
    BY <1>4 DEF BeginMigration
  <2>2. QED
    BY <1>2, <1>4, <2>1, SurvivalBegin
<1>5. ASSUME NEW i \in DOMAIN migrations, Cutover(i)
      PROVE  WritesSafe'
  <2>1. \A k \in Keys : Unreplayed(migrations[i], k) = {}
    BY <1>5 DEF Cutover
  <2>2. QED
    BY <1>2, <1>5, <2>1, SurvivalCutover
<1>6. QED
  BY <1>2, <1>3, <1>4, <1>5, SurvivalWrite, SurvivalCopy, SurvivalCatchUp, SurvivalCleanup
  DEF Next

\* An acknowledged write survives every rebalance of a caller that keeps one
\* migration per shard and cuts over with nothing left to replay.
THEOREM RebalanceKeepsWrites == Spec => []AcknowledgedWritesSurvive
<1>1. Spec => []SurvivalInv
  BY SurvivalInit, SurvivalNext, LogFiledAlways, PTL DEF Spec
<1>2. SurvivalInv => AcknowledgedWritesSurvive
  BY DEF SurvivalInv, WritesSafe, AcknowledgedWritesSurvive
<1>3. QED
  BY <1>1, <1>2, PTL

=============================================================================
