----------------------------- MODULE CacheFence -----------------------------
(***************************************************************************)
(* Stale cache fills:                                                      *)
(* labs/distributed-systems/04-cache-races/cache_race_demo.py.             *)
(*                                                                         *)
(* A reader that misses reads the database and fills the cache later, in   *)
(* two steps that writers interleave with; a writer commits and then       *)
(* invalidates, and invalidations of several writers may be applied in any *)
(* order.  CacheState decides with its version fence alone.  A value is    *)
(* abstracted to its version.                                              *)
(***************************************************************************)
EXTENDS Integers, FiniteSetsExt

CONSTANTS
    Readers,
    MaxVersion,      \* bound: the last version that is committed
    None             \* no cached value, or no read in progress

ASSUME NoneAssumption == None \notin Nat

VARIABLES
    database,        \* the version committed last
    pending,         \* committed versions whose writers have yet to invalidate
    snapshot,        \* what each reader has read and not yet filled in, or None
    cached,          \* CacheState.value_version
    versionFence,    \* CacheState.version_fence
    announced        \* the newest version ever cached or invalidated for

cacheVars == <<database, pending, snapshot, cached, versionFence, announced>>

NewerOf(a, b) == IF a >= b THEN a ELSE b

CacheInit ==
    /\ database = 1
    /\ pending = {}
    /\ snapshot = [r \in Readers |-> None]
    /\ cached = None
    /\ versionFence = 0
    /\ announced = 0

\* A reader misses and reads the database.
ReadDatabase(r) ==
    /\ cached = None
    /\ snapshot[r] = None
    /\ snapshot' = [snapshot EXCEPT ![r] = database]
    /\ UNCHANGED <<database, pending, cached, versionFence, announced>>

Commit ==
    /\ database < MaxVersion
    /\ database' = database + 1
    /\ pending' = pending \cup {database + 1}
    /\ UNCHANGED <<snapshot, cached, versionFence, announced>>

\* Mutated form: the fence is set to the version of the invalidation that came last.
RaisedFenceLast(v) == v

\* Mutated form: the fence is set past the version, as an exclusive bound.
RaisedFencePast(v) == NewerOf(versionFence, v + 1)

RaisedFence(v) == NewerOf(versionFence, v)

\* safe_invalidate, by the writer of v.
SafeInvalidate(v) ==
    /\ cached' = None
    /\ versionFence' = RaisedFence(v)
    /\ pending' = pending \ {v}
    /\ announced' = NewerOf(announced, v)
    /\ UNCHANGED <<database, snapshot>>

\* Mutated form: the fill is compared with the cached value only.
AcceptsUnfenced(v) == cached # None => v >= cached

\* The two rejections of safe_fill.
Accepts(v) ==
    /\ v >= versionFence
    /\ cached # None => v >= cached

\* safe_fill, with what the reader read earlier.
SafeFill(r) ==
    /\ snapshot[r] # None
    /\ snapshot' = [snapshot EXCEPT ![r] = None]
    /\ IF Accepts(snapshot[r])
       THEN /\ cached' = snapshot[r]
            /\ versionFence' = RaisedFence(snapshot[r])
            /\ announced' = NewerOf(announced, snapshot[r])
       ELSE UNCHANGED <<cached, versionFence, announced>>
    /\ UNCHANGED <<database, pending>>

CacheNext ==
    \/ \E r \in Readers : ReadDatabase(r) \/ SafeFill(r)
    \/ Commit
    \/ \E v \in pending : SafeInvalidate(v)

\* A writer goes on to invalidate what it has committed.
CacheSpec == CacheInit /\ [][CacheNext]_cacheVars

-----------------------------------------------------------------------------
CacheTypeOK ==
    /\ database \in Nat \ {0}
    /\ pending \subseteq 1..database
    /\ snapshot \in [Readers -> 1..database \cup {None}]
    /\ cached \in 1..database \cup {None}
    /\ versionFence \in 0..database
    /\ announced \in 0..database

\* README: "A cache must not resurrect an older version".  Whatever order fills and
\* invalidations come in, the cache never holds a version older than one that it
\* has held, or that some writer has invalidated it for.
VersionsFence == INSTANCE NewerWins WITH newest <- announced, held <- cached

NoResurrection == VersionsFence!Spec

\* Once every writer has invalidated, what is cached is what is committed, however
\* old the snapshots are that readers still have in hand.
QuietCacheIsFresh == pending = {} /\ cached # None => cached = database

=============================================================================
