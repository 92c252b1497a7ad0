------------------------- MODULE VersionFenceProofs -------------------------
(***************************************************************************)
(* Machine-checked proofs about LeaseFencing, for every set of owners, any  *)
(* lease duration and any number of leases, and about CacheFence, for any    *)
(* number of readers, writers and versions.  Both implement NewerWins: the   *)
(* resource over the leases in grant order, the cache over the versions.    *)
(***************************************************************************)
EXTENDS MCVersionFences, TLAPS

-----------------------------------------------------------------------------
(* Leases: they never overlap, and the resource is fenced. *)

\* What ties the token that the resource compares to the order of the grants.
TokensCountGrants ==
    /\ nextToken = Len(granted) + 1
    /\ \A i \in DOMAIN granted : granted[i].token = i
    /\ highestToken = author

\* Leases run one after the other, and none is issued in the future.
LeasesDisjoint ==
    /\ \A i \in DOMAIN granted : granted[i].issued_at <= now
    /\ \A i, j \in DOMAIN granted :
            i < j => granted[i].expires_at <= granted[j].issued_at

LeaseInv == LeaseTypeOK /\ TokensCountGrants /\ LeasesDisjoint

LEMMA InitLeaseInv == LeaseInit => LeaseInv
  BY DEF LeaseInit, LeaseInv, LeaseTypeOK, TokensCountGrants, LeasesDisjoint

\* An acquisition appends a lease that starts after every earlier one has run out.
LEMMA AcquireLeaseInv ==
    ASSUME LeaseInv, NEW w \in Workers, Acquire(w)
    PROVE  LeaseInv'
<1> DEFINE n == Len(granted) + 1
<1>1. NewLease(w) \in Lease /\ NewLease(w).token = nextToken
      /\ NewLease(w).issued_at = now
  BY LeaseAssumption DEF LeaseAssumption, NewLease, Lease, LeaseInv, LeaseTypeOK
<1>2. /\ granted \in Seq(Lease) /\ granted' \in Seq(Lease)
      /\ Len(granted') = n /\ n \in Nat
      /\ \A i \in DOMAIN granted : granted'[i] = granted[i]
      /\ granted'[n] = NewLease(w)
      /\ DOMAIN granted = 1..Len(granted) /\ DOMAIN granted' = 1..n
  BY <1>1 DEF Acquire, LeaseInv, LeaseTypeOK
<1>3. \A i \in DOMAIN granted : granted[i].expires_at <= now
  <2> SUFFICES ASSUME NEW i \in DOMAIN granted
               PROVE  granted[i].expires_at <= now
    OBVIOUS
  <2> DEFINE last == Len(granted)
  <2>1. last \in DOMAIN granted /\ i <= last /\ granted # <<>>
    BY <1>2
  <2>2. granted[last].expires_at <= now
    BY <2>1, <1>2 DEF Acquire, Free, LeaseInv, LeaseTypeOK, Lease
  <2>3. CASE i = last
    BY <2>2, <2>3
  <2>4. CASE i < last
    <3>1. granted[i].expires_at <= granted[last].issued_at
      BY <2>1, <2>4 DEF LeaseInv, LeasesDisjoint
    <3>2. granted[last].issued_at <= now
      BY <2>1 DEF LeaseInv, LeasesDisjoint
    <3>3. granted[i] \in Lease /\ granted[last] \in Lease /\ now \in Nat
      BY <1>2, <2>1 DEF LeaseInv, LeaseTypeOK
    <3>4. QED
      BY <3>1, <3>2, <3>3 DEF Lease
  <2>5. QED
    BY <1>2, <2>1, <2>3, <2>4
<1>4. LeaseTypeOK'
  BY <1>2 DEF Acquire, LeaseInv, LeaseTypeOK
<1>5. TokensCountGrants'
  BY <1>1, <1>2 DEF Acquire, LeaseInv, TokensCountGrants
<1>6. LeasesDisjoint'
  <2>1. \A i \in DOMAIN granted' : granted'[i].issued_at <= now'
    BY <1>1, <1>2 DEF Acquire, LeaseInv, LeaseTypeOK, LeasesDisjoint
  <2>2. ASSUME NEW i \in DOMAIN granted', NEW j \in DOMAIN granted', i < j
        PROVE  granted'[i].expires_at <= granted'[j].issued_at
    <3>1. CASE j = n
      BY <1>1, <1>2, <1>3, <2>2, <3>1
    <3>2. CASE j # n
      <4>1. i \in DOMAIN granted /\ j \in DOMAIN granted
        BY <1>2, <2>2, <3>2
      <4>2. QED
        BY <1>2, <2>2, <4>1 DEF LeaseInv, LeasesDisjoint
    <3>3. QED
      BY <3>1, <3>2
  <2>3. QED
    BY <2>1, <2>2 DEF LeasesDisjoint
<1>7. QED
  BY <1>4, <1>5, <1>6 DEF LeaseInv

LEMMA NextLeaseInv == LeaseInv /\ [LeaseNext]_leaseVars => LeaseInv'
<1> SUFFICES ASSUME LeaseInv, [LeaseNext]_leaseVars PROVE LeaseInv'
  OBVIOUS
<1> USE DEF LeaseInv, LeaseTypeOK, TokensCountGrants, LeasesDisjoint
<1>1. CASE \E w \in Workers : Acquire(w)
  BY <1>1, AcquireLeaseInv
<1>2. CASE \E i \in DOMAIN granted : Write(i)
  BY <1>2 DEF Write
<1>3. CASE Tick
  <2>1. ASSUME NEW i \in DOMAIN granted
        PROVE  granted[i].issued_at \in Nat
    <3>1. granted[i] \in Lease
      OBVIOUS
    <3>2. QED
      BY <3>1 DEF Lease
  <2>2. now \in Nat /\ now' = now + 1 /\ UNCHANGED <<granted, nextToken, highestToken, author>>
    BY <1>3 DEF Tick
  <2>3. \A i \in DOMAIN granted : granted[i].issued_at <= now'
    BY <2>1, <2>2
  <2>4. QED
    BY <2>2, <2>3
<1>4. CASE UNCHANGED leaseVars
  BY <1>4 DEF leaseVars
<1>5. QED
  BY <1>1, <1>2, <1>3, <1>4 DEF LeaseNext

\* The invariant holds always: types, tokens in grant order, leases disjoint.
THEOREM LeasesInvariant == LeaseSpec => []LeaseInv
<1>1. QED
  BY InitLeaseInv, NextLeaseInv, PTL DEF LeaseSpec

\* LeaseCoordinator grants at most one lease that has not run out, at any time.
THEOREM OneLeaseAtATime == LeaseSpec => []LeasesDisjoint
<1>1. LeaseInv => LeasesDisjoint
  BY DEF LeaseInv
<1>2. QED
  BY <1>1, LeasesInvariant, PTL

\* The fenced resource implements NewerWins over the leases in the order of their
\* grants: an owner's state is never overwritten with an earlier lease.
THEOREM ResourceFenced == LeaseSpec => OwnersInOrder
<1>1. LeaseInit => OwnersFence!Init
  BY DEF LeaseInit, OwnersFence!Init
<1>2. LeaseInv /\ [LeaseNext]_leaseVars => [OwnersFence!Next]_<<author, author>>
  <2> SUFFICES ASSUME LeaseInv, [LeaseNext]_leaseVars
               PROVE  [OwnersFence!Next]_<<author, author>>
    OBVIOUS
  <2>1. ASSUME NEW i \in DOMAIN granted, Write(i)
        PROVE  OwnersFence!Next
    <3>1. author' = i /\ i >= author /\ i # 0
      BY <2>1 DEF Write, LeaseInv, TokensCountGrants, LeaseTypeOK
    <3>2. QED
      BY <3>1 DEF OwnersFence!Next, OwnersFence!Hold
  <2>2. ASSUME author' = author
        PROVE  [OwnersFence!Next]_<<author, author>>
    BY <2>2
  <2>3. QED
    BY <2>1, <2>2 DEF LeaseNext, Acquire, Tick, leaseVars
<1>3. QED
  BY <1>1, <1>2, LeasesInvariant, PTL DEF LeaseSpec, OwnersInOrder, OwnersFence!Spec


-----------------------------------------------------------------------------
(* The cache *)

\* What makes the fence enough: it is the newest version announced, nothing newer
\* than the database is anywhere, and what a writer has yet to announce is pending.
FenceInv ==
    /\ versionFence = announced
    /\ cached # None => cached = announced
    /\ \A v \in 2..database : v \in pending \/ v <= announced

CacheInv == CacheTypeOK /\ FenceInv

LEMMA InitCacheInv == CacheInit => CacheInv
  BY NoneAssumption
     DEF NoneAssumption, CacheInit, CacheInv, CacheTypeOK, FenceInv

LEMMA NewerOfBounds ==
    ASSUME NEW a \in Nat, NEW b \in Nat
    PROVE  /\ NewerOf(a, b) \in {a, b}
           /\ NewerOf(a, b) >= a /\ NewerOf(a, b) >= b
  BY DEF NewerOf

LEMMA InvalidateCacheInv ==
    ASSUME CacheInv, NEW v \in pending, SafeInvalidate(v)
    PROVE  CacheInv'
<1>1. v \in 1..database /\ database \in Nat \ {0} /\ announced \in 0..database
  BY DEF CacheInv, CacheTypeOK
<1>2. /\ versionFence' = announced' /\ announced' = NewerOf(announced, v)
      /\ announced' \in 0..database /\ announced' >= announced /\ announced' >= v
  BY <1>1, NewerOfBounds DEF SafeInvalidate, RaisedFence, CacheInv, FenceInv
<1>3. CacheTypeOK'
  BY <1>2 DEF SafeInvalidate, CacheInv, CacheTypeOK
<1>4. \A u \in 2..database : u \in pending \ {v} \/ u <= announced'
  BY <1>1, <1>2 DEF CacheInv, FenceInv
<1>5. QED
  BY <1>2, <1>3, <1>4 DEF SafeInvalidate, CacheInv, FenceInv

LEMMA FillCacheInv ==
    ASSUME CacheInv, NEW r \in Readers, SafeFill(r)
    PROVE  CacheInv'
<1> DEFINE v == snapshot[r]
<1>1. v \in 1..database /\ database \in Nat \ {0} /\ announced \in 0..database
  BY DEF SafeFill, CacheInv, CacheTypeOK
<1>2. snapshot' \in [Readers -> 1..database \cup {None}]
  BY DEF SafeFill, CacheInv, CacheTypeOK
<1>3. CASE Accepts(v)
  <2>1. v >= announced
    BY <1>3 DEF Accepts, CacheInv, FenceInv
  <2>2. /\ versionFence' = v /\ announced' = v /\ cached' = v
        /\ database' = database /\ pending' = pending
    BY <1>1, <1>3, <2>1 DEF SafeFill, RaisedFence, NewerOf, CacheInv, FenceInv
  <2>3. CacheTypeOK'
    BY <1>1, <1>2, <2>2 DEF CacheInv, CacheTypeOK
  <2>4. \A u \in 2..database : u \in pending \/ u <= v
    BY <1>1, <2>1 DEF CacheInv, FenceInv
  <2>5. QED
    BY <2>2, <2>3, <2>4 DEF CacheInv, FenceInv
<1>4. CASE ~Accepts(v)
  BY <1>2, <1>4 DEF SafeFill, CacheInv, CacheTypeOK, FenceInv
<1>5. QED
  BY <1>3, <1>4

LEMMA CommitCacheInv ==
    ASSUME CacheInv, Commit
    PROVE  CacheInv'
<1>1. database \in Nat \ {0} /\ database' = database + 1
  BY DEF Commit, CacheInv, CacheTypeOK
<1>2. CacheTypeOK'
  <2>1. 1..database \subseteq 1..(database + 1) /\ 0..database \subseteq 0..(database + 1)
    BY <1>1
  <2>2. QED
    BY <1>1, <2>1 DEF Commit, CacheInv, CacheTypeOK
<1>3. \A u \in 2..(database + 1) : u \in pending \cup {database + 1} \/ u <= announced
  BY <1>1 DEF CacheInv, FenceInv
<1>4. QED
  BY <1>1, <1>2, <1>3 DEF Commit, CacheInv, FenceInv

LEMMA NextCacheInv == CacheInv /\ [CacheNext]_cacheVars => CacheInv'
<1> SUFFICES ASSUME CacheInv, [CacheNext]_cacheVars PROVE CacheInv'
  OBVIOUS
<1>1. ASSUME NEW r \in Readers, ReadDatabase(r) PROVE CacheInv'
  BY <1>1 DEF ReadDatabase, CacheInv, CacheTypeOK, FenceInv
<1>2. ASSUME NEW r \in Readers, SafeFill(r) PROVE CacheInv'
  BY <1>2, FillCacheInv
<1>3. CASE Commit
  BY <1>3, CommitCacheInv
<1>4. ASSUME NEW v \in pending, SafeInvalidate(v) PROVE CacheInv'
  BY <1>4, InvalidateCacheInv
<1>5. CASE UNCHANGED cacheVars
  BY <1>5 DEF cacheVars, CacheInv, CacheTypeOK, FenceInv
<1>6. QED
  BY <1>1, <1>2, <1>3, <1>4, <1>5 DEF CacheNext

\* Types, and the fence as the newest version announced, always.
THEOREM CacheInvariant == CacheSpec => []CacheInv
<1>1. QED
  BY InitCacheInv, NextCacheInv, PTL DEF CacheSpec

\* However late fills and invalidations come, the cache is never back at a version
\* older than one it has held or was invalidated for.
THEOREM CacheFenced == CacheSpec => NoResurrection
<1>1. CacheInit => VersionsFence!Init
  BY DEF CacheInit, VersionsFence!Init
<1>2. CacheInv /\ [CacheNext]_cacheVars => [VersionsFence!Next]_<<announced, cached>>
  <2> SUFFICES ASSUME CacheInv, [CacheNext]_cacheVars
               PROVE  [VersionsFence!Next]_<<announced, cached>>
    OBVIOUS
  <2>1. ASSUME NEW r \in Readers, SafeFill(r), Accepts(snapshot[r])
        PROVE  VersionsFence!Next
    <3> DEFINE v == snapshot[r]
    <3>1. v \in 1..database /\ database \in Nat /\ announced \in 0..database
      BY <2>1 DEF SafeFill, CacheInv, CacheTypeOK
    <3>2. v >= announced
      BY <2>1 DEF Accepts, CacheInv, FenceInv
    <3>3. cached' = v /\ announced' = v /\ v # None
      BY <2>1, <3>1, <3>2 DEF SafeFill, NewerOf
    <3>4. QED
      BY <3>2, <3>3 DEF VersionsFence!Next, VersionsFence!Hold
  <2>2. ASSUME NEW r \in Readers, SafeFill(r), ~Accepts(snapshot[r])
        PROVE  UNCHANGED <<announced, cached>>
    BY <2>2 DEF SafeFill
  <2>3. ASSUME NEW v \in pending, SafeInvalidate(v)
        PROVE  VersionsFence!Next
    <3>1. v \in Nat /\ announced \in Nat
      BY DEF CacheInv, CacheTypeOK
    <3>2. cached' = None /\ announced' >= announced
      BY <2>3, <3>1, NewerOfBounds DEF SafeInvalidate
    <3>3. QED
      BY <3>2 DEF VersionsFence!Next, VersionsFence!Drop
  <2>4. QED
    BY <2>1, <2>2, <2>3 DEF CacheNext, ReadDatabase, Commit, cacheVars
<1>3. QED
  BY <1>1, <1>2, CacheInvariant, PTL DEF CacheSpec, NoResurrection, VersionsFence!Spec

\* Once every writer has invalidated, a cached value is the committed one.
THEOREM CacheFreshWhenQuiet == CacheSpec => []QuietCacheIsFresh
<1>1. CacheInv => QuietCacheIsFresh
  <2> SUFFICES ASSUME CacheInv, pending = {}, cached # None PROVE cached = database
    BY DEF QuietCacheIsFresh
  <2>1. /\ database \in Nat \ {0} /\ cached \in 1..database
        /\ cached = announced
    BY DEF CacheInv, CacheTypeOK, FenceInv
  <2>2. CASE database = 1
    BY <2>1, <2>2
  <2>3. CASE database > 1
    <3>1. database \in 2..database
      BY <2>1, <2>3
    <3>2. database <= announced
      BY <3>1 DEF CacheInv, FenceInv
    <3>3. QED
      BY <2>1, <3>2
  <2>4. QED
    BY <2>1, <2>2, <2>3
<1>2. QED
  BY <1>1, CacheInvariant, PTL


-----------------------------------------------------------------------------
(* Both, side by side. *)

\* Tokens, leases, versions and what was written or cached are well formed, however
\* the steps of the two fences interleave.
THEOREM VersionsTyped == Spec => []TypeOK
<1>1. Init => LeaseInv /\ CacheInv
  BY InitLeaseInv, InitCacheInv DEF Init
<1>2. LeaseInv /\ CacheInv /\ [Next]_<<leaseVars, cacheVars>> => LeaseInv' /\ CacheInv'
  <2>1. [Next]_<<leaseVars, cacheVars>> => [LeaseNext]_leaseVars /\ [CacheNext]_cacheVars
    BY DEF Next
  <2>2. QED
    BY <2>1, NextLeaseInv, NextCacheInv
<1>3. LeaseInv /\ CacheInv => TypeOK
  BY DEF LeaseInv, CacheInv, TypeOK
<1>4. QED
  BY <1>1, <1>2, <1>3, PTL DEF Spec

=============================================================================
