---------------------------- MODULE LeaseFencing ----------------------------
(***************************************************************************)
(* Leases and fencing tokens:                                              *)
(* labs/distributed-systems/03-fencing-tokens/fencing_demo.py.             *)
(*                                                                         *)
(* LeaseCoordinator grants one lease at a time; a worker that pauses keeps *)
(* the Lease it was handed and may write with it at any later time, lease  *)
(* expired or not, since nobody can take it back.  FencedResource decides  *)
(* with the token alone: it sees neither the coordinator nor the clock.    *)
(***************************************************************************)
EXTENDS Integers, Sequences

CONSTANTS
    Workers,         \* the owners
    LeaseDuration,   \* lease_duration of the coordinator
    MaxTime,         \* bound: the last instant of the clock
    MaxLeases        \* bound: the number of leases granted

\* The constructor rejects a duration that is not positive.  Times are whole: only
\* their order and a sum with the duration matter.
ASSUME LeaseAssumption == LeaseDuration \in Nat \ {0}

VARIABLES
    now,             \* the instant, as the callers of acquire pass it
    granted,         \* every Lease handed out so far; _active is the last one
    nextToken,       \* LeaseCoordinator._next_token
    highestToken,    \* FencedResource.highest_token
    author           \* the lease, by its place in granted, that wrote the value
                     \* of the resource (0: no value yet)

leaseVars == <<now, granted, nextToken, highestToken, author>>

Lease == [owner : Workers, token : Nat, issued_at : Nat, expires_at : Nat]

LeaseInit ==
    /\ now = 0
    /\ granted = <<>>
    /\ nextToken = 1
    /\ highestToken = 0
    /\ author = 0

\* A lease that was granted has run out before the next one is.
Free == granted # <<>> => now >= granted[Len(granted)].expires_at

NewLease(w) == [owner |-> w, token |-> nextToken, issued_at |-> now,
                expires_at |-> now + LeaseDuration]

\* Mutated form: the counter of tokens is not advanced.
AcquireSameToken(w) ==
    /\ Len(granted) < MaxLeases
    /\ Free
    /\ granted' = Append(granted, NewLease(w))
    /\ UNCHANGED <<now, nextToken, highestToken, author>>

\* LeaseCoordinator.acquire.  While the lease is held it raises.
Acquire(w) ==
    /\ Len(granted) < MaxLeases
    /\ Free
    /\ granted' = Append(granted, NewLease(w))
    /\ nextToken' = nextToken + 1
    /\ UNCHANGED <<now, highestToken, author>>

\* FencedResource.write, called with the i-th lease by the owner it was handed
\* to.  A lower token is refused and changes nothing.
Write(i) ==
    /\ granted[i].token >= highestToken
    /\ highestToken' = granted[i].token
    /\ author' = i
    /\ UNCHANGED <<now, granted, nextToken>>

Tick ==
    /\ now < MaxTime
    /\ now' = now + 1
    /\ UNCHANGED <<granted, nextToken, highestToken, author>>

\* simulate is one schedule of these steps; a pause is a worker that takes none.
LeaseNext ==
    \/ \E w \in Workers : Acquire(w)
    \/ \E i \in DOMAIN granted : Write(i)
    \/ Tick

LeaseSpec == LeaseInit /\ [][LeaseNext]_leaseVars

-----------------------------------------------------------------------------
LeaseTypeOK ==
    /\ now \in Nat
    /\ granted \in Seq(Lease)
    /\ nextToken \in Nat
    /\ highestToken \in Nat
    /\ author \in 0..Len(granted)

\* README: "A former owner that resumes after a pause must not overwrite the new
\* owner's state."  The versions are the leases in the order of their grants, not
\* their tokens: once an owner has written, nothing written with a lease that was
\* granted earlier is accepted, however late it comes.  (An owner that has not yet
\* written is unknown to the resource: until its first write a former one may.)
OwnersFence == INSTANCE NewerWins WITH newest <- author, held <- author, None <- 0

OwnersInOrder == OwnersFence!Spec

=============================================================================
