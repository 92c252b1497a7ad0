--------------------------- MODULE MCVersionFences ---------------------------
(***************************************************************************)
(* The two version fences, side by side: the fenced resource behind its    *)
(* lease coordinator, and the cache.  Both keep the promise of NewerWins.   *)
(* They share nothing: a step is a step of one of them.                    *)
(***************************************************************************)
EXTENDS LeaseFencing, CacheFence

Init == LeaseInit /\ CacheInit

Next ==
    \/ LeaseNext /\ UNCHANGED cacheVars
    \/ CacheNext /\ UNCHANGED leaseVars

Spec == Init /\ [][Next]_<<leaseVars, cacheVars>>

\* Tokens, leases and versions are well formed, and the value of the resource was
\* written by a lease that was granted; nothing newer than the database's version
\* is cached, fenced or in a reader's hands.
TypeOK == LeaseTypeOK /\ CacheTypeOK

=============================================================================
