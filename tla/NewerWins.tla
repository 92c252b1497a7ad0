------------------------------ MODULE NewerWins ------------------------------
(***************************************************************************)
(* What a fence promises, whoever implements it: a store of one value whose *)
(* writers may be late.  Each write carries a version.  The store may drop  *)
(* what it holds, or learn of a version without being given the value, but  *)
(* it never again holds a version older than one it has held or learnt of.  *)
(***************************************************************************)
EXTENDS Integers

CONSTANT None      \* held when the store is empty

VARIABLES
    newest,        \* the newest version the store has held or learnt of
    held           \* the version it holds, or None

Init == newest = 0 /\ held = None

\* A write is accepted.
Hold == held' # None /\ held' >= newest /\ newest' = held'

\* The value is dropped because a version that is not older exists elsewhere.
Drop == held' = None /\ newest' >= newest

Next == Hold \/ Drop

Spec == Init /\ [][Next]_<<newest, held>>

=============================================================================
