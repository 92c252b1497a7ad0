-------------------------------- MODULE Sums --------------------------------
(***************************************************************************)
(* The sum and the product of the numbers that a function gives to the       *)
(* elements of a set: the labs that admit a batch by size compare such sums  *)
(* with limits, and attempts multiply along a chain of retrying layers.      *)
(***************************************************************************)
LOCAL INSTANCE Integers
LOCAL INSTANCE Functions

Total(weight, S) == FoldFunctionOnSet(+, 0, weight, S)

Product(factor, S) == FoldFunctionOnSet(LAMBDA m, n : m * n, 1, factor, S)

=============================================================================
