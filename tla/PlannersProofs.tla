---------------------------- MODULE PlannersProofs ----------------------------
(***************************************************************************)
(* Machine-checked proofs about the labs that decide on a batch of inputs,   *)
(* for any inputs and any bounds.                                          *)
(***************************************************************************)
EXTENDS MCPlanners, TLAPS, FiniteSetTheorems, WellFoundedInduction

-----------------------------------------------------------------------------
(* Sums and products.  The community modules define a fold by recursion over *)
(* the subsets of a set; that there is such a function, and that a sum or a  *)
(* product grows by what is added, is shown by a least counterexample,       *)
(* counted by cardinality.                                                *)

\* A nonempty set of numbers has a least one.
LEMMA LeastExists ==
    ASSUME NEW S \in SUBSET Nat, S # {}
    PROVE  \E n \in S : \A m \in S : n <= m
<1>1. PICK n \in S : \A m \in S : ~(<<m, n>> \in OpToRel(<, Nat))
  BY WFMin, NatLessThanWellFounded
<1>2. \A m \in S : n <= m
  <2> SUFFICES ASSUME NEW m \in S, m < n PROVE FALSE
    OBVIOUS
  <2>1. <<m, n>> \in OpToRel(<, Nat)
    BY DEF OpToRel
  <2>2. QED
    BY <1>1, <2>1
<1>3. QED
  BY <1>2

\* The element of a set that the fold takes first.
Taken(s) == CHOOSE x \in s : TRUE

Kinds == {"sum", "product"}

Unit(k) == IF k = "sum" THEN 0 ELSE 1
Joined(k, a, b) == IF k = "sum" THEN a + b ELSE a * b

Folded(k, w, f, s) ==
    IF s = {} THEN Unit(k) ELSE Joined(k, w[Taken(s)], f[s \ {Taken(s)}])

IsFold(k, w, S, f) == f = [s \in SUBSET S |-> Folded(k, w, f, s)]

Fold(k, w, S) == IF k = "sum" THEN Total(w, S) ELSE Product(w, S)

\* Sums and products of numbers are numbers, in whatever order.
LEMMA JoinedNumbers ==
    ASSUME NEW k
    PROVE  /\ Unit(k) \in Nat
           /\ \A a, b \in Nat : Joined(k, a, b) \in Nat
           /\ \A a, b, c \in Nat : Joined(k, a, Joined(k, b, c)) = Joined(k, b, Joined(k, a, c))
<1>1. \A a, b \in Nat : a + b \in Nat /\ a * b \in Nat
  BY Z3
<1>2. \A a, b, c \in Nat : a + (b + c) = b + (a + c) /\ a * (b * c) = b * (a * c)
  BY Z3
<1>3. QED
  BY <1>1, <1>2 DEF Unit, Joined

\* What the folds are.
LEMMA FoldIsChosen ==
    ASSUME NEW k \in Kinds, NEW w, NEW S
    PROVE  Fold(k, w, S) = (CHOOSE f : IsFold(k, w, S, f))[S]
<1>1. Total(w, S) = (CHOOSE f : IsFold("sum", w, S, f))[S]
  BY Zenon DEF Total, FoldFunctionOnSet, MapThenFoldSet, IsFold, Folded, Taken, Unit, Joined
<1>2. Product(w, S) = (CHOOSE f : IsFold("product", w, S, f))[S]
  BY Zenon DEF Product, FoldFunctionOnSet, MapThenFoldSet, IsFold, Folded, Taken, Unit, Joined
<1>3. QED
  BY <1>1, <1>2 DEF Fold, Kinds

LEMMA TakenIn == ASSUME NEW s, s # {} PROVE Taken(s) \in s
BY DEF Taken

\* Taking an element from a finite set.
LEMMA SmallerSet ==
    ASSUME NEW s, IsFiniteSet(s), NEW x \in s
    PROVE  /\ IsFiniteSet(s \ {x})
           /\ Cardinality(s) \in Nat
           /\ Cardinality(s \ {x}) \in Nat
           /\ Cardinality(s \ {x}) = Cardinality(s) - 1
BY FS_RemoveElement, FS_CardinalityType

\* The fold's function exists on the subsets of a finite set.
LEMMA FoldExists ==
    ASSUME NEW k \in Kinds, NEW w, NEW S, IsFiniteSet(S)
    PROVE  \E f : IsFold(k, w, S, f)
<1> DEFINE Small(n) == {s \in SUBSET S : Cardinality(s) <= n}
           Missing == {n \in Nat : ~ \E f : f = [s \in Small(n) |-> Folded(k, w, f, s)]}
<1>1. \A s \in SUBSET S : IsFiniteSet(s) /\ Cardinality(s) \in Nat
  BY FS_Subset, FS_CardinalityType
<1>2. Missing = {}
  <2> SUFFICES ASSUME Missing # {} PROVE FALSE
    OBVIOUS
  <2> Missing \in SUBSET Nat
    OBVIOUS
  <2> HIDE DEF Missing
  <2>1. PICK n \in Missing : \A m \in Missing : n <= m
    BY LeastExists
  <2>2. CASE n = 0
    <3> DEFINE f == [s \in Small(0) |-> Unit(k)]
    <3>1. \A s \in Small(0) : s = {}
      BY <1>1, FS_EmptySet
    <3>2. f = [s \in Small(0) |-> Folded(k, w, f, s)]
      BY <3>1 DEF Folded
    <3>3. QED
      BY <2>1, <2>2, <3>2 DEF Missing
  <2>3. CASE n # 0
    <3>1. n - 1 \in Nat /\ ~(n <= n - 1)
      BY <2>1, <2>3 DEF Missing
    <3>2. PICK f : f = [s \in Small(n - 1) |-> Folded(k, w, f, s)]
      <4>1. n - 1 \notin Missing
        BY <2>1, <3>1
      <4>2. QED
        BY <3>1, <4>1 DEF Missing
    <3> DEFINE g == [s \in Small(n) |-> Folded(k, w, f, s)]
    <3>3. \A s \in Small(n - 1) : s \in Small(n) /\ g[s] = f[s]
      <4> SUFFICES ASSUME NEW s \in Small(n - 1) PROVE s \in Small(n) /\ g[s] = f[s]
        OBVIOUS
      <4>1. s \in Small(n)
        BY <1>1, <3>1
      <4>2. f[s] = Folded(k, w, f, s)
        BY <3>2
      <4>3. QED
        BY <4>1, <4>2
    <3>4. \A s \in Small(n) : Folded(k, w, f, s) = Folded(k, w, g, s)
      <4> SUFFICES ASSUME NEW s \in Small(n), s # {}
                   PROVE  g[s \ {Taken(s)}] = f[s \ {Taken(s)}]
        BY DEF Folded
      <4>1. s \ {Taken(s)} \in Small(n - 1)
        BY <1>1, SmallerSet, TakenIn, <3>1
      <4>2. QED
        BY <3>3, <4>1
    <3>5. g = [s \in Small(n) |-> Folded(k, w, g, s)]
      BY <3>4
    <3>6. QED
      BY <2>1, <3>5 DEF Missing
  <2>4. QED
    BY <2>2, <2>3
<1>3. PICK f : f = [s \in Small(Cardinality(S)) |-> Folded(k, w, f, s)]
  BY <1>1, <1>2
<1>4. Small(Cardinality(S)) = SUBSET S
  BY FS_Subset
<1>5. QED
  BY <1>3, <1>4 DEF IsFold

\* Of some finite sets one is smallest.
LEMMA SmallestExists ==
    ASSUME NEW X, X # {}, \A s \in X : IsFiniteSet(s)
    PROVE  \E s \in X : \A t \in X : Cardinality(s) <= Cardinality(t)
<1> DEFINE Counts == {Cardinality(s) : s \in X}
<1>1. Counts \in SUBSET Nat /\ Counts # {}
  BY FS_CardinalityType
<1>2. PICK n \in Counts : \A m \in Counts : n <= m
  <2> HIDE DEF Counts
  <2> QED
    BY <1>1, LeastExists
<1>3. QED
  BY <1>2

\* The fold's function on a finite set, and what the sum is of it.
LEMMA FoldByFunction ==
    ASSUME NEW k \in Kinds, NEW w, NEW S, IsFiniteSet(S)
    PROVE  \E f : IsFold(k, w, S, f) /\ Fold(k, w, S) = f[S]
BY FoldExists, FoldIsChosen

\* The functions of two folds agree where their weights do.
LEMMA FoldsAgree ==
    ASSUME NEW k \in Kinds, NEW w, NEW S, IsFiniteSet(S), NEW f, IsFold(k, w, S, f),
           NEW v, NEW T, S \subseteq T, NEW g, IsFold(k, v, T, g),
           \A x \in S : w[x] = v[x]
    PROVE  \A s \in SUBSET S : f[s] = g[s]
<1> DEFINE X == {s \in SUBSET S : f[s] # g[s]}
<1> SUFFICES ASSUME X # {} PROVE FALSE
  OBVIOUS
<1>1. \A s \in X : IsFiniteSet(s)
  BY FS_Subset
<1>2. PICK s \in X : \A t \in X : Cardinality(s) <= Cardinality(t)
  <2> HIDE DEF X
  <2> QED
    BY <1>1, SmallestExists
<1>3. f[s] = Folded(k, w, f, s) /\ g[s] = Folded(k, v, g, s)
  BY DEF IsFold
<1>4. CASE s = {}
  BY <1>3, <1>4 DEF Folded
<1>5. CASE s # {}
  <2>1. Taken(s) \in S
    BY <1>5, TakenIn
  <2>2. ~(Cardinality(s) <= Cardinality(s \ {Taken(s)}))
    <3>1. IsFiniteSet(s) /\ Taken(s) \in s
      BY <1>1, <1>2, <1>5, TakenIn
    <3>2. QED
      BY <3>1, SmallerSet
  <2>3. f[s \ {Taken(s)}] = g[s \ {Taken(s)}]
    BY <1>2, <2>2
  <2>4. QED
    BY <1>3, <1>5, <2>1, <2>3 DEF Folded
<1>6. QED
  BY <1>4, <1>5

\* The function of a fold over numbers has numbers for values.
LEMMA FoldsAreNumbers ==
    ASSUME NEW k \in Kinds, NEW w, NEW S, IsFiniteSet(S), NEW f, IsFold(k, w, S, f),
           \A x \in S : w[x] \in Nat
    PROVE  \A s \in SUBSET S : f[s] \in Nat
<1> DEFINE X == {s \in SUBSET S : f[s] \notin Nat}
<1> SUFFICES ASSUME X # {} PROVE FALSE
  OBVIOUS
<1>1. \A s \in X : IsFiniteSet(s)
  BY FS_Subset
<1>2. PICK s \in X : \A t \in X : Cardinality(s) <= Cardinality(t)
  <2> HIDE DEF X
  <2> QED
    BY <1>1, SmallestExists
<1>3. f[s] = Folded(k, w, f, s)
  BY DEF IsFold
<1>4. CASE s = {}
  BY <1>3, <1>4, JoinedNumbers DEF Folded
<1>5. CASE s # {}
  <2>1. Taken(s) \in S
    BY <1>5, TakenIn
  <2>2. ~(Cardinality(s) <= Cardinality(s \ {Taken(s)}))
    <3>1. IsFiniteSet(s) /\ Taken(s) \in s
      BY <1>1, <1>2, <1>5, TakenIn
    <3>2. QED
      BY <3>1, SmallerSet
  <2>3. f[s \ {Taken(s)}] \in Nat
    BY <1>2, <2>2
  <2>4. Joined(k, w[Taken(s)], f[s \ {Taken(s)}]) \in Nat
    BY <2>1, <2>3, JoinedNumbers
  <2>5. QED
    BY <1>3, <1>5, <2>4 DEF Folded
<1>6. QED
  BY <1>4, <1>5

\* Whichever element is taken first, the fold is the same.
LEMMA AnyFirst ==
    ASSUME NEW k \in Kinds, NEW w, NEW S, IsFiniteSet(S), NEW f, IsFold(k, w, S, f),
           \A x \in S : w[x] \in Nat
    PROVE  \A s \in SUBSET S : \A x \in s : f[s] = Joined(k, w[x], f[s \ {x}])
<1> DEFINE X == {s \in SUBSET S : \E x \in s : f[s] # Joined(k, w[x], f[s \ {x}])}
<1> SUFFICES ASSUME X # {} PROVE FALSE
  OBVIOUS
<1>1. \A s \in SUBSET S : IsFiniteSet(s) /\ f[s] \in Nat
  BY FS_Subset, FoldsAreNumbers
<1>2. X \in SUBSET SUBSET S
  OBVIOUS
<1>3. PICK s \in X : \A t \in X : Cardinality(s) <= Cardinality(t)
  <2> HIDE DEF X
  <2> QED
    BY <1>1, <1>2, SmallestExists
<1>4. PICK x \in s : f[s] # Joined(k, w[x], f[s \ {x}])
  OBVIOUS
<1> DEFINE c == Taken(s)
<1>5. c \in s
  BY <1>4, TakenIn
<1>6. \A y \in s : s \ {y} \notin X
  <2> SUFFICES ASSUME NEW y \in s PROVE s \ {y} \notin X
    OBVIOUS
  <2>1. ~(Cardinality(s) <= Cardinality(s \ {y}))
    <3>1. IsFiniteSet(s)
      BY <1>1, <1>3
    <3>2. /\ Cardinality(s) \in Nat /\ Cardinality(s \ {y}) \in Nat
          /\ Cardinality(s \ {y}) = Cardinality(s) - 1
      BY <3>1, SmallerSet
    <3>3. QED
      BY <3>2
  <2>2. QED
    BY <1>3, <2>1
<1>7. \A t \in SUBSET S : t # {} => f[t] = Joined(k, w[Taken(t)], f[t \ {Taken(t)}])
  BY DEF IsFold, Folded
<1>8. f[s] = Joined(k, w[c], f[s \ {c}])
  BY <1>5, <1>7
<1>9. c # x
  BY <1>4, <1>8
<1>10. f[s \ {c}] = Joined(k, w[x], f[(s \ {c}) \ {x}])
  BY <1>5, <1>6, <1>9
<1>11. f[s \ {x}] = Joined(k, w[c], f[(s \ {x}) \ {c}])
  BY <1>5, <1>6, <1>9
<1>12. (s \ {c}) \ {x} = (s \ {x}) \ {c} /\ (s \ {x}) \ {c} \in SUBSET S
  OBVIOUS
<1>13. w[x] \in Nat /\ w[c] \in Nat /\ f[(s \ {x}) \ {c}] \in Nat
  BY <1>1, <1>5, <1>12
<1> HIDE DEF X, c
<1>14. f[s] = Joined(k, w[c], Joined(k, w[x], f[(s \ {x}) \ {c}]))
  BY <1>8, <1>10, <1>12
<1>15. f[s] = Joined(k, w[x], Joined(k, w[c], f[(s \ {x}) \ {c}]))
  BY <1>13, <1>14, JoinedNumbers
<1>16. QED
  BY <1>4, <1>11, <1>15

\* Folds over nothing, over one element more, over weights that agree.
LEMMA FoldEmpty == ASSUME NEW k \in Kinds, NEW w PROVE Fold(k, w, {}) = Unit(k)
<1>1. PICK f : IsFold(k, w, {}, f) /\ Fold(k, w, {}) = f[{}]
  BY FoldByFunction, FS_EmptySet
<1>2. QED
  BY <1>1 DEF IsFold, Folded

LEMMA FoldAdd ==
    ASSUME NEW k \in Kinds, NEW S, IsFiniteSet(S), NEW x, x \notin S,
           NEW w, NEW v, \A y \in S : w[y] = v[y], \A y \in S \cup {x} : w[y] \in Nat
    PROVE  /\ Fold(k, v, S) \in Nat
           /\ Fold(k, w, S \cup {x}) = Joined(k, w[x], Fold(k, v, S))
<1> DEFINE T == S \cup {x}
<1>1. IsFiniteSet(T)
  BY FS_AddElement
<1>2. PICK f : IsFold(k, v, S, f) /\ Fold(k, v, S) = f[S]
  BY FoldByFunction
<1>3. PICK g : IsFold(k, w, T, g) /\ Fold(k, w, T) = g[T]
  BY <1>1, FoldByFunction
<1>4. f[S] = g[S]
  <2>1. S \subseteq T /\ S \in SUBSET S /\ \A y \in S : v[y] = w[y]
    OBVIOUS
  <2> HIDE DEF T
  <2>2. QED
    BY <1>2, <1>3, <2>1, FoldsAgree
<1>5. f[S] \in Nat
  BY <1>2, FoldsAreNumbers
<1>6. g[T] = Joined(k, w[x], g[T \ {x}])
  BY <1>1, <1>3, AnyFirst
<1>7. T \ {x} = S
  OBVIOUS
<1>8. QED
  BY <1>2, <1>3, <1>4, <1>5, <1>6, <1>7

LEMMA FoldSame ==
    ASSUME NEW k \in Kinds, NEW S, IsFiniteSet(S), NEW w, NEW v, \A x \in S : w[x] = v[x]
    PROVE  Fold(k, w, S) = Fold(k, v, S)
<1>1. PICK f : IsFold(k, w, S, f) /\ Fold(k, w, S) = f[S]
  BY FoldByFunction
<1>2. PICK g : IsFold(k, v, S, g) /\ Fold(k, v, S) = g[S]
  BY FoldByFunction
<1>3. QED
  BY <1>1, <1>2, FoldsAgree

\* The sum over nothing.
LEMMA SumEmpty == ASSUME NEW w PROVE Total(w, {}) = 0
<1>1. Fold("sum", w, {}) = Unit("sum")
  BY FoldEmpty DEF Kinds
<1>2. QED
  BY <1>1 DEF Fold, Unit

\* A sum grows by the weight of what is added.
LEMMA SumAdd ==
    ASSUME NEW S, IsFiniteSet(S), NEW x, x \notin S,
           NEW w, \A y \in S \cup {x} : w[y] \in Nat
    PROVE  /\ Total(w, S) \in Nat
           /\ Total(w, S \cup {x}) = Total(w, S) + w[x]
<1>1. /\ Fold("sum", w, S) \in Nat
      /\ Fold("sum", w, S \cup {x}) = Joined("sum", w[x], Fold("sum", w, S))
  BY FoldAdd DEF Kinds
<1>2. /\ Total(w, S) \in Nat
      /\ Total(w, S \cup {x}) = w[x] + Total(w, S)
  BY <1>1 DEF Fold, Joined
<1>3. w[x] \in Nat
  OBVIOUS
<1>4. QED
  BY <1>2, <1>3

\* A sum over a finite set of numbers is a number, and depends on the weights in it.
LEMMA SumSame ==
    ASSUME NEW S, IsFiniteSet(S), NEW w, NEW v, \A x \in S : w[x] = v[x]
    PROVE  Total(w, S) = Total(v, S)
<1>1. Fold("sum", w, S) = Fold("sum", v, S)
  BY FoldSame DEF Kinds
<1>2. QED
  BY <1>1 DEF Fold

LEMMA SumNumber ==
    ASSUME NEW S, IsFiniteSet(S), NEW w, \A x \in S : w[x] \in Nat
    PROVE  Total(w, S) \in Nat
<1>1. PICK f : IsFold("sum", w, S, f) /\ Fold("sum", w, S) = f[S]
  BY FoldByFunction DEF Kinds
<1>2. f[S] \in Nat
  BY <1>1, FoldsAreNumbers DEF Kinds
<1>3. QED
  BY <1>1, <1>2 DEF Fold

\* The product over nothing, and over one element more.
LEMMA ProductEmpty == ASSUME NEW w PROVE Product(w, {}) = 1
<1>1. Fold("product", w, {}) = Unit("product")
  BY FoldEmpty DEF Kinds
<1>2. QED
  BY <1>1 DEF Fold, Unit

LEMMA ProductAdd ==
    ASSUME NEW S, IsFiniteSet(S), NEW x, x \notin S,
           NEW w, NEW v, \A y \in S : w[y] = v[y], \A y \in S \cup {x} : w[y] \in Nat
    PROVE  /\ Product(v, S) \in Nat
           /\ Product(w, S \cup {x}) = w[x] * Product(v, S)
<1>1. /\ Fold("product", v, S) \in Nat
      /\ Fold("product", w, S \cup {x}) = Joined("product", w[x], Fold("product", v, S))
  BY FoldAdd DEF Kinds
<1>2. QED
  BY <1>1 DEF Fold, Joined
-----------------------------------------------------------------------------
(* Greatest and least of two. *)

LEMMA MaxOfTwo ==
    ASSUME NEW a \in Int, NEW b \in Int
    PROVE  Max({a, b}) = IF a >= b THEN a ELSE b
<1>1. \E x \in {a, b} : \A y \in {a, b} : x >= y
  OBVIOUS
<1>2. QED
  BY <1>1 DEF Max

LEMMA MinOfTwo ==
    ASSUME NEW a \in Int, NEW b \in Int
    PROVE  Min({a, b}) = IF a <= b THEN a ELSE b
<1>1. \E x \in {a, b} : \A y \in {a, b} : x <= y
  OBVIOUS
<1>2. QED
  BY <1>1 DEF Min

-----------------------------------------------------------------------------
(* Admission *)

\* What was decided was more urgent than what is not yet.
DecidedFirst == \A i \in DOMAIN decisions, j \in Undecided : Sooner(i, j)

\* A decided request was admitted if it fits, and only then.
FittingAdmitted == \A i \in DOMAIN decisions : i \in Admitted <=> Fits(i)

\* Before the call there is nothing to decide, and a report is made of a whole batch.
AdmitCalled ==
    /\ controller = <<>> => batch = <<>>
    /\ report # <<>> => controller # <<>> /\ Undecided = {}

AdmissionInv ==
    /\ AdmissionTypeOK
    /\ DecidedFirst
    /\ FittingAdmitted
    /\ AdmitCalled
    /\ AdmissionByUrgency

LEMMA AdmissionInitInv == AdmissionInit => AdmissionInv
<1> SUFFICES ASSUME AdmissionInit PROVE AdmissionInv
  OBVIOUS
<1>1. /\ DOMAIN batch = {} /\ DOMAIN decisions = {} /\ batch \in Seq(Requests)
      /\ Len(batch) = 0
  BY DEF AdmissionInit
<1>2. \A S : S \subseteq {} => Work(S) = 0
  BY SumEmpty DEF Work
<1>3. Admitted = {} /\ Admitted \cap Critical = {} /\ Undecided = {}
  BY <1>1 DEF Admitted, Undecided
<1>4. \A t \in Tenants : {i \in Admitted : batch[i].tenant = t} = {}
  BY <1>3
<1>5. AdmissionTypeOK
  BY <1>1, <1>2, <1>3, <1>4, AdmissionAssumption
  DEF AdmissionInit, AdmissionTypeOK, AdmissionAssumption
<1>6. DecidedFirst /\ FittingAdmitted
  BY <1>1 DEF DecidedFirst, FittingAdmitted
<1>7. AdmitCalled /\ AdmissionByUrgency
  BY DEF AdmissionInit, AdmitCalled, AdmissionByUrgency
<1>8. QED
  BY <1>5, <1>6, <1>7 DEF AdmissionInv

LEMMA AdmitStep ==
    ASSUME AdmissionInv, Admit
    PROVE  AdmissionInv'
<1>1. /\ batch = <<>> /\ DOMAIN decisions = {} /\ report = <<>>
      /\ decisions' = decisions /\ report' = report
  <2>1. batch = <<>> /\ report = <<>> /\ decisions' = decisions /\ report' = report
    BY DEF Admit, AdmissionInv, AdmitCalled
  <2>2. DOMAIN decisions \subseteq DOMAIN batch
    BY DEF AdmissionInv, AdmissionTypeOK
  <2>3. DOMAIN batch = {}
    BY <2>1
  <2>4. QED
    BY <2>1, <2>2, <2>3
<1>2. batch' \in Seq(Requests) /\ Len(batch') <= MaxRequests
  <2>1. MaxRequests \in Nat
    BY AdmissionAssumption DEF AdmissionAssumption
  <2>2. PICK m \in 0 .. MaxRequests : batch' \in [1 .. m -> Requests]
    BY DEF Admit, BoundedSeq, SeqOf
  <2>3. QED
    BY <2>1, <2>2
<1>3. controller' \in Controllers /\ controller' # <<>>
  <2>1. controller' \in Controllers
    BY DEF Admit
  <2>2. "capacity_units" \in DOMAIN controller'
    BY <2>1, AdmissionAssumption DEF AdmissionAssumption
  <2>3. QED
    BY <2>1, <2>2
<1>4. Admitted = {} /\ Admitted' = {} /\ Critical = {}
  BY <1>1 DEF Admitted, Critical
<1>5. consumed = Total(Units, {}) /\ criticalConsumed = Total(Units, {})
  BY <1>4 DEF AdmissionInv, AdmissionTypeOK, Work
<1>6. tenantConsumed = [t \in Tenants |-> Total(Units, {})]
  BY <1>4 DEF AdmissionInv, AdmissionTypeOK, Work
<1>7. Total(Units, {}) = Total(Units', {})
  BY SumEmpty
<1>8. AdmissionTypeOK'
  BY <1>1, <1>2, <1>3, <1>4, <1>5, <1>6, <1>7 DEF Admit, AdmissionTypeOK, Work
<1>9. (DecidedFirst /\ FittingAdmitted /\ AdmissionByUrgency)'
  BY <1>1 DEF DecidedFirst, FittingAdmitted, AdmissionByUrgency
<1>10. AdmitCalled'
  BY <1>1, <1>3 DEF AdmitCalled
<1>11. QED
  BY <1>8, <1>9, <1>10 DEF AdmissionInv

\* The work of some requests, and of one more.
LEMMA WorkAdds ==
    ASSUME AdmissionTypeOK, NEW S \in SUBSET DOMAIN batch
    PROVE  /\ Work(S) \in Nat
           /\ \A i \in DOMAIN batch \ S : Work(S \cup {i}) = Work(S) + batch[i].work_units
<1>1. batch \in Seq(Requests) /\ DOMAIN batch = 1 .. Len(batch) /\ Len(batch) \in Nat
  BY DEF AdmissionTypeOK
<1>2. IsFiniteSet(S)
  <2>1. IsFiniteSet(1 .. Len(batch))
    BY <1>1, FS_Interval
  <2>2. QED
    BY <1>1, <2>1, FS_Subset
<1>3. \A i \in DOMAIN batch : Units[i] \in Nat /\ Units[i] = batch[i].work_units
  BY <1>1, AdmissionAssumption DEF Units, AdmissionAssumption, AdmissionRequest
<1>4. Total(Units, S) \in Nat
  BY <1>2, <1>3, SumNumber
<1>5. ASSUME NEW i \in DOMAIN batch \ S
      PROVE  Total(Units, S \cup {i}) = Total(Units, S) + Units[i]
  BY <1>2, <1>3, SumAdd
<1>6. QED
  BY <1>3, <1>4, <1>5 DEF Work

\* What is decided of the request that is next.
LEMMA DecideNext ==
    ASSUME AdmissionInv, NEW i \in Undecided, \A j \in Undecided \ {i} : Sooner(i, j),
           controller # <<>>
    PROVE  LET u == batch[i].work_units
               with == Admitted \cup {i}
               spare == controller.critical_reserve_units - criticalConsumed
           IN  /\ Work(with) = consumed + u
               /\ Work({j \in with : batch[j].tenant = batch[i].tenant})
                    = tenantConsumed[batch[i].tenant] + u
               /\ Reason(batch[i]) = "admitted" <=>
                    /\ tenantConsumed[batch[i].tenant] + u <= controller.per_tenant_units
                    /\ consumed + u <= controller.capacity_units
                    /\ i \notin Critical /\ spare > 0 =>
                            consumed + u <= controller.capacity_units - spare
<1> DEFINE r == batch[i]
           u == r.work_units
           with == Admitted \cup {i}
           same == {j \in Admitted : batch[j].tenant = r.tenant}
           spare == controller.critical_reserve_units - criticalConsumed
<1>1. /\ AdmissionTypeOK
      /\ i \in DOMAIN batch /\ i \notin Admitted
      /\ Admitted \subseteq DOMAIN batch
  BY DEF AdmissionInv, AdmissionTypeOK, Undecided, Admitted
<1>2. /\ r \in Requests /\ r.tenant \in Tenants /\ u \in Nat
      /\ r.priority \in {"critical", "optional"}
  BY <1>1, AdmissionAssumption
  DEF AdmissionTypeOK, Tenants, AdmissionAssumption, AdmissionRequest
<1>3. /\ controller.capacity_units \in Nat
      /\ controller.critical_reserve_units \in Nat
      /\ controller.per_tenant_units \in Nat
  BY <1>1, AdmissionAssumption DEF AdmissionTypeOK, AdmissionAssumption
<1>4. /\ consumed \in Nat /\ criticalConsumed \in Nat
      /\ Work(with) = consumed + u
  BY <1>1, WorkAdds DEF AdmissionTypeOK
<1>5. /\ tenantConsumed[r.tenant] = Work(same)
      /\ same \subseteq DOMAIN batch /\ i \notin same
  BY <1>1, <1>2 DEF AdmissionTypeOK
<1>6. {j \in with : batch[j].tenant = r.tenant} = same \cup {i}
  OBVIOUS
<1>7. /\ tenantConsumed[r.tenant] \in Nat
      /\ Work({j \in with : batch[j].tenant = r.tenant}) = tenantConsumed[r.tenant] + u
  BY <1>1, <1>5, <1>6, WorkAdds
<1>8. i \in Critical <=> r.priority = "critical"
  BY <1>1 DEF Critical
<1>9. OptionalCeiling =
        IF spare > 0 THEN controller.capacity_units - spare ELSE controller.capacity_units
  <2>1. Max({0, spare}) = IF 0 >= spare THEN 0 ELSE spare
    <3>1. spare \in Int
      BY <1>3, <1>4
    <3>2. QED
      BY <3>1, MaxOfTwo
  <2>2. OptionalCeiling = controller.capacity_units - Max({0, spare})
    BY DEF OptionalCeiling
  <2>3. QED
    BY <1>3, <1>4, <2>1, <2>2
<1> HIDE DEF same, with
<1>10. Reason(r) = "admitted" <=>
         /\ tenantConsumed[r.tenant] + u <= controller.per_tenant_units
         /\ consumed + u <= controller.capacity_units
         /\ i \notin Critical /\ spare > 0 => consumed + u <= controller.capacity_units - spare
  <2>1. CASE ~(tenantConsumed[r.tenant] + u <= controller.per_tenant_units)
    <3>1. Reason(r) = "tenant_limit"
      BY <1>2, <1>3, <1>7, <2>1 DEF Reason
    <3>2. QED
      BY <2>1, <3>1
  <2>2. CASE /\ tenantConsumed[r.tenant] + u <= controller.per_tenant_units
             /\ ~(consumed + u <= controller.capacity_units)
    <3>1. Reason(r) = "capacity_exhausted"
      BY <1>2, <1>3, <1>4, <1>7, <2>2 DEF Reason
    <3>2. QED
      BY <2>2, <3>1
  <2>3. CASE /\ tenantConsumed[r.tenant] + u <= controller.per_tenant_units
             /\ consumed + u <= controller.capacity_units
    <3>1. Reason(r) = IF r.priority = "optional" /\ consumed + u > OptionalCeiling
                      THEN "critical_reserve" ELSE "admitted"
      BY <1>2, <1>3, <1>4, <1>7, <2>3 DEF Reason
    <3>2. consumed + u > OptionalCeiling <=>
            spare > 0 /\ ~(consumed + u <= controller.capacity_units - spare)
      BY <1>2, <1>3, <1>4, <1>9, <2>3
    <3>3. i \notin Critical <=> r.priority = "optional"
      BY <1>2, <1>8
    <3>4. QED
      BY <2>3, <3>1, <3>2, <3>3
  <2>4. QED
    BY <2>1, <2>2, <2>3
<1>11. QED
  BY <1>4, <1>7, <1>10 DEF with

LEMMA DecideRequestStep ==
    ASSUME AdmissionInv, DecideRequest
    PROVE  AdmissionInv'
<1>1. PICK i \in Undecided :
        /\ \A j \in Undecided \ {i} : Sooner(i, j)
        /\ LET r == batch[i]
               used == IF Reason(r) = "admitted" THEN r.work_units ELSE 0
           IN  /\ decisions' = [j \in DOMAIN decisions \cup {i} |->
                        IF j = i THEN Reason(r) ELSE decisions[j]]
               /\ consumed' = consumed + used
               /\ criticalConsumed' =
                    IF r.priority = "critical" THEN criticalConsumed + used
                    ELSE criticalConsumed
               /\ tenantConsumed' = [tenantConsumed EXCEPT ![r.tenant] = @ + used]
        /\ UNCHANGED <<controller, batch, report>>
  BY DEF DecideRequest
<1> DEFINE r == batch[i]
           ok == Reason(r) = "admitted"
           used == IF ok THEN r.work_units ELSE 0
           now1 == IF ok THEN Admitted \cup {i} ELSE Admitted
<1>2. /\ controller' = controller /\ batch' = batch /\ report' = report
      /\ Units' = Units /\ Critical' = Critical
  BY <1>1 DEF Units, Critical
<1>3. /\ AdmissionTypeOK
      /\ i \in DOMAIN batch /\ i \notin DOMAIN decisions /\ i \notin Admitted
      /\ Admitted \subseteq DOMAIN decisions
      /\ DOMAIN decisions \subseteq DOMAIN batch
      /\ DOMAIN batch \subseteq Nat
  BY <1>1 DEF AdmissionInv, AdmissionTypeOK, Undecided, Admitted
<1>4. controller # <<>> /\ report = <<>>
  BY <1>1, <1>3 DEF AdmissionInv, AdmitCalled
<1>5. /\ DOMAIN decisions' = DOMAIN decisions \cup {i}
      /\ decisions'[i] = Reason(r)
      /\ \A j \in DOMAIN decisions : decisions'[j] = decisions[j]
  BY <1>1, <1>3
<1>6. Admitted' = now1
  BY <1>3, <1>5 DEF Admitted
<1>7. Undecided' = Undecided \ {i}
  BY <1>2, <1>5 DEF Undecided
<1>8. /\ r \in Requests /\ r.tenant \in Tenants /\ r.work_units \in Nat
      /\ \A j \in DOMAIN batch : batch[j].priority \in {"critical", "optional"}
  BY <1>3, AdmissionAssumption
  DEF AdmissionTypeOK, Tenants, AdmissionAssumption, AdmissionRequest
<1>9. DecidedFirst'
  <2> SUFFICES ASSUME NEW k \in DOMAIN decisions', NEW j \in Undecided'
               PROVE  Sooner(k, j)'
    BY DEF DecidedFirst
  <2>1. Sooner(k, j)
    BY <1>1, <1>5, <1>7 DEF AdmissionInv, DecidedFirst
  <2>2. QED
    BY <1>2, <2>1 DEF Sooner
<1>10. AdmissionTypeOK'
  <2>1. consumed' = Work(now1)
    <3>1. consumed = Work(Admitted) /\ consumed \in Nat
      BY <1>3, WorkAdds DEF AdmissionTypeOK
    <3>2. ok => Work(Admitted \cup {i}) = consumed + r.work_units
      BY <1>3, <3>1, WorkAdds
    <3>3. QED
      BY <1>1, <3>1, <3>2
  <2>2. criticalConsumed' = Work(now1 \cap Critical)
    <3>1. /\ criticalConsumed = Work(Admitted \cap Critical) /\ criticalConsumed \in Nat
          /\ Work((Admitted \cap Critical) \cup {i}) = criticalConsumed + r.work_units
      BY <1>3, WorkAdds DEF AdmissionTypeOK
    <3>2. now1 \cap Critical = IF ok /\ r.priority = "critical"
                               THEN (Admitted \cap Critical) \cup {i}
                               ELSE Admitted \cap Critical
      BY <1>3 DEF Critical
    <3>3. criticalConsumed' = IF ok /\ r.priority = "critical"
                              THEN criticalConsumed + r.work_units ELSE criticalConsumed
      BY <1>1, <3>1
    <3>4. QED
      BY <3>1, <3>2, <3>3
  <2>3. ASSUME NEW t \in Tenants
        PROVE  tenantConsumed'[t] = Work({j \in now1 : batch[j].tenant = t})
    <3> DEFINE theirs == {j \in Admitted : batch[j].tenant = t}
    <3>1. /\ tenantConsumed[t] = Work(theirs) /\ tenantConsumed[t] \in Nat
          /\ Work(theirs \cup {i}) = tenantConsumed[t] + r.work_units
      BY <1>3, WorkAdds DEF AdmissionTypeOK
    <3>2. {j \in now1 : batch[j].tenant = t} =
            IF ok /\ r.tenant = t THEN theirs \cup {i} ELSE theirs
      BY <1>3
    <3>3. tenantConsumed'[t] =
            IF ok /\ r.tenant = t THEN tenantConsumed[t] + r.work_units ELSE tenantConsumed[t]
      <4>1. tenantConsumed = [s \in Tenants |-> tenantConsumed[s]]
        BY <1>3 DEF AdmissionTypeOK
      <4>2. tenantConsumed'[t] = IF t = r.tenant THEN tenantConsumed[t] + used
                                 ELSE tenantConsumed[t]
        BY <1>1, <1>8, <4>1
      <4>3. QED
        BY <3>1, <4>2
    <3>4. QED
      BY <3>1, <3>2, <3>3
  <2>4. tenantConsumed' = [t \in Tenants |-> Work({j \in now1 : batch[j].tenant = t})]
    <3>1. tenantConsumed' = [t \in Tenants |-> tenantConsumed'[t]]
      BY <1>1, <1>3 DEF AdmissionTypeOK
    <3>2. QED
      BY <2>3, <3>1
  <2> HIDE DEF now1
  <2>5. QED
    BY <1>2, <1>3, <1>5, <1>6, <2>1, <2>2, <2>4 DEF AdmissionTypeOK, Work
<1>11. ASSUME NEW k \in DOMAIN decisions
       PROVE  k \in Admitted' <=> Fits(k)'
  <2>1. Sooner(k, i) /\ k # i
    BY <1>1, <1>3 DEF AdmissionInv, DecidedFirst
  <2>2. Ahead(k)' = Ahead(k)
    <3>1. ~(\/ i \in Critical /\ k \notin Critical
            \/ (i \in Critical <=> k \in Critical) /\ i < k)
      BY <1>3, <1>8, <2>1 DEF Sooner, Critical
    <3>2. QED
      BY <1>2, <1>6, <3>1 DEF Ahead
  <2>3. Fits(k)' <=> Fits(k)
    BY <1>2, <2>2 DEF Fits, Work
  <2>4. k \in Admitted' <=> k \in Admitted
    BY <1>6, <2>1
  <2>5. QED
    BY <2>3, <2>4 DEF AdmissionInv, FittingAdmitted
<1>12. i \in Admitted' <=> Fits(i)'
  <2>1. Ahead(i)' = Admitted
    <3>1. \A j \in Admitted : \/ j \in Critical /\ i \notin Critical
                              \/ (j \in Critical <=> i \in Critical) /\ j < i
      <4> SUFFICES ASSUME NEW j \in Admitted
                   PROVE  \/ j \in Critical /\ i \notin Critical
                          \/ (j \in Critical <=> i \in Critical) /\ j < i
        OBVIOUS
      <4>1. Sooner(j, i)
        BY <1>1, <1>3 DEF AdmissionInv, DecidedFirst
      <4>2. QED
        BY <1>3, <1>8, <4>1 DEF Sooner, Critical
    <3>2. QED
      BY <1>2, <1>3, <1>6, <3>1 DEF Ahead
  <2>2. criticalConsumed = Work(Admitted \cap Critical)
    BY <1>3 DEF AdmissionTypeOK
  <2>3. ok <=> LET with == Admitted \cup {i}
                   spare == controller.critical_reserve_units - Work(Admitted \cap Critical)
               IN  /\ Work({j \in with : batch[j].tenant = batch[i].tenant})
                            <= controller.per_tenant_units
                   /\ Work(with) <= controller.capacity_units
                   /\ i \notin Critical /\ spare > 0 =>
                            Work(with) <= controller.capacity_units - spare
    BY <1>1, <1>4, <2>2, DecideNext
  <2>4. Fits(i)' <=> ok
    BY <1>2, <2>1, <2>3 DEF Fits, Work
  <2>5. QED
    BY <1>3, <1>6, <2>4
<1>13. FittingAdmitted'
  BY <1>5, <1>11, <1>12 DEF FittingAdmitted
<1>14. AdmitCalled' /\ AdmissionByUrgency'
  BY <1>2, <1>4 DEF AdmitCalled, AdmissionByUrgency
<1>15. QED
  BY <1>9, <1>10, <1>13, <1>14 DEF AdmissionInv

LEMMA ReportStep ==
    ASSUME AdmissionInv, Report
    PROVE  AdmissionInv'
<1> DEFINE verdict == [i \in DOMAIN batch |-> ById(batch[i].request_id)]
<1>1. /\ controller' = controller /\ batch' = batch /\ decisions' = decisions
      /\ consumed' = consumed /\ criticalConsumed' = criticalConsumed
      /\ tenantConsumed' = tenantConsumed
      /\ controller # <<>> /\ Undecided = {}
  BY DEF Report
<1>2. /\ Admitted' = Admitted /\ Critical' = Critical /\ Units' = Units
      /\ Undecided' = Undecided
  BY <1>1 DEF Admitted, Critical, Units, Undecided
<1>3. AdmissionTypeOK' /\ AdmitCalled'
  BY <1>1, <1>2 DEF AdmissionInv, AdmissionTypeOK, AdmitCalled, Work
<1>4. DecidedFirst'
  BY <1>1, <1>2 DEF DecidedFirst, Sooner
<1>5. \A i : Fits(i)' <=> Fits(i)
  BY <1>1, <1>2 DEF Fits, Ahead, Work
<1>6. FittingAdmitted'
  BY <1>1, <1>2, <1>5 DEF AdmissionInv, FittingAdmitted
<1>7. DOMAIN decisions = DOMAIN batch
  BY <1>1 DEF AdmissionInv, AdmissionTypeOK, Undecided
<1>8. \A i \in DOMAIN batch : i \in Admitted' <=> Fits(i)'
  BY <1>1, <1>6, <1>7 DEF FittingAdmitted
<1>9. ASSUME DistinctIds
      PROVE  /\ \A i \in DOMAIN batch : verdict[i] = "admitted" <=> i \in Admitted
             /\ report'.decisions = verdict
             /\ report'.consumed_units = Work(Admitted)
             /\ report'.admitted_critical = Cardinality(Admitted \cap Critical)
             /\ report'.rejected_optional =
                    Cardinality(DOMAIN batch \ (Admitted \cup Critical))
  <2>1. ASSUME NEW i \in DOMAIN batch
        PROVE  verdict[i] = "admitted" <=> i \in Admitted
    <3>1. {j \in DOMAIN decisions : batch[j].request_id = batch[i].request_id} = {i}
      BY <1>7, <1>9, <2>1 DEF DistinctIds, IsInjective
    <3>2. ById(batch[i].request_id) = decisions[i]
      BY <3>1 DEF ById
    <3>3. QED
      BY <1>7, <2>1, <3>2 DEF Admitted
  <2>2. \A i \in DOMAIN batch : batch[i].priority \in {"critical", "optional"}
    BY AdmissionAssumption
    DEF AdmissionInv, AdmissionTypeOK, AdmissionAssumption, AdmissionRequest
  <2>3. Admitted \subseteq DOMAIN batch
    BY <1>7 DEF Admitted
  <2>4. Admitted \cap Critical =
          {i \in DOMAIN batch : /\ batch[i].priority = "critical"
                                /\ (verdict[i] = "admitted") = TRUE}
    BY <2>1, <2>3 DEF Critical
  <2>5. DOMAIN batch \ (Admitted \cup Critical) =
          {i \in DOMAIN batch : /\ batch[i].priority = "optional"
                                /\ (verdict[i] = "admitted") = FALSE}
    BY <2>1, <2>2, <2>3 DEF Critical
  <2>6. consumed = Work(Admitted)
    BY DEF AdmissionInv, AdmissionTypeOK
  <2>7. /\ report'.decisions = verdict
        /\ report'.consumed_units = consumed
        /\ report'.admitted_critical = Cardinality(
                {i \in DOMAIN batch : /\ batch[i].priority = "critical"
                                      /\ (verdict[i] = "admitted") = TRUE})
        /\ report'.rejected_optional = Cardinality(
                {i \in DOMAIN batch : /\ batch[i].priority = "optional"
                                      /\ (verdict[i] = "admitted") = FALSE})
    BY DEF Report
  <2> HIDE DEF verdict
  <2>8. QED
    BY <2>1, <2>4, <2>5, <2>6, <2>7
<1> HIDE DEF verdict
<1>10. DistinctIds' <=> DistinctIds
  BY <1>1 DEF DistinctIds
<1>11. Work(Admitted)' = Work(Admitted)
  BY <1>2 DEF Work
<1>12. AdmissionByUrgency'
  BY <1>1, <1>2, <1>8, <1>9, <1>10, <1>11 DEF AdmissionByUrgency
<1>13. QED
  BY <1>3, <1>4, <1>6, <1>12 DEF AdmissionInv

LEMMA AdmissionStutter ==
    ASSUME AdmissionInv, UNCHANGED admissionVars
    PROVE  AdmissionInv'
<1>1. /\ controller' = controller /\ batch' = batch /\ decisions' = decisions
      /\ consumed' = consumed /\ criticalConsumed' = criticalConsumed
      /\ tenantConsumed' = tenantConsumed /\ report' = report
  BY DEF admissionVars
<1>2. /\ Admitted' = Admitted /\ Critical' = Critical /\ Units' = Units
      /\ Undecided' = Undecided
  BY <1>1 DEF Admitted, Critical, Units, Undecided
<1>3. AdmissionTypeOK' /\ AdmitCalled'
  BY <1>1, <1>2 DEF AdmissionInv, AdmissionTypeOK, AdmitCalled, Work
<1>4. DecidedFirst'
  BY <1>1, <1>2 DEF AdmissionInv, DecidedFirst, Sooner
<1>5. \A i : Fits(i)' <=> Fits(i)
  BY <1>1, <1>2 DEF Fits, Ahead, Work
<1>6. FittingAdmitted'
  BY <1>1, <1>2, <1>5 DEF AdmissionInv, FittingAdmitted
<1>7. DistinctIds' <=> DistinctIds
  BY <1>1 DEF DistinctIds
<1>8. Work(Admitted)' = Work(Admitted)
  BY <1>2 DEF Work
<1>9. AdmissionByUrgency'
  BY <1>1, <1>2, <1>5, <1>7, <1>8 DEF AdmissionInv, AdmissionByUrgency
<1>10. QED
  BY <1>3, <1>4, <1>6, <1>9 DEF AdmissionInv

LEMMA AdmissionStep ==
    ASSUME AdmissionInv, AdmissionNext \/ UNCHANGED admissionVars
    PROVE  AdmissionInv'
BY AdmitStep, DecideRequestStep, ReportStep, AdmissionStutter DEF AdmissionNext

-----------------------------------------------------------------------------
(* Telemetry *)

\* What was decided was before what is not yet in the order of the priorities.
WaitedFirst == \A i \in DOMAIN outcome, j \in Waiting : Earlier(i, j)

\* A decided item was accepted if it may stay, and only then.
StayingAccepted == \A i \in DOMAIN outcome : i \in Accepted <=> MayStay(i)

\* One accepted age is the greatest, or there is none.
GreatestAge == \E m \in acceptedAges \cup {0} : \A a \in acceptedAges \cup {0} : m >= a

\* Before the call there are no items, and a report is made of all of them.
IngestCalled ==
    /\ pipeline = <<>> => items = <<>>
    /\ ingestReport # <<>> => pipeline # <<>> /\ Waiting = {}

TelemetryInv ==
    /\ TelemetryTypeOK
    /\ WaitedFirst
    /\ StayingAccepted
    /\ GreatestAge
    /\ IngestCalled
    /\ LossOnlyByPolicy

LEMMA TelemetryInitInv == TelemetryInit => TelemetryInv
<1> SUFFICES ASSUME TelemetryInit PROVE TelemetryInv
  OBVIOUS
<1>1. DOMAIN items = {} /\ DOMAIN outcome = {} /\ items \in Seq(Items) /\ Len(items) = 0
  BY DEF TelemetryInit
<1>2. \A S : S \subseteq {} => Size(S) = 0
  BY SumEmpty DEF Size
<1>3. Accepted = {} /\ DOMAIN outcome \ Accepted = {} /\ Waiting = {}
  BY <1>1 DEF Accepted, Waiting
<1>4. /\ \A t \in Sources : {i \in Accepted : items[i].tenant = t} = {}
      /\ {items[i].age_seconds : i \in Accepted} = {}
  BY <1>3
<1>5. TelemetryTypeOK
  BY <1>1, <1>2, <1>3, <1>4, TelemetryAssumption
  DEF TelemetryInit, TelemetryTypeOK, TelemetryAssumption
<1>6. WaitedFirst /\ StayingAccepted
  BY <1>1 DEF WaitedFirst, StayingAccepted
<1>7. GreatestAge
  BY DEF TelemetryInit, GreatestAge
<1>8. IngestCalled /\ LossOnlyByPolicy
  BY DEF TelemetryInit, IngestCalled, LossOnlyByPolicy
<1>9. QED
  BY <1>5, <1>6, <1>7, <1>8 DEF TelemetryInv

LEMMA IngestStep ==
    ASSUME TelemetryInv, Ingest
    PROVE  TelemetryInv'
<1>1. /\ items = <<>> /\ DOMAIN outcome = {} /\ ingestReport = <<>>
      /\ outcome' = outcome /\ ingestReport' = ingestReport
  <2>1. items = <<>> /\ ingestReport = <<>>
    BY DEF Ingest, TelemetryInv, IngestCalled
  <2>2. outcome' = outcome /\ ingestReport' = ingestReport
    BY DEF Ingest
  <2>3. DOMAIN outcome \subseteq DOMAIN items
    BY DEF TelemetryInv, TelemetryTypeOK
  <2>4. DOMAIN items = {}
    BY <2>1
  <2>5. QED
    BY <2>1, <2>2, <2>3, <2>4
<1>2. items' \in Seq(Items) /\ Len(items') <= MaxItems
  <2>1. MaxItems \in Nat
    BY TelemetryAssumption DEF TelemetryAssumption
  <2>2. PICK m \in 0 .. MaxItems : items' \in [1 .. m -> Items]
    BY DEF Ingest, BoundedSeq, SeqOf
  <2>3. QED
    BY <2>1, <2>2
<1>3. pipeline' \in Pipelines /\ pipeline' # <<>>
  <2>1. pipeline' \in Pipelines
    BY DEF Ingest
  <2>2. "capacity_units" \in DOMAIN pipeline'
    BY <2>1, TelemetryAssumption DEF TelemetryAssumption
  <2>3. QED
    BY <2>1, <2>2
<1>4. Accepted = {} /\ Accepted' = {} /\ DOMAIN outcome \ Accepted = {}
  BY <1>1 DEF Accepted
<1>5. /\ acceptedUnits = Total(Sizes, {}) /\ droppedUnits = Total(Sizes, {})
      /\ tenantUnits = [t \in Sources |-> Total(Sizes, {})]
      /\ acceptedAges = {}
  BY <1>4 DEF TelemetryInv, TelemetryTypeOK, Size
<1>6. Total(Sizes, {}) = Total(Sizes', {})
  BY SumEmpty
<1>7. TelemetryTypeOK'
  BY <1>1, <1>2, <1>3, <1>4, <1>5, <1>6 DEF Ingest, TelemetryTypeOK, Size
<1>8. (WaitedFirst /\ StayingAccepted /\ LossOnlyByPolicy)'
  BY <1>1 DEF WaitedFirst, StayingAccepted, LossOnlyByPolicy
<1>9. IngestCalled'
  BY <1>1, <1>3 DEF IngestCalled
<1>10. GreatestAge'
  BY DEF Ingest, TelemetryInv, GreatestAge
<1>11. QED
  BY <1>7, <1>8, <1>9, <1>10 DEF TelemetryInv

\* The size of some items, and of one more.
LEMMA SizeAdds ==
    ASSUME TelemetryTypeOK, NEW S \in SUBSET DOMAIN items
    PROVE  /\ Size(S) \in Nat
           /\ \A i \in DOMAIN items \ S : Size(S \cup {i}) = Size(S) + items[i].size_units
<1>1. items \in Seq(Items) /\ DOMAIN items = 1 .. Len(items) /\ Len(items) \in Nat
  BY DEF TelemetryTypeOK
<1>2. IsFiniteSet(S)
  <2>1. IsFiniteSet(1 .. Len(items))
    BY <1>1, FS_Interval
  <2>2. QED
    BY <1>1, <2>1, FS_Subset
<1>3. \A i \in DOMAIN items : Sizes[i] \in Nat /\ Sizes[i] = items[i].size_units
  BY <1>1, TelemetryAssumption DEF Sizes, TelemetryAssumption, TelemetryItem
<1>4. Total(Sizes, S) \in Nat
  BY <1>2, <1>3, SumNumber
<1>5. ASSUME NEW i \in DOMAIN items \ S
      PROVE  Total(Sizes, S \cup {i}) = Total(Sizes, S) + Sizes[i]
  BY <1>2, <1>3, SumAdd
<1>6. QED
  BY <1>3, <1>4, <1>5 DEF Size

\* The item that is next is accepted if it fits behind all that were.
LEMMA DecideNextItem ==
    ASSUME TelemetryInv, NEW i \in Waiting, pipeline # <<>>
    PROVE  LET with == Accepted \cup {i}
           IN  Outcome(items[i]) = "accepted" <=>
                 /\ CardinalityReason(items[i]) = "none"
                 /\ Size({j \in with : items[j].tenant = items[i].tenant})
                        <= pipeline.per_tenant_units
                 /\ Size(with) <= pipeline.capacity_units
<1> DEFINE item == items[i]
           with == Accepted \cup {i}
           same == {j \in Accepted : items[j].tenant = item.tenant}
<1>1. /\ TelemetryTypeOK
      /\ i \in DOMAIN items /\ i \notin Accepted
      /\ Accepted \subseteq DOMAIN items
  BY DEF TelemetryInv, TelemetryTypeOK, Waiting, Accepted
<1>2. item \in Items /\ item.tenant \in Sources /\ item.size_units \in Nat
  BY <1>1, TelemetryAssumption
  DEF TelemetryTypeOK, Sources, TelemetryAssumption, TelemetryItem
<1>3. pipeline.capacity_units \in Nat /\ pipeline.per_tenant_units \in Nat
  BY <1>1, TelemetryAssumption DEF TelemetryTypeOK, TelemetryAssumption, TelemetryItem
<1>4. /\ acceptedUnits \in Nat
      /\ Size(with) = acceptedUnits + item.size_units
  BY <1>1, SizeAdds DEF TelemetryTypeOK
<1>5. /\ tenantUnits[item.tenant] = Size(same)
      /\ same \subseteq DOMAIN items /\ i \notin same
  BY <1>1, <1>2 DEF TelemetryTypeOK
<1>6. {j \in with : items[j].tenant = item.tenant} = same \cup {i}
  OBVIOUS
<1>7. /\ tenantUnits[item.tenant] \in Nat
      /\ Size({j \in with : items[j].tenant = item.tenant})
            = tenantUnits[item.tenant] + item.size_units
  BY <1>1, <1>5, <1>6, SizeAdds
<1>8. CardinalityReason(item) \in
        {"none", "forbidden_metric_label", "metric_label_value_too_long"}
  BY DEF CardinalityReason
<1> HIDE DEF same, with, item
<1>9. Outcome(item) = "accepted" <=>
        /\ CardinalityReason(item) = "none"
        /\ tenantUnits[item.tenant] + item.size_units <= pipeline.per_tenant_units
        /\ acceptedUnits + item.size_units <= pipeline.capacity_units
  BY <1>2, <1>3, <1>4, <1>7, <1>8 DEF Outcome
<1>10. QED
  BY <1>4, <1>7, <1>9 DEF with, item

LEMMA DecideItemStep ==
    ASSUME TelemetryInv, DecideItem
    PROVE  TelemetryInv'
<1>1. PICK i \in Waiting :
        /\ \A j \in Waiting \ {i} : Earlier(i, j)
        /\ LET item == items[i]
           IN  /\ outcome' = [j \in DOMAIN outcome \cup {i} |->
                        IF j = i THEN Outcome(item) ELSE outcome[j]]
               /\ tenantUnits' = [tenantUnits EXCEPT ![item.tenant] = @ + Charged(item)]
               /\ IF Outcome(item) = "accepted"
                  THEN /\ acceptedUnits' = acceptedUnits + item.size_units
                       /\ acceptedAges' = acceptedAges \cup {item.age_seconds}
                       /\ UNCHANGED droppedUnits
                  ELSE /\ droppedUnits' = droppedUnits + item.size_units
                       /\ UNCHANGED <<acceptedUnits, acceptedAges>>
        /\ UNCHANGED <<pipeline, items, ingestReport>>
  BY DEF DecideItem
<1> DEFINE item == items[i]
           ok == Outcome(item) = "accepted"
           kept == IF ok THEN Accepted \cup {i} ELSE Accepted
           lost == DOMAIN outcome \ Accepted
<1>2. /\ pipeline' = pipeline /\ items' = items /\ ingestReport' = ingestReport
      /\ Sizes' = Sizes
  BY <1>1 DEF Sizes
<1>3. /\ TelemetryTypeOK
      /\ i \in DOMAIN items /\ i \notin DOMAIN outcome /\ i \notin Accepted
      /\ Accepted \subseteq DOMAIN outcome
      /\ DOMAIN outcome \subseteq DOMAIN items
      /\ DOMAIN items \subseteq Nat
  BY <1>1 DEF TelemetryInv, TelemetryTypeOK, Waiting, Accepted
<1>4. pipeline # <<>> /\ ingestReport = <<>>
  BY <1>1, <1>3 DEF TelemetryInv, IngestCalled
<1>5. /\ DOMAIN outcome' = DOMAIN outcome \cup {i}
      /\ outcome'[i] = Outcome(item)
      /\ \A j \in DOMAIN outcome : outcome'[j] = outcome[j]
  BY <1>1, <1>3
<1>6. Accepted' = kept
  BY <1>3, <1>5 DEF Accepted
<1>7. Waiting' = Waiting \ {i}
  BY <1>2, <1>5 DEF Waiting
<1>8. /\ item \in Items /\ item.tenant \in Sources
      /\ item.size_units \in Nat /\ item.age_seconds \in Nat
      /\ \A j \in DOMAIN items : items[j].priority \in {"critical", "normal", "debug"}
  BY <1>3, TelemetryAssumption
  DEF TelemetryTypeOK, Sources, TelemetryAssumption, TelemetryItem
<1>9. WaitedFirst'
  <2> SUFFICES ASSUME NEW k \in DOMAIN outcome', NEW j \in Waiting'
               PROVE  Earlier(k, j)'
    BY DEF WaitedFirst
  <2>1. Earlier(k, j)
    BY <1>1, <1>5, <1>7 DEF TelemetryInv, WaitedFirst
  <2>2. QED
    BY <1>2, <2>1 DEF Earlier
<1>10. TelemetryTypeOK'
  <2>1. acceptedUnits' = Size(kept)
    <3>1. acceptedUnits = Size(Accepted) /\ acceptedUnits \in Nat
      BY <1>3, SizeAdds DEF TelemetryTypeOK
    <3>2. ok => Size(Accepted \cup {i}) = acceptedUnits + item.size_units
      BY <1>3, <3>1, SizeAdds
    <3>3. QED
      BY <1>1, <3>1, <3>2
  <2>2. droppedUnits' = Size((DOMAIN outcome \cup {i}) \ kept)
    <3>1. /\ droppedUnits = Size(lost)
          /\ Size(lost \cup {i}) = droppedUnits + item.size_units
      BY <1>3, SizeAdds DEF TelemetryTypeOK
    <3>2. (DOMAIN outcome \cup {i}) \ kept = IF ok THEN lost ELSE lost \cup {i}
      BY <1>3
    <3>3. QED
      BY <1>1, <3>1, <3>2
  <2>3. ASSUME NEW t \in Sources
        PROVE  tenantUnits'[t] = Size({j \in kept : items[j].tenant = t})
    <3> DEFINE theirs == {j \in Accepted : items[j].tenant = t}
    <3>1. /\ tenantUnits[t] = Size(theirs) /\ tenantUnits[t] \in Nat
          /\ Size(theirs \cup {i}) = tenantUnits[t] + item.size_units
      BY <1>3, SizeAdds DEF TelemetryTypeOK
    <3>2. {j \in kept : items[j].tenant = t} =
            IF ok /\ item.tenant = t THEN theirs \cup {i} ELSE theirs
      BY <1>3
    <3>3. tenantUnits'[t] =
            IF ok /\ item.tenant = t THEN tenantUnits[t] + item.size_units ELSE tenantUnits[t]
      <4>1. tenantUnits = [s \in Sources |-> tenantUnits[s]]
        BY <1>3 DEF TelemetryTypeOK
      <4>2. tenantUnits'[t] = IF t = item.tenant THEN tenantUnits[t] + Charged(item)
                              ELSE tenantUnits[t]
        BY <1>1, <1>8, <4>1
      <4>3. Charged(item) = IF ok THEN item.size_units ELSE 0
        BY DEF Charged
      <4>4. QED
        BY <3>1, <4>2, <4>3
    <3>4. QED
      BY <3>1, <3>2, <3>3
  <2>4. tenantUnits' = [t \in Sources |-> Size({j \in kept : items[j].tenant = t})]
    <3>1. tenantUnits' = [t \in Sources |-> tenantUnits'[t]]
      BY <1>1, <1>3 DEF TelemetryTypeOK
    <3>2. QED
      BY <2>3, <3>1
  <2>5. acceptedAges' = {items[j].age_seconds : j \in kept}
    <3>1. acceptedAges = {items[j].age_seconds : j \in Accepted}
      BY <1>3 DEF TelemetryTypeOK
    <3>2. QED
      BY <1>1, <3>1
  <2> HIDE DEF kept
  <2>6. QED
    BY <1>2, <1>3, <1>5, <1>6, <2>1, <2>2, <2>4, <2>5 DEF TelemetryTypeOK, Size
<1>11. ASSUME NEW k \in DOMAIN outcome
       PROVE  k \in Accepted' <=> MayStay(k)'
  <2>1. Earlier(k, i) /\ k # i
    BY <1>1, <1>3 DEF TelemetryInv, WaitedFirst
  <2>2. Before(k)' = Before(k)
    <3>1. ~(\/ items[i].priority = "critical" /\ items[k].priority # "critical"
            \/ items[i].priority = "normal" /\ items[k].priority = "debug"
            \/ items[i].priority = items[k].priority /\ i < k)
      BY <1>3, <1>8, <2>1 DEF Earlier, Rank
    <3>2. QED
      BY <1>2, <1>6, <3>1 DEF Before
  <2>3. MayStay(k)' <=> MayStay(k)
    BY <1>2, <2>2 DEF MayStay, Size
  <2>4. k \in Accepted' <=> k \in Accepted
    BY <1>6, <2>1
  <2>5. QED
    BY <2>3, <2>4 DEF TelemetryInv, StayingAccepted
<1>12. i \in Accepted' <=> MayStay(i)'
  <2>1. Before(i)' = Accepted
    <3>1. ASSUME NEW j \in Accepted
          PROVE  \/ items[j].priority = "critical" /\ items[i].priority # "critical"
                 \/ items[j].priority = "normal" /\ items[i].priority = "debug"
                 \/ items[j].priority = items[i].priority /\ j < i
      <4>1. Earlier(j, i)
        BY <1>1, <1>3 DEF TelemetryInv, WaitedFirst
      <4>2. QED
        BY <1>3, <1>8, <4>1 DEF Earlier, Rank
    <3>2. QED
      BY <1>2, <1>3, <1>6, <3>1 DEF Before
  <2>2. ok <=> LET with == Accepted \cup {i}
               IN  /\ CardinalityReason(items[i]) = "none"
                   /\ Size({j \in with : items[j].tenant = items[i].tenant})
                        <= pipeline.per_tenant_units
                   /\ Size(with) <= pipeline.capacity_units
    BY <1>4, DecideNextItem
  <2>3. MayStay(i)' <=> ok
    BY <1>2, <2>1, <2>2 DEF MayStay, Size
  <2>4. QED
    BY <1>3, <1>6, <2>3
<1>13. StayingAccepted'
  BY <1>5, <1>11, <1>12 DEF StayingAccepted
<1>14. GreatestAge'
  <2>1. acceptedAges' \in {acceptedAges, acceptedAges \cup {item.age_seconds}}
    BY <1>1
  <2>2. PICK m \in acceptedAges \cup {0} : \A a \in acceptedAges \cup {0} : m >= a
    BY DEF TelemetryInv, GreatestAge
  <2>3. acceptedAges \subseteq Nat
    BY <1>3, TelemetryAssumption
    DEF TelemetryTypeOK, TelemetryAssumption, TelemetryItem
  <2>4. CASE m >= item.age_seconds
    BY <2>1, <2>2, <2>4 DEF GreatestAge
  <2>5. CASE item.age_seconds > m
    <3>1. \A a \in acceptedAges \cup {0, item.age_seconds} : item.age_seconds >= a
      BY <1>8, <2>2, <2>3, <2>5
    <3>2. QED
      BY <2>1, <2>2, <3>1 DEF GreatestAge
  <2>6. m \in Nat
    BY <2>2, <2>3
  <2>7. QED
    BY <1>8, <2>4, <2>5, <2>6
<1>15. IngestCalled' /\ LossOnlyByPolicy'
  BY <1>2, <1>4 DEF IngestCalled, LossOnlyByPolicy
<1>16. QED
  BY <1>9, <1>10, <1>13, <1>14, <1>15 DEF TelemetryInv

\* Without new items or decisions nothing changes but the report.
LEMMA TelemetryFrame ==
    ASSUME TelemetryInv,
           UNCHANGED <<pipeline, items, acceptedUnits, droppedUnits, tenantUnits,
                       acceptedAges, outcome>>
    PROVE  /\ Accepted' = Accepted /\ Waiting' = Waiting
           /\ Size(Accepted)' = Size(Accepted)
           /\ Size(DOMAIN items \ Accepted)' = Size(DOMAIN items \ Accepted)
           /\ TelemetryTypeOK' /\ WaitedFirst' /\ StayingAccepted' /\ GreatestAge'
<1>1. Accepted' = Accepted /\ Waiting' = Waiting /\ Sizes' = Sizes
  BY DEF Accepted, Waiting, Sizes
<1>2. /\ Size(Accepted)' = Size(Accepted)
      /\ Size(DOMAIN items \ Accepted)' = Size(DOMAIN items \ Accepted)
  BY <1>1 DEF Size
<1>3. TelemetryTypeOK'
  BY <1>1 DEF TelemetryInv, TelemetryTypeOK, Size
<1>4. WaitedFirst'
  BY <1>1 DEF TelemetryInv, WaitedFirst, Earlier
<1>5. \A i : MayStay(i)' <=> MayStay(i)
  BY <1>1 DEF MayStay, Before, Size
<1>6. StayingAccepted' /\ GreatestAge'
  BY <1>1, <1>5 DEF TelemetryInv, StayingAccepted, GreatestAge
<1>7. QED
  BY <1>1, <1>2, <1>3, <1>4, <1>6

LEMMA ReportIngestStep ==
    ASSUME TelemetryInv, ReportIngest
    PROVE  TelemetryInv'
<1>1. /\ UNCHANGED <<pipeline, items, acceptedUnits, droppedUnits, tenantUnits,
                     acceptedAges, outcome>>
      /\ pipeline # <<>> /\ Waiting = {}
      /\ ingestReport'.accepted_units = acceptedUnits
      /\ ingestReport'.dropped_units = droppedUnits
      /\ ingestReport'.max_accepted_age_seconds = Max(acceptedAges \cup {0})
  BY DEF ReportIngest
<1>2. DOMAIN outcome = DOMAIN items
  BY <1>1 DEF TelemetryInv, TelemetryTypeOK, Waiting
<1>3. acceptedUnits = Size(Accepted) /\ droppedUnits = Size(DOMAIN items \ Accepted)
  BY <1>2 DEF TelemetryInv, TelemetryTypeOK
<1>4. /\ Max(acceptedAges \cup {0}) \in acceptedAges \cup {0}
      /\ \A a \in acceptedAges \cup {0} : Max(acceptedAges \cup {0}) >= a
  BY DEF TelemetryInv, GreatestAge, Max
<1>5. /\ acceptedAges \subseteq Nat
      /\ \A i \in Accepted : items[i].age_seconds \in acceptedAges
  BY <1>2, TelemetryAssumption
  DEF TelemetryInv, TelemetryTypeOK, Accepted, TelemetryAssumption, TelemetryItem
<1>6. Max(acceptedAges \cup {0}) \in Nat
  <2>1. acceptedAges \cup {0} \subseteq Nat
    BY <1>5
  <2>2. QED
    BY <1>4, <2>1
<1>7. \A i \in Accepted : items[i].age_seconds <= Max(acceptedAges \cup {0})
  <2> DEFINE greatest == Max(acceptedAges \cup {0})
  <2> HIDE DEF greatest
  <2>1. greatest \in Nat /\ \A a \in acceptedAges : greatest >= a
    BY <1>4, <1>6 DEF greatest
  <2>2. \A i \in Accepted : items[i].age_seconds <= greatest
    BY <1>5, <2>1
  <2>3. QED
    BY <2>2 DEF greatest
<1>8. \A i \in DOMAIN items : i \in Accepted' <=> MayStay(i)'
  BY <1>1, <1>2, TelemetryFrame DEF StayingAccepted
<1> DEFINE stable == [i \in DOMAIN items |-> OutcomeOf(items[i].item_id)]
<1>9. ASSUME DistinctItemIds
       PROVE  /\ \A i \in DOMAIN items : ingestReport'.decisions[i] = outcome[i]
              /\ ingestReport'.accepted_items = Cardinality(Accepted)
              /\ ingestReport'.dropped_items = Len(items) - Cardinality(Accepted)
  <2>1. ASSUME NEW i \in DOMAIN items
        PROVE  stable[i] = outcome[i]
    <3>1. {j \in DOMAIN outcome : items[j].item_id = items[i].item_id} = {i}
      BY <1>2, <1>9, <2>1 DEF DistinctItemIds, IsInjective
    <3>2. OutcomeOf(items[i].item_id) = outcome[i]
      BY <3>1 DEF OutcomeOf
    <3>3. QED
      BY <2>1, <3>2
  <2>2. {i \in DOMAIN items : stable[i] = "accepted"} = Accepted
    BY <1>2, <2>1 DEF Accepted
  <2>3. LET n == Cardinality({i \in DOMAIN items : stable[i] = "accepted"})
        IN  /\ ingestReport'.decisions = stable
            /\ ingestReport'.accepted_items = n
            /\ ingestReport'.dropped_items = Len(items) - n
    BY DEF ReportIngest
  <2> HIDE DEF stable
  <2>4. QED
    BY <2>1, <2>2, <2>3
<1> HIDE DEF stable
<1>10. (DistinctItemIds' <=> DistinctItemIds) /\ Cardinality(Accepted)' = Cardinality(Accepted)
  BY <1>1, TelemetryFrame DEF DistinctItemIds
<1>11. LossOnlyByPolicy'
  BY <1>1, <1>3, <1>7, <1>8, <1>9, <1>10, TelemetryFrame DEF LossOnlyByPolicy
<1>12. IngestCalled'
  BY <1>1, TelemetryFrame DEF IngestCalled
<1>13. QED
  BY <1>1, <1>11, <1>12, TelemetryFrame DEF TelemetryInv

LEMMA TelemetryStutter ==
    ASSUME TelemetryInv, UNCHANGED telemetryVars
    PROVE  TelemetryInv'
<1>1. UNCHANGED <<pipeline, items, acceptedUnits, droppedUnits, tenantUnits,
                  acceptedAges, outcome, ingestReport>>
  BY DEF telemetryVars
<1>2. \A i \in DOMAIN items : MayStay(i)' <=> MayStay(i)
  <2>1. Accepted' = Accepted /\ Sizes' = Sizes
    BY <1>1 DEF Accepted, Sizes
  <2>2. QED
    BY <1>1, <2>1 DEF MayStay, Before, Size
<1>3. LossOnlyByPolicy'
  <2>1. (DistinctItemIds' <=> DistinctItemIds) /\ Cardinality(Accepted)' = Cardinality(Accepted)
    BY <1>1, TelemetryFrame DEF DistinctItemIds
  <2>2. QED
    BY <1>1, <1>2, <2>1, TelemetryFrame DEF TelemetryInv, LossOnlyByPolicy
<1>4. IngestCalled'
  BY <1>1, TelemetryFrame DEF TelemetryInv, IngestCalled
<1>5. QED
  BY <1>1, <1>3, <1>4, TelemetryFrame DEF TelemetryInv

LEMMA TelemetryStep ==
    ASSUME TelemetryInv, TelemetryNext \/ UNCHANGED telemetryVars
    PROVE  TelemetryInv'
BY IngestStep, DecideItemStep, ReportIngestStep, TelemetryStutter DEF TelemetryNext

-----------------------------------------------------------------------------
(* Autoscaling *)

\* Division rounds down.
LEMMA Division ==
    ASSUME NEW a \in Nat, NEW b \in Nat \ {0}
    PROVE  /\ a \div b \in Nat
           /\ b * (a \div b) <= a
           /\ a < b * (a \div b) + b
BY Z3

\* Products of numbers: closed, and growing with either factor.
LEMMA Products ==
    /\ \A a, b \in Nat : a * b \in Nat
    /\ \A a, b, c \in Nat : a <= b => a * c <= b * c
BY Z3

\* The ceiling of a fraction is the least number of parts that hold the whole.
LEMMA CeilingLeast ==
    ASSUME NEW a \in Nat, NEW b \in Nat \ {0}
    PROVE  /\ Ceiling(a, b) \in 0 .. a
           /\ Ceiling(a, b) * b >= a
           /\ \A n \in Nat : n * b >= a => n >= Ceiling(a, b)
<1> DEFINE c == Ceiling(a, b)
<1>1. c \in Nat /\ b * c <= a + b - 1 /\ a + b - 1 < b * c + b
  BY Division DEF Ceiling
<1>2. c * b >= a
  BY <1>1
<1>3. ASSUME NEW n \in Nat, n * b >= a PROVE n >= c
  <2> SUFFICES ASSUME n + 1 <= c PROVE FALSE
    BY <1>1
  <2>1. (n + 1) * b <= c * b
    BY <1>1, Products
  <2>2. QED
    BY <1>1, <1>3, <2>1
<1>4. a * b >= a
  BY Z3
<1>5. QED
  BY <1>1, <1>2, <1>3, <1>4

CapacityInv == CapacityTypeOK /\ RecoveryIsEarliest

\* The replicas that calculate_hpa may start from are numbers.
LEMMA RawTyped ==
    ASSUME NEW h \in HPAInputs, NEW choice \in RawDesired(h)
    PROVE  choice[1] \in Nat
<1>1. /\ h.current_replicas \in Nat /\ h.average_usage \in Nat
      /\ h.average_request \in Nat \ {0} /\ h.target_percent \in Nat \ {0}
  BY CapacityAssumption DEF CapacityAssumption
<1>2. Usage(h) \in Nat
  BY <1>1 DEF Usage
<1>3. Target(h) \in Nat \ {0}
  BY <1>1, Z3 DEF Target
<1>4. h.current_replicas * Usage(h) \in Nat
  BY <1>1, <1>2, Products
<1>5. Ceiling(h.current_replicas * Usage(h), Target(h)) \in Nat
  BY <1>3, <1>4, CeilingLeast
<1>6. RatioReplicas(h) \subseteq Nat
  BY <1>5 DEF RatioReplicas
<1>7. QED
  BY <1>1, <1>6 DEF RawDesired

LEMMA CalculateHPAStep ==
    ASSUME CapacityInv, NEW h \in HPAInputs, CalculateHPA(h)
    PROVE  CapacityInv'
<1>1. PICK choice \in RawDesired(h) :
        hpa' = [raw_desired_replicas |-> choice[1],
                desired_replicas |->
                    IF RateLimited(h, choice[1])
                    THEN h.current_replicas + h.max_scale_up_replicas
                    ELSE Bounded(h, choice[1]),
                scaling_limited |-> Bounded(h, choice[1]) # choice[1]
                                    \/ RateLimited(h, choice[1]),
                reason |->
                    IF choice[1] > h.max_replicas THEN "max-replicas-limited"
                    ELSE IF choice[1] < h.min_replicas THEN "min-replicas-limited"
                    ELSE IF RateLimited(h, choice[1]) THEN "scale-up-rate-limited"
                    ELSE choice[2]]
  BY DEF CalculateHPA
<1> DEFINE raw == choice[1]
           limited == RateLimited(h, raw)
           bounded == Bounded(h, raw)
<1>2. /\ hpaInput' = h /\ capacityInput' = capacityInput /\ capacity' = capacity
      /\ hpa'.raw_desired_replicas = raw
      /\ hpa'.desired_replicas = IF limited THEN h.current_replicas + h.max_scale_up_replicas
                                 ELSE bounded
      /\ hpa'.scaling_limited = (bounded # raw \/ limited)
  BY <1>1 DEF CalculateHPA
<1>3. /\ h.current_replicas \in Nat \ {0} /\ h.min_replicas \in Nat \ {0}
      /\ h.max_replicas \in Nat /\ h.max_replicas >= h.min_replicas
      /\ h.max_scale_up_replicas \in Nat \cup {NoLimit}
  BY CapacityAssumption DEF CapacityAssumption
<1>4. raw \in Nat
  BY RawTyped
<1>5. /\ bounded \in Nat \ {0}
      /\ bounded >= h.min_replicas /\ bounded <= h.max_replicas
  <2>1. AtMost(raw, h.max_replicas) = IF raw <= h.max_replicas THEN raw ELSE h.max_replicas
    BY <1>3, <1>4, MinOfTwo DEF AtMost
  <2>2. AtMost(raw, h.max_replicas) \in Int /\ AtMost(raw, h.max_replicas) <= h.max_replicas
    BY <1>3, <1>4, <2>1
  <2>3. bounded = IF h.min_replicas >= AtMost(raw, h.max_replicas)
                  THEN h.min_replicas ELSE AtMost(raw, h.max_replicas)
    BY <1>3, <2>2, MaxOfTwo DEF Bounded, AtLeast
  <2>4. QED
    BY <1>3, <2>2, <2>3
<1>6. limited <=> /\ h.max_scale_up_replicas # NoLimit
                  /\ bounded > h.current_replicas + h.max_scale_up_replicas
  BY DEF RateLimited
<1> HIDE DEF raw, limited, bounded
<1>7. /\ hpa'.desired_replicas \in Nat \ {0}
      /\ hpa'.desired_replicas <= h.max_replicas
      /\ hpa'.desired_replicas < h.min_replicas =>
            hpa'.desired_replicas = h.current_replicas + h.max_scale_up_replicas
      /\ h.max_scale_up_replicas # NoLimit =>
            hpa'.desired_replicas <= h.current_replicas + h.max_scale_up_replicas
  BY <1>2, <1>3, <1>5, <1>6
<1>8. hpa'.scaling_limited \in BOOLEAN
      /\ (hpa'.desired_replicas # raw => hpa'.scaling_limited)
  BY <1>2
<1>9. CapacityTypeOK'
  BY <1>2, <1>4, <1>7, <1>8 DEF CapacityInv, CapacityTypeOK
<1>10. \A t : Served(t)' <=> Served(t)
  BY <1>2 DEF Served, PodsReady
<1>11. RecoveryIsEarliest'
  BY <1>2, <1>7, <1>8, <1>10 DEF CapacityInv, RecoveryIsEarliest
<1>12. QED
  BY <1>9, <1>11 DEF CapacityInv

\* The pods of an input and a number of desired replicas, wave by wave.
LEMMA WavesTyped ==
    ASSUME NEW c \in CapacityInputs, NEW desired \in Nat
    PROVE  /\ Immediate(c, desired) \in Nat /\ NodeBacked(c, desired) \in Nat
           /\ FinalPods(c, desired) =
                c.current_ready_replicas + Immediate(c, desired) + NodeBacked(c, desired)
<1>1. c.current_ready_replicas \in Nat /\ c.warm_pod_slots \in Nat
  BY CapacityAssumption DEF CapacityAssumption
<1>2. Additional(c, desired) \in Nat
  BY <1>1, MaxOfTwo DEF Additional, AtLeast
<1>3. /\ Immediate(c, desired) \in Nat
      /\ Immediate(c, desired) <= Additional(c, desired)
  BY <1>1, <1>2, MinOfTwo DEF Immediate, AtMost
<1>4. QED
  BY <1>1, <1>2, <1>3 DEF NodeBacked, FinalPods

\* The demand is met by enough pods behind a dependency that keeps up.
LEMMA EffectiveMeets ==
    ASSUME NEW c \in CapacityInputs, NEW pods \in Nat
    PROVE  Effective(c, pods) >= c.demand_rps <=>
             /\ pods * c.safe_rps_per_pod >= c.demand_rps
             /\ c.dependency_capacity_rps # NoLimit =>
                    c.dependency_capacity_rps >= c.demand_rps
<1>1. /\ c.demand_rps \in Nat /\ c.safe_rps_per_pod \in Nat
      /\ c.dependency_capacity_rps \in Nat \cup {NoLimit}
  BY CapacityAssumption DEF CapacityAssumption
<1>2. pods * c.safe_rps_per_pod \in Nat
  BY <1>1, Products
<1>3. CASE c.dependency_capacity_rps = NoLimit
  BY <1>3 DEF Effective
<1>4. CASE c.dependency_capacity_rps # NoLimit
  <2>1. Effective(c, pods) =
          IF pods * c.safe_rps_per_pod <= c.dependency_capacity_rps
          THEN pods * c.safe_rps_per_pod ELSE c.dependency_capacity_rps
    BY <1>1, <1>2, <1>4, MinOfTwo DEF Effective, AtMost
  <2>2. QED
    BY <1>1, <1>2, <1>4, <2>1
<1>5. QED
  BY <1>3, <1>4

\* The two halves of RecoveryIsEarliest, the first as a fact of an input and a result.
ServedBy(c, result, t) ==
    LET pods == c.current_ready_replicas
                  + (IF t >= WarmReady(c) THEN result.immediate_replicas ELSE 0)
                  + (IF t >= NodeWaveReady(c) THEN result.node_backed_replicas ELSE 0)
    IN  /\ pods * c.safe_rps_per_pod >= c.demand_rps
        /\ c.dependency_capacity_rps # NoLimit => c.dependency_capacity_rps >= c.demand_rps

EarliestBy(c, result) ==
    LET times == 0..NodeWaveReady(c)
        verdict == result.outcome
    IN  /\ verdict.recovered =>
                /\ ServedBy(c, result, verdict.seconds)
                /\ \A t \in times : ServedBy(c, result, t) => t >= verdict.seconds
        /\ ~verdict.recovered => \A t \in times : ~ServedBy(c, result, t)
        /\ verdict.bottleneck # "capacity-not-realized"
        /\ verdict.bottleneck = "downstream-dependency-capacity" <=>
                c.dependency_capacity_rps \in 0..(c.demand_rps - 1) /\ ~verdict.recovered
        /\ result.nodes_requested =
                Min({n \in 0..result.node_backed_replicas :
                        n * c.pods_per_new_node >= result.node_backed_replicas})

HPAWithin ==
    hpa # <<>> =>
        /\ hpa.desired_replicas <= hpaInput.max_replicas
        /\ hpa.desired_replicas < hpaInput.min_replicas =>
                hpa.desired_replicas = hpaInput.current_replicas + hpaInput.max_scale_up_replicas
        /\ hpaInput.max_scale_up_replicas # NoLimit =>
                hpa.desired_replicas <= hpaInput.current_replicas + hpaInput.max_scale_up_replicas
        /\ hpa.desired_replicas # hpa.raw_desired_replicas => hpa.scaling_limited

LEMMA EarliestByAgrees ==
    RecoveryIsEarliest <=> /\ capacity # <<>> => EarliestBy(capacityInput, capacity)
                           /\ HPAWithin
BY DEF RecoveryIsEarliest, EarliestBy, HPAWithin, Served, ServedBy, PodsReady

LEMMA RealizeStep ==
    ASSUME CapacityInv, NEW c \in CapacityInputs, Realize(c)
    PROVE  CapacityInv'
<1> DEFINE desired == hpa.desired_replicas
           ready == c.current_ready_replicas
           warm == Immediate(c, desired)
           backed == NodeBacked(c, desired)
           verdict == Outcomes(c, desired)
           Meets(pods) == Effective(c, pods) >= c.demand_rps
<1>1. /\ hpa # <<>> /\ hpaInput' = hpaInput /\ hpa' = hpa /\ capacityInput' = c
      /\ capacity' = [immediate_replicas |-> warm, node_backed_replicas |-> backed,
                      nodes_requested |-> Ceiling(backed, c.pods_per_new_node),
                      outcome |-> verdict]
  BY DEF Realize
<1>2. /\ capacity'.immediate_replicas = warm
      /\ capacity'.node_backed_replicas = backed
      /\ capacity'.nodes_requested = Ceiling(backed, c.pods_per_new_node)
      /\ capacity'.outcome = verdict
  BY <1>1
<1>3. desired \in Nat
  BY <1>1 DEF CapacityInv, CapacityTypeOK
<1>4. /\ c.demand_rps \in Nat /\ ready \in Nat
      /\ c.safe_rps_per_pod \in Nat \ {0} /\ c.pods_per_new_node \in Nat \ {0}
      /\ c.control_seconds \in Nat /\ c.node_seconds \in Nat /\ c.startup_seconds \in Nat
      /\ c.dependency_capacity_rps \in Nat \cup {NoLimit}
  BY CapacityAssumption DEF CapacityAssumption
<1>5. /\ warm \in Nat /\ backed \in Nat
      /\ FinalPods(c, desired) = ready + warm + backed
  BY <1>3, WavesTyped
<1>6. /\ WarmReady(c) \in Nat /\ NodeWaveReady(c) \in Nat
      /\ WarmReady(c) <= NodeWaveReady(c)
  BY <1>4 DEF WarmReady, NodeWaveReady
<1>7. \A t : PodsReady(t)' = ready + (IF t >= WarmReady(c) THEN warm ELSE 0)
                                   + (IF t >= NodeWaveReady(c) THEN backed ELSE 0)
  BY <1>1, <1>2 DEF PodsReady
<1>8. \A t \in Nat : PodsReady(t)' \in Nat
  BY <1>4, <1>5, <1>7
<1>9. \A t \in Nat : Served(t)' <=> Meets(PodsReady(t)')
  BY <1>1, <1>8, EffectiveMeets DEF Served
<1>10. \A m, n \in Nat : m <= n /\ Meets(m) => Meets(n)
  <2> SUFFICES ASSUME NEW m \in Nat, NEW n \in Nat, m <= n, Meets(m) PROVE Meets(n)
    OBVIOUS
  <2>1. m * c.safe_rps_per_pod <= n * c.safe_rps_per_pod
    BY <1>4, Products
  <2>2. m * c.safe_rps_per_pod \in Nat /\ n * c.safe_rps_per_pod \in Nat
    BY <1>4, Products
  <2>3. QED
    BY <1>4, <2>1, <2>2, EffectiveMeets
<1>11. /\ WarmCapacity(c, desired) >= c.demand_rps <=> Meets(ready + warm)
       /\ Effective(c, FinalPods(c, desired)) >= c.demand_rps <=> Meets(ready + warm + backed)
  BY <1>5 DEF WarmCapacity
<1>12. verdict =
        IF Meets(ready) THEN Recovery(0, "none-current-capacity-sufficient")
        ELSE IF warm > 0 /\ Meets(ready + warm)
        THEN Recovery(WarmReady(c), "warm-pod-startup-and-target-health")
        ELSE IF backed > 0 /\ Meets(ready + warm + backed)
        THEN Recovery(NodeWaveReady(c), "node-provisioning-and-pod-startup")
        ELSE IF c.dependency_capacity_rps \in 0..(c.demand_rps - 1)
        THEN NoRecovery("downstream-dependency-capacity")
        ELSE IF (ready + warm + backed) * c.safe_rps_per_pod < c.demand_rps
        THEN NoRecovery("desired-replica-capacity-insufficient")
        ELSE NoRecovery("capacity-not-realized")
  BY <1>5, <1>11 DEF Outcomes
<1>13. Meets(ready + warm + backed) <=>
         /\ ~((ready + warm + backed) * c.safe_rps_per_pod < c.demand_rps)
         /\ c.dependency_capacity_rps \notin 0..(c.demand_rps - 1)
  <2>1. ready + warm + backed \in Nat
    BY <1>4, <1>5
  <2>2. (ready + warm + backed) * c.safe_rps_per_pod \in Nat
    BY <1>4, <2>1, Products
  <2>3. (c.dependency_capacity_rps # NoLimit => c.dependency_capacity_rps >= c.demand_rps)
          <=> c.dependency_capacity_rps \notin 0..(c.demand_rps - 1)
    BY <1>4 DEF NoLimit
  <2>4. QED
    BY <1>4, <2>1, <2>2, <2>3, EffectiveMeets
<1> HIDE DEF desired, ready, warm, backed, verdict, Meets
<1>14. /\ ready <= ready + warm /\ ready + warm <= ready + warm + backed
       /\ ready + warm \in Nat /\ ready + warm + backed \in Nat
       /\ warm > 0 \/ ready + warm = ready
       /\ backed > 0 \/ ready + warm + backed = ready + warm
  BY <1>4, <1>5
<1>15. \A t \in Nat :
         /\ t < WarmReady(c) => PodsReady(t)' = ready
         /\ t < NodeWaveReady(c) => PodsReady(t)' \in {ready, ready + warm}
         /\ PodsReady(t)' \in {ready, ready + warm, ready + backed, ready + warm + backed}
         /\ t >= WarmReady(c) => PodsReady(t)' >= ready + warm
         /\ t >= NodeWaveReady(c) => PodsReady(t)' = ready + warm + backed
         /\ ready <= PodsReady(t)' /\ PodsReady(t)' <= ready + warm + backed
  BY <1>4, <1>5, <1>6, <1>7
<1>16. verdict.recovered => /\ verdict.seconds \in Nat
                            /\ \A t \in Nat : /\ t = verdict.seconds => Served(t)'
                                              /\ Served(t)' => t >= verdict.seconds
  <2>1. CASE Meets(ready)
    <3>1. verdict.seconds = 0
      BY <1>12, <2>1 DEF Recovery
    <3>2. Served(0)'
      BY <1>8, <1>9, <1>10, <1>15, <1>4, <2>1
    <3>3. QED
      BY <3>1, <3>2
  <2>2. CASE ~Meets(ready) /\ warm > 0 /\ Meets(ready + warm)
    <3>1. verdict.seconds = WarmReady(c)
      BY <1>12, <2>2 DEF Recovery
    <3>2. \A t \in Nat : t = WarmReady(c) => Served(t)'
      <4> SUFFICES ASSUME NEW t \in Nat, t = WarmReady(c) PROVE Served(t)'
        OBVIOUS
      <4>1. PodsReady(t)' >= ready + warm
        BY <1>6, <1>15
      <4>2. Meets(PodsReady(t)')
        BY <1>6, <1>8, <1>10, <1>14, <2>2, <4>1
      <4>3. QED
        BY <1>6, <1>9, <4>2
    <3>3. \A t \in Nat : Served(t)' => ~(t < WarmReady(c))
      BY <1>9, <1>15, <2>2
    <3>4. QED
      BY <1>6, <3>1, <3>2, <3>3
  <2>3. CASE /\ ~Meets(ready) /\ ~(warm > 0 /\ Meets(ready + warm))
             /\ backed > 0 /\ Meets(ready + warm + backed)
    <3>1. verdict.seconds = NodeWaveReady(c)
      BY <1>12, <2>3 DEF Recovery
    <3>2. \A t \in Nat : t = NodeWaveReady(c) => Served(t)'
      BY <1>6, <1>9, <1>15, <2>3
    <3>3. ~Meets(ready + warm)
      BY <1>14, <2>3
    <3>4. \A t \in Nat : Served(t)' => ~(t < NodeWaveReady(c))
      BY <1>9, <1>15, <2>3, <3>3
    <3>5. QED
      BY <1>6, <3>1, <3>2, <3>4
  <2>4. CASE /\ ~Meets(ready) /\ ~(warm > 0 /\ Meets(ready + warm))
             /\ ~(backed > 0 /\ Meets(ready + warm + backed))
    BY <1>12, <2>4 DEF NoRecovery
  <2>5. QED
    BY <2>1, <2>2, <2>3, <2>4
<1>17. ~verdict.recovered => ~Meets(ready + warm + backed)
  BY <1>12, <1>14 DEF Recovery
<1>18. ~verdict.recovered => \A t \in Nat : ~Served(t)'
  BY <1>8, <1>9, <1>10, <1>14, <1>15, <1>17
<1>19. verdict.bottleneck # "capacity-not-realized"
  BY <1>12, <1>13, <1>14 DEF Recovery, NoRecovery
<1>20. verdict.bottleneck = "downstream-dependency-capacity" <=>
         c.dependency_capacity_rps \in 0..(c.demand_rps - 1) /\ ~verdict.recovered
  BY <1>12 DEF Recovery, NoRecovery
<1>21. Ceiling(backed, c.pods_per_new_node) =
         Min({n \in 0..backed : n * c.pods_per_new_node >= backed})
  <2> DEFINE enough == {n \in 0..backed : n * c.pods_per_new_node >= backed}
             least == Ceiling(backed, c.pods_per_new_node)
  <2>1. least \in enough /\ \A n \in enough : least <= n
    <3>1. /\ least \in 0..backed /\ least * c.pods_per_new_node >= backed
          /\ \A n \in Nat : n * c.pods_per_new_node >= backed => n >= least
      BY <1>4, <1>5, CeilingLeast
    <3> HIDE DEF least
    <3>2. QED
      BY <1>5, <3>1
  <2>2. \A x \in enough : (\A n \in enough : x <= n) => x = least
    BY <2>1
  <2> HIDE DEF enough, least
  <2>3. Min(enough) = least
    BY <2>1, <2>2 DEF Min
  <2>4. QED
    BY <2>3 DEF enough, least
<1>22. Ceiling(backed, c.pods_per_new_node) \in Nat
  BY <1>4, <1>5, CeilingLeast
<1>23. CapacityTypeOK'
  BY <1>1, <1>2, <1>5, <1>22 DEF CapacityInv, CapacityTypeOK
<1>24. RecoveryIsEarliest'
  <2>1. 0..NodeWaveReady(c) \subseteq Nat
    BY <1>6
  <2>2. \A t \in Nat : ServedBy(c, capacity', t) <=> Served(t)'
    BY <1>1 DEF ServedBy, Served, PodsReady
  <2>3. verdict.recovered => /\ ServedBy(c, capacity', verdict.seconds)
                             /\ \A t \in Nat : ServedBy(c, capacity', t) => t >= verdict.seconds
    BY <1>16, <2>2
  <2>4. ~verdict.recovered => \A t \in Nat : ~ServedBy(c, capacity', t)
    BY <1>18, <2>2
  <2>5. EarliestBy(c, capacity')
    BY <1>2, <1>19, <1>20, <1>21, <2>1, <2>3, <2>4 DEF EarliestBy
  <2>6. HPAWithin'
    BY <1>1, EarliestByAgrees DEF CapacityInv, HPAWithin
  <2>7. RecoveryIsEarliest' <=> /\ capacity' # <<>> => EarliestBy(capacityInput', capacity')
                                /\ HPAWithin'
    BY DEF RecoveryIsEarliest, EarliestBy, HPAWithin, Served, ServedBy, PodsReady
  <2>8. QED
    BY <1>1, <2>5, <2>6, <2>7
<1>25. QED
  BY <1>23, <1>24 DEF CapacityInv

LEMMA CapacityStep ==
    ASSUME CapacityInv, CapacityNext \/ UNCHANGED capacityVars
    PROVE  CapacityInv'
<1>1. CASE UNCHANGED capacityVars
  <2>1. \A t : Served(t)' <=> Served(t)
    BY <1>1 DEF capacityVars, Served, PodsReady
  <2>2. QED
    BY <1>1, <2>1 DEF capacityVars, CapacityInv, CapacityTypeOK, RecoveryIsEarliest
<1>2. QED
  BY <1>1, CalculateHPAStep, RealizeStep DEF CapacityNext

LEMMA CapacityInitInv == CapacityInit => CapacityInv
BY DEF CapacityInit, CapacityInv, CapacityTypeOK, RecoveryIsEarliest

-----------------------------------------------------------------------------
(* Retries.  The formula of overload_lab multiplies by one factor per layer; *)
(* the model's stack keeps the calls of every layer in step with it.         *)

\* No layer that retries: one attempt.
LEMMA LayeredNothing ==
    ASSUME NEW q, DOMAIN q = {}
    PROVE  LayeredRetryAttempts(q) = 1
BY ProductEmpty DEF LayeredRetryAttempts

\* One more layer multiplies the attempts by one more than its retries.
LEMMA LayeredMore ==
    ASSUME NEW n \in Nat, NEW q, DOMAIN q = 1..n, NEW p, DOMAIN p = 1..(n + 1),
           \A i \in 1..n : q[i] = p[i], \A i \in 1..(n + 1) : p[i] \in Nat
    PROVE  /\ LayeredRetryAttempts(q) \in Nat
           /\ LayeredRetryAttempts(p) = (p[n + 1] + 1) * LayeredRetryAttempts(q)
<1> DEFINE v == [i \in 1..n |-> q[i] + 1]
           w == [i \in 1..(n + 1) |-> p[i] + 1]
<1>1. 1..(n + 1) = (1..n) \cup {n + 1} /\ n + 1 \notin 1..n
  OBVIOUS
<1>2. /\ \A i \in 1..n : w[i] = v[i]
      /\ \A i \in (1..n) \cup {n + 1} : w[i] \in Nat
      /\ w[n + 1] = p[n + 1] + 1
  BY <1>1
<1>3. IsFiniteSet(1..n)
  BY FS_Interval
<1>4. LayeredRetryAttempts(q) = Product(v, 1..n)
  BY DEF LayeredRetryAttempts
<1>5. LayeredRetryAttempts(p) = Product(w, (1..n) \cup {n + 1})
  BY <1>1 DEF LayeredRetryAttempts
<1> HIDE DEF v, w
<1>6. /\ Product(v, 1..n) \in Nat
      /\ Product(w, (1..n) \cup {n + 1}) = w[n + 1] * Product(v, 1..n)
  <2> DEFINE S == 1..n
             x == n + 1
  <2>1. /\ IsFiniteSet(S) /\ x \notin S
        /\ \A y \in S : w[y] = v[y]
        /\ \A y \in S \cup {x} : w[y] \in Nat
    BY <1>1, <1>2, <1>3
  <2> HIDE DEF S, x
  <2>2. /\ Product(v, S) \in Nat
        /\ Product(w, S \cup {x}) = w[x] * Product(v, S)
    BY <2>1, ProductAdd
  <2>3. QED
    BY <2>2 DEF S, x
<1>7. QED
  BY <1>2, <1>4, <1>5, <1>6

\* The formula for the calls of a layer, and the retries of a layer, of a configuration.
OwnedBy(c, n) ==
    CASE c.mode = "none" -> <<>>
      [] c.mode = "edge" -> IF n = 0 THEN <<>> ELSE <<c.retries_per_layer>>
      [] OTHER -> [i \in 1..n |-> c.retries_per_layer]

WorstOf(c, n) == LayeredRetryAttempts(OwnedBy(c, n))

LimitOf(c, layer) ==
    IF c.mode = "layered" \/ (c.mode = "edge" /\ layer = 0) THEN c.retries_per_layer ELSE 0

\* The formula starts from one call and grows with every layer that retries.
LEMMA WorstGrows ==
    ASSUME NEW c \in Configs
    PROVE  /\ WorstOf(c, 0) = 1
           /\ \A n \in Nat : /\ WorstOf(c, n) \in Nat
                             /\ LimitOf(c, n) \in Nat
                             /\ WorstOf(c, n + 1) = (LimitOf(c, n) + 1) * WorstOf(c, n)
<1>1. /\ c.mode \in {"none", "edge", "layered"} /\ c.retries_per_layer \in Nat
  BY RetryAssumption DEF RetryAssumption
<1> DEFINE r == c.retries_per_layer
<1>2. LayeredRetryAttempts(<<>>) = 1
  BY LayeredNothing
<1>3. LayeredRetryAttempts(<<r>>) = r + 1
  <2>1. /\ LayeredRetryAttempts(<<r>>) = (<<r>>[0 + 1] + 1) * LayeredRetryAttempts(<<>>)
    <3> DEFINE none == <<>>
               one == <<r>>
    <3>1. /\ DOMAIN none = 1..0 /\ DOMAIN one = 1..(0 + 1)
          /\ \A i \in 1..0 : none[i] = one[i]
          /\ \A i \in 1..(0 + 1) : one[i] \in Nat
      BY <1>1
    <3> HIDE DEF none, one
    <3>2. LayeredRetryAttempts(one) = (one[0 + 1] + 1) * LayeredRetryAttempts(none)
      BY <3>1, LayeredMore
    <3>3. QED
      BY <3>2 DEF none, one
  <2>2. QED
    BY <1>1, <1>2, <2>1
<1>4. CASE c.mode = "none"
  BY <1>1, <1>2, <1>4 DEF WorstOf, OwnedBy, LimitOf
<1>5. CASE c.mode = "edge"
  <2>1. WorstOf(c, 0) = 1
    BY <1>2, <1>5 DEF WorstOf, OwnedBy
  <2>2. \A n \in Nat : n # 0 => WorstOf(c, n) = r + 1
    BY <1>3, <1>5 DEF WorstOf, OwnedBy
  <2>3. \A n \in Nat : LimitOf(c, n) = IF n = 0 THEN r ELSE 0
    BY <1>5 DEF LimitOf
  <2>4. QED
    BY <1>1, <2>1, <2>2, <2>3
<1>6. CASE c.mode = "layered"
  <2> DEFINE chain(n) == [i \in 1..n |-> r]
  <2>1. \A n : WorstOf(c, n) = LayeredRetryAttempts(chain(n))
    BY <1>6 DEF WorstOf, OwnedBy
  <2>2. LayeredRetryAttempts(chain(0)) = 1
    BY LayeredNothing
  <2>3. ASSUME NEW n \in Nat
        PROVE  /\ LayeredRetryAttempts(chain(n)) \in Nat
               /\ LayeredRetryAttempts(chain(n + 1)) = (r + 1) * LayeredRetryAttempts(chain(n))
    <3>1. /\ DOMAIN chain(n) = 1..n /\ DOMAIN chain(n + 1) = 1..(n + 1)
          /\ \A i \in 1..n : chain(n)[i] = chain(n + 1)[i]
          /\ \A i \in 1..(n + 1) : chain(n + 1)[i] \in Nat
          /\ chain(n + 1)[n + 1] = r
      BY <1>1
    <3> HIDE DEF chain
    <3>2. QED
      BY <3>1, LayeredMore
  <2>4. \A n \in Nat : LimitOf(c, n) = r
    BY <1>6 DEF LimitOf
  <2> HIDE DEF chain
  <2>5. QED
    BY <1>1, <2>1, <2>2, <2>3, <2>4
<1>7. QED
  BY <1>1, <1>4, <1>5, <1>6

\* What the model writes with its variable.
LEMMA OfConfig ==
    ASSUME NEW c, config = c, NEW n
    PROVE  /\ LayeredRetryAttempts(OwnedRetries(n)) = WorstOf(c, n)
           /\ RetryLimit(n) = LimitOf(c, n)
<1>1. OwnedRetries(n) = OwnedBy(c, n)
  BY Zenon DEF OwnedRetries, OwnedBy
<1>2. RetryLimit(n) = LimitOf(c, n)
  BY Zenon DEF RetryLimit, LimitOf
<1>3. QED
  BY <1>1, <1>2 DEF WorstOf

\* The types of a run of a configuration.
RunTyped(c) ==
    /\ frames \in Seq(Nat) /\ Len(frames) <= c.service_layers
    /\ returned \in {"none", "success", "failure"}
    /\ calls \in [0..c.service_layers -> Nat]
    /\ totalCalls \in [0..c.service_layers -> Nat]
    /\ successful \in Nat /\ failed \in Nat
    /\ successful + failed <= c.logical_requests

\* While no call has succeeded, a layer above the stack's top has been called by
\* every call of the layer before as often as it retries; a layer on the stack by
\* every earlier call that often, and by the current one as often as its
\* attempt_index says.
Chained(c) ==
    \A n \in 0..(c.service_layers - 1) :
        /\ n + 1 > Len(frames) => calls[n + 1] = (LimitOf(c, n) + 1) * calls[n]
        /\ n + 1 = Len(frames) =>
                calls[n + 1] = (LimitOf(c, n) + 1) * (calls[n] - 1) + frames[n + 1]
                                + (IF returned = "failure" THEN 1 ELSE 0)
        /\ n + 1 < Len(frames) =>
                calls[n + 1] = (LimitOf(c, n) + 1) * (calls[n] - 1) + frames[n + 1] + 1

RequestInv(c) ==
    /\ calls[0] = 1
    /\ successful + failed < c.logical_requests
    /\ frames = <<>> => returned # "none"
    /\ \A n \in 1..Len(frames) : frames[n] <= LimitOf(c, n - 1)
    /\ \A n \in 0..c.service_layers : calls[n] <= WorstOf(c, n)
    /\ \A n \in 0..c.service_layers :
            n < Len(frames) \/ returned = "success" => calls[n] >= 1
    /\ returned # "success" => Chained(c)

IdleInv(c) ==
    frames = <<>> /\ returned = "none" /\ \A n \in 0..c.service_layers : calls[n] = 0

TotalsInv(c) ==
    \A n \in 0..c.service_layers :
        /\ totalCalls[n] <= WorstOf(c, n) * (successful + failed)
        /\ totalCalls[n] >= WorstOf(c, n) * failed + successful

RunInv(c) == IdleInv(c) \/ RequestInv(c)

RetryInv ==
    /\ config \in Configs \cup {<<>>}
    /\ config = <<>> => frames = <<>> /\ returned = "none" /\ successful = 0 /\ failed = 0
    /\ config # <<>> =>
        \A c \in Configs : config = c => RunTyped(c) /\ RunInv(c) /\ TotalsInv(c)

LEMMA ConfigTyped ==
    ASSUME NEW c \in Configs
    PROVE  c.service_layers \in Nat \ {0} /\ c.logical_requests \in Nat \ {0}
BY RetryAssumption DEF RetryAssumption

\* A request whose calls all failed has made as many calls as the formula says.
LEMMA AllFailed ==
    ASSUME NEW c \in Configs, RunTyped(c), RequestInv(c), frames = <<>>,
           returned = "failure", NEW n \in 0..c.service_layers
    PROVE  calls[n] = WorstOf(c, n)
<1> DEFINE Other == {k \in 0..c.service_layers : calls[k] # WorstOf(c, k)}
<1> SUFFICES ASSUME Other # {} PROVE FALSE
  OBVIOUS
<1>1. c.service_layers \in Nat
  BY ConfigTyped
<1>2. Other \in SUBSET Nat
  BY <1>1
<1>3. PICK k \in Other : \A m \in Other : k <= m
  <2> HIDE DEF Other
  <2> QED
    BY <1>2, LeastExists
<1>4. k \in Nat /\ k <= c.service_layers /\ calls[k] # WorstOf(c, k)
  BY <1>1
<1>5. k # 0
  BY <1>4, WorstGrows DEF RequestInv
<1>6. k - 1 \in Nat /\ k - 1 \in 0..(c.service_layers - 1) /\ k - 1 \in 0..c.service_layers
  BY <1>1, <1>4, <1>5
<1>7. calls[k - 1] = WorstOf(c, k - 1)
  BY <1>3, <1>4, <1>6
<1>8. calls[(k - 1) + 1] = (LimitOf(c, k - 1) + 1) * calls[k - 1]
  <2>1. Len(frames) = 0 /\ (k - 1) + 1 > 0
    BY <1>6
  <2>2. QED
    BY <1>6, <2>1 DEF RequestInv, Chained
<1>9. WorstOf(c, (k - 1) + 1) = (LimitOf(c, k - 1) + 1) * WorstOf(c, k - 1)
  BY <1>6, WorstGrows
<1>10. (k - 1) + 1 = k
  BY <1>4
<1>11. QED
  BY <1>4, <1>7, <1>8, <1>9, <1>10

\* The invariant says what the model's properties say.
LEMMA RetryInvMeans == RetryInv => RetryTypeOK /\ AttemptsMatchFormula
<1> SUFFICES ASSUME RetryInv PROVE RetryTypeOK /\ AttemptsMatchFormula
  OBVIOUS
<1>1. CASE config = <<>>
  BY <1>1 DEF RetryInv, RetryTypeOK, AttemptsMatchFormula, Layers
<1>2. CASE config # <<>>
  <2>1. PICK c \in Configs : config = c
    BY <1>2 DEF RetryInv
  <2>2. RunTyped(c) /\ RunInv(c) /\ TotalsInv(c)
    BY <1>2, <2>1 DEF RetryInv
  <2>3. Layers = c.service_layers
    BY <1>2, <2>1 DEF Layers
  <2>4. RetryTypeOK
    <3>1. c.logical_requests \in Nat
      BY ConfigTyped
    <3>2. QED
      BY <2>1, <2>2, <2>3, <3>1 DEF RetryTypeOK, RunTyped
  <2>5. ASSUME NEW n \in 0..Layers
        PROVE  LET worst == LayeredRetryAttempts(OwnedRetries(n))
               IN  /\ calls[n] <= worst
                   /\ frames = <<>> /\ returned = "failure" => calls[n] = worst
                   /\ totalCalls[n] <= worst * (successful + failed)
                   /\ totalCalls[n] >= worst * failed + successful
    <3>1. LayeredRetryAttempts(OwnedRetries(n)) = WorstOf(c, n)
      BY <2>1, OfConfig
    <3>2. n \in 0..c.service_layers /\ n \in Nat /\ WorstOf(c, n) \in Nat
      BY <2>3, ConfigTyped, WorstGrows
    <3>3. calls[n] <= WorstOf(c, n)
      BY <2>2, <3>2 DEF RunInv, IdleInv, RequestInv
    <3>4. frames = <<>> /\ returned = "failure" => calls[n] = WorstOf(c, n)
      BY <2>2, <3>2, AllFailed DEF RunInv, IdleInv
    <3>5. QED
      BY <2>2, <3>1, <3>2, <3>3, <3>4 DEF TotalsInv
  <2>6. QED
    BY <2>4, <2>5 DEF AttemptsMatchFormula
<1>3. QED
  BY <1>1, <1>2

LEMMA RetryInitInv == RetryInit => RetryInv
BY DEF RetryInit, RetryInv

LEMMA RunStep ==
    ASSUME RetryInv, NEW c \in Configs, Run(c)
    PROVE  RetryInv'
<1>1. /\ config' = c /\ frames' = <<>> /\ returned' = "none"
      /\ successful' = 0 /\ failed' = 0
      /\ calls' = NoCalls(c) /\ totalCalls' = NoCalls(c)
  BY DEF Run, RetryInv
<1>2. c.service_layers \in Nat /\ c.logical_requests \in Nat
  BY ConfigTyped
<1>3. /\ NoCalls(c) \in [0..c.service_layers -> Nat]
      /\ \A n \in 0..c.service_layers : NoCalls(c)[n] = 0
  BY DEF NoCalls
<1>4. RunTyped(c)'
  BY <1>1, <1>2, <1>3 DEF RunTyped
<1>5. IdleInv(c)'
  BY <1>1, <1>3 DEF IdleInv
<1>6. \A n \in 0..c.service_layers : WorstOf(c, n) \in Nat
  BY <1>2, WorstGrows
<1>7. TotalsInv(c)'
  BY <1>1, <1>3, <1>6 DEF TotalsInv
<1>8. QED
  BY <1>1, <1>4, <1>5, <1>7 DEF RetryInv, RunInv

\* A step of a run keeps the configuration, so that its part of the invariant is
\* all there is to show.
LEMMA RunSuffices ==
    ASSUME RetryInv, config # <<>>, NEW c \in Configs, config = c, config' = c,
           RunTyped(c)', RunInv(c)', TotalsInv(c)'
    PROVE  RetryInv'
BY DEF RetryInv

\* What the steps of a run start from.
LEMMA RunFacts ==
    ASSUME NEW c \in Configs, RunTyped(c)
    PROVE  /\ c.service_layers \in Nat \ {0} /\ c.logical_requests \in Nat \ {0}
           /\ Len(frames) \in 0..c.service_layers
           /\ \A n \in 1..Len(frames) : frames[n] \in Nat
           /\ \A n \in 0..c.service_layers : calls[n] \in Nat /\ WorstOf(c, n) \in Nat
           /\ \A n \in Nat : LimitOf(c, n) \in Nat
           /\ WorstOf(c, 0) = 1
<1>1. c.service_layers \in Nat \ {0} /\ c.logical_requests \in Nat \ {0}
  BY ConfigTyped
<1>2. Len(frames) \in Nat
  BY DEF RunTyped
<1>3. \A n \in 1..Len(frames) : frames[n] \in Nat
  BY DEF RunTyped
<1>4. \A n \in 0..c.service_layers : n \in Nat /\ calls[n] \in Nat
  BY <1>1 DEF RunTyped
<1>5. Len(frames) <= c.service_layers
  BY DEF RunTyped
<1>6. \A n \in Nat : WorstOf(c, n) \in Nat /\ LimitOf(c, n) \in Nat
  BY WorstGrows
<1>7. WorstOf(c, 0) = 1
  BY WorstGrows
<1>8. Len(frames) \in 0..c.service_layers
  BY <1>1, <1>2, <1>5
<1>9. QED
  BY <1>1, <1>3, <1>4, <1>6, <1>7, <1>8

LEMMA StartRequestStep ==
    ASSUME RetryInv, NEW c \in Configs, config = c, StartRequest
    PROVE  RetryInv'
<1>1. config # <<>> /\ config' = c
  BY DEF StartRequest
<1>2. RunTyped(c) /\ RunInv(c) /\ TotalsInv(c)
  BY <1>1 DEF RetryInv
<1>3. /\ c.service_layers \in Nat \ {0} /\ c.logical_requests \in Nat \ {0}
      /\ \A n \in 0..c.service_layers : calls[n] \in Nat /\ WorstOf(c, n) \in Nat
      /\ \A n \in Nat : LimitOf(c, n) \in Nat
      /\ WorstOf(c, 0) = 1
  BY <1>2, RunFacts
<1>4. IdleInv(c)
  <2>1. calls[0] = 0
    <3>1. 0 \in 0..c.service_layers
      BY <1>3
    <3>2. calls[0] \in Nat
      BY <1>3, <3>1
    <3>3. QED
      BY <3>2 DEF StartRequest, InRequest
  <2>2. QED
    BY <1>2, <2>1 DEF RunInv, RequestInv
<1>5. /\ calls' \in [0..c.service_layers -> Nat] /\ calls'[0] = 1
      /\ \A n \in 1..c.service_layers : calls'[n] = 0
      /\ frames' = <<0>> /\ Len(frames') = 1 /\ frames'[1] = 0
      /\ returned' = "none" /\ successful' = successful /\ failed' = failed
      /\ totalCalls' = totalCalls
      /\ successful + failed < c.logical_requests
  <2>1. calls' = [calls EXCEPT ![0] = 1] /\ frames' = <<0>>
    BY DEF StartRequest
  <2>2. calls \in [0..c.service_layers -> Nat] /\ 0 \in 0..c.service_layers
    <3>1. calls \in [0..c.service_layers -> Nat]
      BY <1>2 DEF RunTyped
    <3>2. 0 \in 0..c.service_layers
      BY <1>3
    <3>3. QED
      BY <3>1, <3>2
  <2>3. calls' \in [0..c.service_layers -> Nat] /\ calls'[0] = 1
    BY <2>1, <2>2
  <2>4. ASSUME NEW n \in 1..c.service_layers PROVE calls'[n] = 0
    BY <1>3, <1>4, <2>1, <2>2 DEF IdleInv
  <2>5. QED
    BY <1>4, <2>1, <2>3, <2>4 DEF StartRequest, IdleInv
<1>6. RunTyped(c)'
  <2>1. frames' \in Seq(Nat) /\ Len(frames') <= c.service_layers
    BY <1>3, <1>5
  <2>2. /\ totalCalls' \in [0..c.service_layers -> Nat]
        /\ successful' \in Nat /\ failed' \in Nat
        /\ successful' + failed' <= c.logical_requests
    BY <1>2, <1>5 DEF RunTyped
  <2>3. QED
    BY <1>5, <2>1, <2>2 DEF RunTyped
<1>7. Chained(c)'
  <2> SUFFICES ASSUME NEW n \in 0..(c.service_layers - 1)
      PROVE  /\ n + 1 > 1 => calls'[n + 1] = (LimitOf(c, n) + 1) * calls'[n]
             /\ n + 1 = 1 => calls'[n + 1] = (LimitOf(c, n) + 1) * (calls'[n] - 1) + frames'[n + 1]
    BY <1>3, <1>5 DEF Chained
  <2>1. n \in Nat /\ n + 1 \in 1..c.service_layers /\ LimitOf(c, n) \in Nat
    BY <1>3
  <2>2. calls'[n + 1] = 0
    BY <1>5, <2>1
  <2>3. CASE n = 0
    BY <1>5, <2>1, <2>2, <2>3
  <2>4. CASE n # 0
    <3>1. calls'[n] = 0
      <4>1. n \in 1..c.service_layers
        BY <1>3, <2>1, <2>4
      <4>2. QED
        BY <1>5, <4>1
    <3>2. QED
      BY <2>1, <2>2, <2>4, <3>1
  <2>5. QED
    BY <2>3, <2>4
<1>8. RequestInv(c)'
  <2>1. ASSUME NEW n \in 0..c.service_layers PROVE calls'[n] <= WorstOf(c, n)
    <3>1. n = 0 \/ n \in 1..c.service_layers
      BY <1>3
    <3>2. (calls'[n] = 1 /\ n = 0) \/ calls'[n] = 0
      BY <1>5, <3>1
    <3>3. WorstOf(c, n) \in Nat
      BY <1>3
    <3>4. QED
      BY <1>3, <3>2, <3>3
  <2>2. \A n \in 1..Len(frames') : frames'[n] <= LimitOf(c, n - 1)
    BY <1>3, <1>5
  <2>3. \A n \in 0..c.service_layers : n < 1 => calls'[n] >= 1
    BY <1>3, <1>5
  <2>4. QED
    BY <1>5, <1>7, <2>1, <2>2, <2>3 DEF RequestInv
<1>9. TotalsInv(c)'
  BY <1>2, <1>5 DEF TotalsInv
<1>10. QED
  BY <1>1, <1>6, <1>8, <1>9, RunSuffices DEF RunInv

LEMMA Times ==
    /\ \A r, x \in Nat : /\ (r + 1) * x \in Nat
                         /\ (r + 1) * (x - 1) \in Int
                         /\ (r + 1) * x = (r + 1) * (x - 1) + r + 1
    /\ \A r, x, y \in Nat : x <= y => (r + 1) * x <= (r + 1) * y
BY Z3

\* One more call of the layer below the stack's top stays within the formula.
LEMMA OneMoreCall ==
    ASSUME NEW c \in Configs, RunTyped(c), RequestInv(c), frames # <<>>, returned = "none",
           calls' = [calls EXCEPT ![Len(frames)] = @ + 1]
    PROVE  /\ calls' \in [0..c.service_layers -> Nat]
           /\ calls'[Len(frames)] = calls[Len(frames)] + 1
           /\ \A n \in 0..c.service_layers : n # Len(frames) => calls'[n] = calls[n]
           /\ \A n \in 0..c.service_layers : calls'[n] <= WorstOf(c, n)
           /\ \A n \in 0..c.service_layers : n <= Len(frames) => calls'[n] >= 1
<1> DEFINE L == Len(frames)
           R == LimitOf(c, L - 1)
<1>1. /\ c.service_layers \in Nat \ {0}
      /\ L \in 0..c.service_layers
      /\ \A n \in 0..c.service_layers : calls[n] \in Nat /\ WorstOf(c, n) \in Nat
      /\ \A n \in Nat : LimitOf(c, n) \in Nat
  BY RunFacts
<1>2. L \in 1..c.service_layers
  <2>1. L # 0
    BY DEF RunTyped
  <2>2. QED
    BY <1>1, <2>1
<1>3. calls \in [0..c.service_layers -> Nat] /\ L \in 0..c.service_layers
  BY <1>1 DEF RunTyped
<1>4. /\ calls' \in [0..c.service_layers -> Nat] /\ calls'[L] = calls[L] + 1
      /\ \A n \in 0..c.service_layers : n # L => calls'[n] = calls[n]
  BY <1>3
<1> HIDE DEF L, R
<1>5. L \in Nat /\ L - 1 \in Nat /\ L - 1 < L /\ (L - 1) + 1 = L
  BY <1>2
<1>6. L - 1 \in 0..(c.service_layers - 1) /\ L - 1 \in 0..c.service_layers
  <2>1. c.service_layers \in Nat /\ L <= c.service_layers
    BY <1>1, <1>2
  <2>2. QED
    BY <1>5, <2>1
<1>7. R \in Nat /\ calls[L - 1] \in Nat /\ WorstOf(c, L - 1) \in Nat /\ calls[L] \in Nat
  BY <1>1, <1>6, <1>5 DEF R
<1>8. frames[L] \in Nat /\ frames[L] <= R
  BY <1>2 DEF RunTyped, RequestInv, L, R
<1> DEFINE before == calls[L - 1]
           worst == WorstOf(c, L - 1)
<1>9. calls[L] = (R + 1) * (before - 1) + frames[L]
  <2>1. Chained(c)
    BY DEF RequestInv
  <2>2. calls[(L - 1) + 1] = (R + 1) * (before - 1) + frames[(L - 1) + 1] + 0
    BY <1>6, <1>5, <2>1 DEF Chained, L, R
  <2>3. (R + 1) * (before - 1) \in Int
    BY <1>7, Times
  <2>4. QED
    BY <1>6, <1>5, <1>8, <2>2, <2>3
<1>10. before >= 1 /\ before <= worst
  <2>1. \A n \in 0..c.service_layers : n < L => calls[n] >= 1
    BY DEF RequestInv, L
  <2>2. \A n \in 0..c.service_layers : calls[n] <= WorstOf(c, n)
    BY DEF RequestInv
  <2>3. QED
    BY <1>6, <1>5, <2>1, <2>2
<1>11. WorstOf(c, L) = (R + 1) * worst
  BY <1>6, <1>5, WorstGrows DEF R
<1>12. /\ (R + 1) * before = (R + 1) * (before - 1) + R + 1
       /\ (R + 1) * (before - 1) \in Int
       /\ (R + 1) * before \in Nat /\ (R + 1) * worst \in Nat
       /\ (R + 1) * before <= (R + 1) * worst
  BY <1>7, <1>10, Times
<1> HIDE DEF before, worst
<1>13. calls[L] + 1 <= WorstOf(c, L)
  <2> DEFINE p == (R + 1) * (before - 1)
             q == (R + 1) * before
             w == (R + 1) * worst
  <2>1. calls[L] = p + frames[L] /\ q = p + R + 1 /\ p \in Int /\ q <= w /\ w \in Nat
    BY <1>9, <1>12
  <2>2. WorstOf(c, L) = w
    BY <1>11
  <2> HIDE DEF p, q, w
  <2>3. QED
    BY <1>7, <1>8, <2>1, <2>2
<1>14. \A n \in 0..c.service_layers : calls'[n] <= WorstOf(c, n)
  BY <1>4, <1>13 DEF RequestInv
<1>15. ASSUME NEW n \in 0..c.service_layers, n <= L PROVE calls'[n] >= 1
  <2>1. n # L => n < L
    <3>1. c.service_layers \in Nat
      BY <1>1
    <3>2. n \in Nat
      BY <3>1
    <3>3. QED
      BY <1>15, <1>5, <3>2
  <2>2. n # L => calls[n] >= 1
    BY <2>1 DEF RequestInv, L
  <2>3. QED
    BY <1>4, <1>7, <2>2
<1>16. QED
  BY <1>4, <1>14, <1>15 DEF L

\* A step inside a request.
LEMMA InRequestStep ==
    ASSUME RetryInv, NEW c \in Configs, config = c, frames # <<>>,
           UNCHANGED <<config, totalCalls, successful, failed>>,
           frames' \in Seq(Nat), Len(frames') <= c.service_layers,
           returned' \in {"none", "success", "failure"},
           calls' \in [0..c.service_layers -> Nat],
           RequestInv(c)'
    PROVE  RetryInv'
<1>1. config # <<>>
  BY DEF RetryInv
<1>2. RunTyped(c) /\ TotalsInv(c)
  BY <1>1 DEF RetryInv
<1>3. RunTyped(c)'
  BY <1>2 DEF RunTyped
<1>4. TotalsInv(c)'
  BY <1>2 DEF TotalsInv
<1>5. QED
  BY <1>1, <1>3, <1>4, RunSuffices DEF RunInv

LEMMA RequestFacts ==
    ASSUME RetryInv, NEW c \in Configs, config = c, frames # <<>>
    PROVE  /\ config # <<>> /\ Layers = c.service_layers
           /\ RunTyped(c) /\ RequestInv(c)
           /\ Len(frames) \in 1..c.service_layers
           /\ c.service_layers \in Nat \ {0}
           /\ \A n \in 1..Len(frames) : frames[n] \in Nat
           /\ \A n \in 0..c.service_layers : calls[n] \in Nat /\ WorstOf(c, n) \in Nat
           /\ \A n \in Nat : LimitOf(c, n) \in Nat /\ RetryLimit(n) = LimitOf(c, n)
<1>1. config # <<>>
  BY DEF RetryInv
<1>2. RunTyped(c) /\ RequestInv(c)
  BY <1>1 DEF RetryInv, RunInv, IdleInv
<1>3. Len(frames) # 0
  BY <1>2 DEF RunTyped
<1>4. Layers = c.service_layers
  BY <1>1 DEF Layers
<1>5. /\ c.service_layers \in Nat \ {0}
      /\ Len(frames) \in 0..c.service_layers
      /\ \A n \in 1..Len(frames) : frames[n] \in Nat
      /\ \A n \in 0..c.service_layers : calls[n] \in Nat /\ WorstOf(c, n) \in Nat
      /\ \A n \in Nat : LimitOf(c, n) \in Nat
  BY <1>2, RunFacts
<1>6. Len(frames) \in 1..c.service_layers
  BY <1>3, <1>5
<1>7. \A n : RetryLimit(n) = LimitOf(c, n)
  BY OfConfig
<1>8. QED
  BY <1>1, <1>2, <1>4, <1>5, <1>6, <1>7

\* What a call pushes.
LEMMA Pushed ==
    ASSUME NEW s \in Seq(Nat)
    PROVE  /\ Append(s, 0) \in Seq(Nat) /\ Append(s, 0) # <<>>
           /\ Len(Append(s, 0)) = Len(s) + 1
           /\ \A n \in 1..Len(s) : Append(s, 0)[n] = s[n]
           /\ Append(s, 0)[Len(s) + 1] = 0
<1>1. Len(Append(s, 0)) = Len(s) + 1 /\ Append(s, 0) \in Seq(Nat)
  OBVIOUS
<1>2. Append(s, 0) # <<>>
  <2>1. Len(s) \in Nat /\ Len(<<>>) = 0
    OBVIOUS
  <2>2. QED
    BY <1>1, <2>1
<1>3. QED
  BY <1>1, <1>2

LEMMA CallLayerStep ==
    ASSUME RetryInv, NEW c \in Configs, config = c, CallLayer
    PROVE  RetryInv'
<1> DEFINE L == Len(frames)
<1>1. /\ frames # <<>> /\ returned = "none" /\ L < c.service_layers
      /\ calls' = [calls EXCEPT ![L] = @ + 1] /\ frames' = Append(frames, 0)
      /\ UNCHANGED <<config, returned, totalCalls, successful, failed>>
  <2>1. frames # <<>>
    BY DEF CallLayer
  <2>2. QED
    BY <2>1, RequestFacts DEF CallLayer
<1>2. /\ RunTyped(c) /\ RequestInv(c) /\ L \in 1..c.service_layers
      /\ c.service_layers \in Nat \ {0}
      /\ \A n \in 1..L : frames[n] \in Nat
      /\ \A n \in 0..c.service_layers : calls[n] \in Nat
      /\ \A n \in Nat : LimitOf(c, n) \in Nat
  BY <1>1, RequestFacts
<1>3. /\ calls' \in [0..c.service_layers -> Nat]
      /\ calls'[L] = calls[L] + 1
      /\ \A n \in 0..c.service_layers : n # L => calls'[n] = calls[n]
      /\ \A n \in 0..c.service_layers : calls'[n] <= WorstOf(c, n)
      /\ \A n \in 0..c.service_layers : n <= L => calls'[n] >= 1
  BY <1>1, <1>2, OneMoreCall
<1>4. /\ frames' \in Seq(Nat) /\ frames' # <<>> /\ Len(frames') = L + 1
      /\ \A n \in 1..L : frames'[n] = frames[n]
      /\ frames'[L + 1] = 0
  BY <1>1, <1>2, Pushed DEF RunTyped
<1>5. /\ Chained(c) /\ calls[0] = 1 /\ successful + failed < c.logical_requests
      /\ \A n \in 1..L : frames[n] <= LimitOf(c, n - 1)
  BY <1>1, <1>2 DEF RequestInv
<1> HIDE DEF L
<1>6. L \in Nat /\ L >= 1 /\ L < c.service_layers
  BY <1>1, <1>2
<1>7. Chained(c)'
  <2> SUFFICES ASSUME NEW n \in 0..(c.service_layers - 1)
      PROVE  /\ n + 1 > L + 1 => calls'[n + 1] = (LimitOf(c, n) + 1) * calls'[n]
             /\ n + 1 = L + 1 =>
                    calls'[n + 1] = (LimitOf(c, n) + 1) * (calls'[n] - 1) + frames'[n + 1] + 0
             /\ n + 1 < L + 1 =>
                    calls'[n + 1] = (LimitOf(c, n) + 1) * (calls'[n] - 1) + frames'[n + 1] + 1
    BY <1>1, <1>4 DEF Chained
  <2>1. /\ n \in Nat /\ n \in 0..c.service_layers /\ n + 1 \in 0..c.service_layers
        /\ LimitOf(c, n) \in Nat /\ calls[n] \in Nat /\ calls[n + 1] \in Nat
        /\ L \in Nat
    BY <1>2
  <2>2. /\ n + 1 > L => calls[n + 1] = (LimitOf(c, n) + 1) * calls[n]
        /\ n + 1 = L => calls[n + 1] = (LimitOf(c, n) + 1) * (calls[n] - 1) + frames[n + 1] + 0
        /\ n + 1 < L => calls[n + 1] = (LimitOf(c, n) + 1) * (calls[n] - 1) + frames[n + 1] + 1
    BY <1>1, <1>5 DEF Chained, L
  <2>3. n + 1 <= L => frames'[n + 1] = frames[n + 1] /\ frames[n + 1] \in Nat
    BY <1>2, <1>4, <2>1
  <2>4. /\ n + 1 # L => calls'[n + 1] = calls[n + 1]
        /\ n + 1 = L => calls'[n + 1] = calls[n + 1] + 1
        /\ n # L => calls'[n] = calls[n]
        /\ n = L => calls'[n] = calls[n] + 1
    BY <1>3, <2>1
  <2>5. n = L => frames'[n + 1] = 0
    BY <1>4
  <2>6. (LimitOf(c, n) + 1) * (calls[n] - 1) \in Int /\ (LimitOf(c, n) + 1) * calls[n] \in Int
    BY <2>1, Z3
  <2>7. CASE n + 1 < L
    BY <2>1, <2>2, <2>3, <2>4, <2>7
  <2>8. CASE n + 1 = L
    BY <2>1, <2>2, <2>3, <2>4, <2>6, <2>8
  <2>9. CASE n = L
    <3>1. calls'[n] - 1 = calls[n]
      BY <2>1, <2>4, <2>9
    <3>2. QED
      BY <2>1, <2>2, <2>4, <2>5, <2>6, <2>9, <3>1
  <2>10. CASE n > L
    BY <2>1, <2>2, <2>4, <2>10
  <2>11. QED
    BY <2>1, <2>7, <2>8, <2>9, <2>10
<1>8. RequestInv(c)'
  <2>1. \A n \in 1..(L + 1) : frames'[n] <= LimitOf(c, n - 1)
    <3> SUFFICES ASSUME NEW n \in 1..(L + 1) PROVE frames'[n] <= LimitOf(c, n - 1)
      OBVIOUS
    <3>1. n \in 1..L \/ n = L + 1
      BY <1>2
    <3>2. LimitOf(c, n - 1) \in Nat
      BY <1>2
    <3>3. QED
      BY <1>4, <1>5, <3>1, <3>2
  <2>2. \A n \in 0..c.service_layers : n < L + 1 => calls'[n] >= 1
    <3> SUFFICES ASSUME NEW n \in 0..c.service_layers, n < L + 1 PROVE calls'[n] >= 1
      OBVIOUS
    <3>1. n \in Nat
      BY <1>2
    <3>2. n <= L
      BY <1>6, <3>1
    <3>3. QED
      BY <1>3, <3>2
  <2>3. calls'[0] = 1
    <3>1. 0 \in 0..c.service_layers /\ 0 # L
      BY <1>2, <1>6
    <3>2. calls'[0] = calls[0]
      BY <1>3, <3>1
    <3>3. QED
      BY <1>5, <3>2
  <2>4. QED
    BY <1>1, <1>3, <1>4, <1>5, <1>7, <2>1, <2>2, <2>3 DEF RequestInv
<1>9. Len(frames') <= c.service_layers
  <2>1. c.service_layers \in Nat
    BY <1>2
  <2>2. Len(frames') = L + 1
    BY <1>4
  <2>3. QED
    BY <1>6, <2>1, <2>2
<1>10. returned' \in {"none", "success", "failure"}
  BY <1>1
<1>11. QED
  BY <1>1, <1>3, <1>4, <1>8, <1>9, <1>10, InRequestStep

LEMMA CallDependencyStep ==
    ASSUME RetryInv, NEW c \in Configs, config = c, CallDependency
    PROVE  RetryInv'
<1> DEFINE L == Len(frames)
<1>1. /\ frames # <<>> /\ returned = "none" /\ L = c.service_layers
      /\ calls' = [calls EXCEPT ![L] = @ + 1]
      /\ returned' \in {"success", "failure"}
      /\ UNCHANGED <<config, frames, totalCalls, successful, failed>>
  <2>1. frames # <<>>
    BY DEF CallDependency
  <2>2. QED
    BY <2>1, RequestFacts DEF CallDependency
<1>2. /\ RunTyped(c) /\ RequestInv(c) /\ L \in 1..c.service_layers
      /\ c.service_layers \in Nat \ {0}
      /\ \A n \in 1..L : frames[n] \in Nat
      /\ \A n \in 0..c.service_layers : calls[n] \in Nat
      /\ \A n \in Nat : LimitOf(c, n) \in Nat
  BY <1>1, RequestFacts
<1>3. /\ calls' \in [0..c.service_layers -> Nat]
      /\ calls'[L] = calls[L] + 1
      /\ \A n \in 0..c.service_layers : n # L => calls'[n] = calls[n]
      /\ \A n \in 0..c.service_layers : calls'[n] <= WorstOf(c, n)
      /\ \A n \in 0..c.service_layers : n <= L => calls'[n] >= 1
  BY <1>1, <1>2, OneMoreCall
<1>4. /\ Chained(c) /\ calls[0] = 1 /\ successful + failed < c.logical_requests
      /\ \A n \in 1..L : frames[n] <= LimitOf(c, n - 1)
  BY <1>1, <1>2 DEF RequestInv
<1> HIDE DEF L
<1>5. L \in Nat /\ L >= 1
  BY <1>2
<1>6. returned' = "failure" => Chained(c)'
  <2> SUFFICES ASSUME returned' = "failure", NEW n \in 0..(c.service_layers - 1)
      PROVE  /\ n + 1 > L => calls'[n + 1] = (LimitOf(c, n) + 1) * calls'[n]
             /\ n + 1 = L =>
                    calls'[n + 1] = (LimitOf(c, n) + 1) * (calls'[n] - 1) + frames[n + 1] + 1
             /\ n + 1 < L =>
                    calls'[n + 1] = (LimitOf(c, n) + 1) * (calls'[n] - 1) + frames[n + 1] + 1
    BY <1>1 DEF Chained, L
  <2>1. /\ n \in Nat /\ n \in 0..c.service_layers /\ n + 1 \in 0..c.service_layers
        /\ LimitOf(c, n) \in Nat /\ calls[n] \in Nat /\ calls[n + 1] \in Nat
        /\ n < L /\ n + 1 <= L
    <3>1. c.service_layers \in Nat /\ L = c.service_layers
      BY <1>1, <1>2
    <3>2. /\ n \in Nat /\ n \in 0..c.service_layers /\ n + 1 \in 0..c.service_layers
          /\ n < L /\ n + 1 <= L
      BY <3>1
    <3>3. QED
      BY <1>2, <3>2
  <2>2. /\ n + 1 = L => calls[n + 1] = (LimitOf(c, n) + 1) * (calls[n] - 1) + frames[n + 1] + 0
        /\ n + 1 < L => calls[n + 1] = (LimitOf(c, n) + 1) * (calls[n] - 1) + frames[n + 1] + 1
    BY <1>1, <1>4 DEF Chained, L
  <2>3. frames[n + 1] \in Nat
    BY <1>2, <2>1
  <2>4. /\ n + 1 # L => calls'[n + 1] = calls[n + 1]
        /\ n + 1 = L => calls'[n + 1] = calls[n + 1] + 1
        /\ calls'[n] = calls[n]
    BY <1>3, <1>5, <2>1
  <2>5. (LimitOf(c, n) + 1) * (calls[n] - 1) \in Int
    BY <2>1, Times
  <2>6. CASE n + 1 < L
    BY <1>5, <2>1, <2>2, <2>3, <2>4, <2>6
  <2>7. CASE n + 1 = L
    BY <2>1, <2>2, <2>3, <2>4, <2>5, <2>7
  <2>8. QED
    BY <1>5, <2>1, <2>6, <2>7
<1>7. RequestInv(c)'
  <2>1. \A n \in 0..c.service_layers : calls'[n] >= 1
    BY <1>1, <1>2, <1>3
  <2>2. calls'[0] = 1
    <3>1. 0 \in 0..c.service_layers /\ 0 # L
      BY <1>2, <1>5
    <3>2. QED
      BY <1>3, <1>4, <3>1
  <2>3. QED
    BY <1>1, <1>3, <1>4, <1>6, <2>1, <2>2 DEF RequestInv, L
<1>8. frames' \in Seq(Nat) /\ Len(frames') <= c.service_layers
  BY <1>1, <1>2 DEF RunTyped
<1>9. QED
  BY <1>1, <1>3, <1>7, <1>8, InRequestStep

\* What a return pops, and what a retry replaces.
LEMMA Popped ==
    ASSUME NEW s \in Seq(Nat), Len(s) >= 1
    PROVE  /\ Front(s) \in Seq(Nat) /\ Len(Front(s)) = Len(s) - 1
           /\ \A n \in 1..(Len(s) - 1) : Front(s)[n] = s[n]
<1>1. Len(s) - 1 \in Nat
  OBVIOUS
<1>2. \A n \in 1..(Len(s) - 1) : n \in 1..Len(s) /\ s[n] \in Nat
  BY <1>1
<1>3. SubSeq(s, 1, Len(s) - 1) \in Seq(Nat) /\ Len(SubSeq(s, 1, Len(s) - 1)) = Len(s) - 1
  <2> DEFINE m == Len(s) - 1
  <2>1. m \in Nat /\ m <= Len(s) /\ Len(s) \in Nat
    BY <1>1
  <2> HIDE DEF m
  <2>2. SubSeq(s, 1, m) = [n \in 1..m |-> s[n]]
    BY <2>1
  <2>3. \A n \in 1..m : s[n] \in Nat
    BY <1>2 DEF m
  <2>4. SubSeq(s, 1, m) \in Seq(Nat)
    BY <2>1, <2>2, <2>3
  <2>5. Len(SubSeq(s, 1, m)) = m
    BY <2>1, <2>2
  <2>6. QED
    BY <2>4, <2>5 DEF m
<1>4. \A n \in 1..(Len(s) - 1) : SubSeq(s, 1, Len(s) - 1)[n] = s[n]
  BY <1>1
<1>5. QED
  BY <1>3, <1>4 DEF Front

LEMMA Replaced ==
    ASSUME NEW s \in Seq(Nat), Len(s) >= 1, NEW a \in Nat
    PROVE  /\ Front(s) \o <<a>> \in Seq(Nat) /\ Len(Front(s) \o <<a>>) = Len(s)
           /\ \A n \in 1..(Len(s) - 1) : (Front(s) \o <<a>>)[n] = s[n]
           /\ (Front(s) \o <<a>>)[Len(s)] = a
<1> DEFINE f == Front(s)
<1>1. /\ f \in Seq(Nat) /\ Len(f) = Len(s) - 1 /\ Len(s) \in Nat
      /\ \A n \in 1..(Len(s) - 1) : f[n] = s[n]
  BY Popped
<1> HIDE DEF f
<1>2. f \o <<a>> \in Seq(Nat) /\ Len(f \o <<a>>) = Len(s)
  BY <1>1
<1>3. (f \o <<a>>)[Len(s)] = a
  BY <1>1
<1>4. \A n \in 1..(Len(s) - 1) : (f \o <<a>>)[n] = s[n]
  BY <1>1
<1>5. QED
  BY <1>2, <1>3, <1>4 DEF f

LEMMA ReturnSuccessStep ==
    ASSUME RetryInv, NEW c \in Configs, config = c, ReturnSuccess
    PROVE  RetryInv'
<1> DEFINE L == Len(frames)
<1>1. /\ frames # <<>> /\ returned = "success" /\ frames' = Front(frames)
      /\ UNCHANGED <<config, returned, calls, totalCalls, successful, failed>>
  BY DEF ReturnSuccess
<1>2. /\ RunTyped(c) /\ RequestInv(c) /\ L \in 1..c.service_layers
      /\ c.service_layers \in Nat \ {0}
  BY <1>1, RequestFacts
<1>3. /\ frames' \in Seq(Nat) /\ Len(frames') = L - 1
      /\ \A n \in 1..(L - 1) : frames'[n] = frames[n]
  <2>1. frames \in Seq(Nat) /\ L >= 1
    BY <1>2 DEF RunTyped
  <2>2. QED
    BY <1>1, <2>1, Popped
<1>4. \A n \in 1..L : frames[n] <= LimitOf(c, n - 1)
  BY <1>2 DEF RequestInv
<1>5. \A n \in 0..c.service_layers : calls[n] >= 1
  BY <1>1, <1>2 DEF RequestInv
<1> HIDE DEF L
<1>6. \A n \in 1..(L - 1) : n \in 1..L
  BY <1>2
<1>7. \A n \in 1..(L - 1) : frames'[n] <= LimitOf(c, n - 1)
  BY <1>3, <1>4, <1>6
<1>8. RequestInv(c)'
  BY <1>1, <1>2, <1>3, <1>5, <1>7 DEF RequestInv
<1>9. Len(frames') <= c.service_layers
  BY <1>2, <1>3
<1>10. calls' \in [0..c.service_layers -> Nat] /\ returned' \in {"none", "success", "failure"}
  BY <1>1, <1>2 DEF RunTyped
<1>11. QED
  BY <1>1, <1>3, <1>8, <1>9, <1>10, InRequestStep

LEMMA ReturnFailureStep ==
    ASSUME RetryInv, NEW c \in Configs, config = c, ReturnFailure
    PROVE  RetryInv'
<1> DEFINE L == Len(frames)
           a == frames[L]
           R == LimitOf(c, L - 1)
<1>1. /\ frames # <<>> /\ returned = "failure"
      /\ UNCHANGED <<config, calls, totalCalls, successful, failed>>
      /\ IF AttemptsLeft(L - 1, a)
         THEN frames' = Front(frames) \o <<a + 1>> /\ returned' = "none"
         ELSE frames' = Front(frames) /\ returned' = "failure"
  BY DEF ReturnFailure, Last
<1>2. /\ RunTyped(c) /\ RequestInv(c) /\ L \in 1..c.service_layers
      /\ c.service_layers \in Nat \ {0}
      /\ \A n \in 1..L : frames[n] \in Nat
      /\ \A n \in 0..c.service_layers : calls[n] \in Nat
      /\ \A n \in Nat : LimitOf(c, n) \in Nat /\ RetryLimit(n) = LimitOf(c, n)
  BY <1>1, RequestFacts
<1>3. /\ Chained(c) /\ calls[0] = 1 /\ successful + failed < c.logical_requests
      /\ \A n \in 1..L : frames[n] <= LimitOf(c, n - 1)
      /\ \A n \in 0..c.service_layers : calls[n] <= WorstOf(c, n)
      /\ \A n \in 0..c.service_layers : n < L => calls[n] >= 1
  BY <1>1, <1>2 DEF RequestInv
<1>4. frames \in Seq(Nat) /\ L >= 1 /\ L \in Nat /\ L \in 1..L
  BY <1>2 DEF RunTyped
<1>5. a \in Nat /\ R \in Nat /\ a <= R
  <2>1. L - 1 \in Nat
    BY <1>4
  <2> HIDE DEF L
  <2>2. QED
    BY <1>2, <1>3, <1>4, <2>1
<1>6. AttemptsLeft(L - 1, a) <=> a < R
  <2>1. L - 1 \in Nat
    BY <1>4
  <2> HIDE DEF L
  <2>2. QED
    BY <1>2, <2>1 DEF AttemptsLeft
<1>7. \A n \in 0..(c.service_layers - 1) :
        /\ n \in Nat /\ n + 1 \in Nat /\ LimitOf(c, n) \in Nat /\ calls[n] \in Nat
        /\ n + 1 > L => calls[n + 1] = (LimitOf(c, n) + 1) * calls[n]
        /\ n + 1 = L => calls[n + 1] = (LimitOf(c, n) + 1) * (calls[n] - 1) + frames[n + 1] + 1
        /\ n + 1 < L => calls[n + 1] = (LimitOf(c, n) + 1) * (calls[n] - 1) + frames[n + 1] + 1
  <2> SUFFICES ASSUME NEW n \in 0..(c.service_layers - 1)
      PROVE  /\ n \in Nat /\ n + 1 \in Nat /\ LimitOf(c, n) \in Nat /\ calls[n] \in Nat
             /\ n + 1 > L => calls[n + 1] = (LimitOf(c, n) + 1) * calls[n]
             /\ n + 1 = L =>
                  calls[n + 1] = (LimitOf(c, n) + 1) * (calls[n] - 1) + frames[n + 1] + 1
             /\ n + 1 < L =>
                  calls[n + 1] = (LimitOf(c, n) + 1) * (calls[n] - 1) + frames[n + 1] + 1
    OBVIOUS
  <2>1. n \in Nat /\ n + 1 \in Nat /\ n \in 0..c.service_layers
    BY <1>2
  <2>2. LimitOf(c, n) \in Nat /\ calls[n] \in Nat
    BY <1>2, <2>1
  <2>3. QED
    BY <1>1, <1>3, <2>1, <2>2 DEF Chained
<1>8. CASE a < R
  <2>1. /\ frames' = Front(frames) \o <<a + 1>> /\ returned' = "none"
    BY <1>1, <1>6, <1>8
  <2>2. /\ frames' \in Seq(Nat) /\ Len(frames') = L
        /\ \A n \in 1..(L - 1) : frames'[n] = frames[n]
        /\ frames'[L] = a + 1
    <3>1. a + 1 \in Nat
      BY <1>5
    <3> HIDE DEF a
    <3>2. QED
      BY <1>4, <2>1, <3>1, Replaced
  <2> HIDE DEF L, R
  <2>3. Chained(c)'
    <3> SUFFICES ASSUME NEW n \in 0..(c.service_layers - 1)
        PROVE  /\ n + 1 > L => calls[n + 1] = (LimitOf(c, n) + 1) * calls[n]
               /\ n + 1 = L =>
                    calls[n + 1] = (LimitOf(c, n) + 1) * (calls[n] - 1) + frames'[n + 1] + 0
               /\ n + 1 < L =>
                    calls[n + 1] = (LimitOf(c, n) + 1) * (calls[n] - 1) + frames'[n + 1] + 1
      BY <1>1, <2>1, <2>2 DEF Chained
    <3>1. n + 1 < L => frames'[n + 1] = frames[n + 1]
      BY <1>4, <1>7, <2>2
    <3>2. n + 1 = L => frames'[n + 1] = frames[n + 1] + 1 /\ frames[n + 1] \in Nat
      BY <1>5, <2>2
    <3>3. (LimitOf(c, n) + 1) * (calls[n] - 1) \in Int
      BY <1>7, Times
    <3>4. QED
      BY <1>7, <3>1, <3>2, <3>3
  <2>4. \A n \in 1..L : frames'[n] <= LimitOf(c, n - 1)
    <3> SUFFICES ASSUME NEW n \in 1..L PROVE frames'[n] <= LimitOf(c, n - 1)
      OBVIOUS
    <3>1. n = L \/ n \in 1..(L - 1)
      BY <1>4
    <3>2. CASE n = L
      BY <1>5, <1>8, <2>2, <3>2 DEF R
    <3>3. CASE n \in 1..(L - 1)
      BY <1>3, <2>2, <3>3
    <3>4. QED
      BY <3>1, <3>2, <3>3
  <2>5. frames' # <<>>
    BY <1>4, <2>2
  <2>6. RequestInv(c)'
    BY <1>1, <1>3, <2>1, <2>2, <2>3, <2>4, <2>5 DEF RequestInv
  <2>7. Len(frames') <= c.service_layers
    BY <1>2, <2>2
  <2>8. calls' \in [0..c.service_layers -> Nat] /\ returned' \in {"none", "success", "failure"}
    BY <1>1, <1>2, <2>1 DEF RunTyped
  <2>9. QED
    BY <1>1, <2>2, <2>6, <2>7, <2>8, InRequestStep
<1>9. CASE ~(a < R)
  <2>1. a = R
    BY <1>5, <1>9
  <2>2. frames' = Front(frames) /\ returned' = "failure"
    BY <1>1, <1>6, <1>9
  <2>3. /\ frames' \in Seq(Nat) /\ Len(frames') = L - 1
        /\ \A n \in 1..(L - 1) : frames'[n] = frames[n]
    BY <1>4, <2>2, Popped
  <2> HIDE DEF L, R
  <2>4. Chained(c)'
    <3> SUFFICES ASSUME NEW n \in 0..(c.service_layers - 1)
        PROVE  /\ n + 1 > L - 1 => calls[n + 1] = (LimitOf(c, n) + 1) * calls[n]
               /\ n + 1 = L - 1 =>
                    calls[n + 1] = (LimitOf(c, n) + 1) * (calls[n] - 1) + frames'[n + 1] + 1
               /\ n + 1 < L - 1 =>
                    calls[n + 1] = (LimitOf(c, n) + 1) * (calls[n] - 1) + frames'[n + 1] + 1
      BY <1>1, <2>2, <2>3 DEF Chained
    <3>1. n + 1 < L => frames'[n + 1] = frames[n + 1]
      BY <1>4, <1>7, <2>3
    <3>2. n + 1 = L => frames[n + 1] = LimitOf(c, n)
      <4>1. n + 1 = L => n = L - 1
        BY <1>4, <1>7
      <4>2. QED
        BY <2>1, <4>1 DEF R
    <3>3. /\ (LimitOf(c, n) + 1) * (calls[n] - 1) \in Int
          /\ (LimitOf(c, n) + 1) * calls[n]
               = (LimitOf(c, n) + 1) * (calls[n] - 1) + LimitOf(c, n) + 1
      BY <1>7, Times
    <3>4. CASE n + 1 < L
      BY <1>4, <1>7, <3>1, <3>4
    <3>5. CASE n + 1 = L
      BY <1>4, <1>7, <3>2, <3>3, <3>5
    <3>6. CASE n + 1 > L
      BY <1>4, <1>7, <3>6
    <3>7. QED
      BY <1>4, <1>7, <3>4, <3>5, <3>6
  <2>5. \A n \in 1..(L - 1) : frames'[n] <= LimitOf(c, n - 1)
    <3>1. \A n \in 1..(L - 1) : n \in 1..L
      BY <1>4
    <3>2. QED
      BY <1>3, <2>3, <3>1
  <2>6. \A n \in 0..c.service_layers : n < L - 1 => calls[n] >= 1
    <3>1. \A n \in 0..c.service_layers : n < L - 1 => n < L
      BY <1>2, <1>4
    <3>2. \A n \in 0..c.service_layers : n < L => calls[n] >= 1
      BY <1>3
    <3> HIDE DEF a
    <3>3. QED
      BY <3>1, <3>2
  <2>7. RequestInv(c)'
    BY <1>1, <1>3, <2>2, <2>3, <2>4, <2>5, <2>6 DEF RequestInv
  <2>8. Len(frames') <= c.service_layers
    <3>1. c.service_layers \in Nat /\ L <= c.service_layers
      BY <1>2
    <3>2. QED
      BY <1>4, <2>3, <3>1
  <2>9. calls' \in [0..c.service_layers -> Nat] /\ returned' \in {"none", "success", "failure"}
    BY <1>1, <1>2, <2>2 DEF RunTyped
  <2>10. QED
    BY <1>1, <2>3, <2>7, <2>8, <2>9, InRequestStep
<1>10. QED
  BY <1>8, <1>9

LEMMA EndRequestStep ==
    ASSUME RetryInv, NEW c \in Configs, config = c, EndRequest
    PROVE  RetryInv'
<1>1. /\ frames = <<>> /\ returned # "none" /\ returned' = "none"
      /\ config' = config /\ frames' = frames
      /\ totalCalls' = [i \in 0..Layers |-> totalCalls[i] + calls[i]]
      /\ calls' = NoCalls(c)
      /\ IF returned = "success"
         THEN successful' = successful + 1 /\ failed' = failed
         ELSE failed' = failed + 1 /\ successful' = successful
  BY DEF EndRequest
<1>2. config # <<>> /\ config' = c /\ Layers = c.service_layers
  BY <1>1 DEF RetryInv, Layers
<1>3. RunTyped(c) /\ RunInv(c) /\ TotalsInv(c)
  BY <1>2 DEF RetryInv
<1>4. RequestInv(c)
  BY <1>1, <1>3 DEF RunInv, IdleInv
<1>5. /\ c.service_layers \in Nat \ {0} /\ c.logical_requests \in Nat \ {0}
      /\ \A n \in 0..c.service_layers : calls[n] \in Nat /\ WorstOf(c, n) \in Nat
  BY <1>3, RunFacts
<1>6. /\ successful \in Nat /\ failed \in Nat /\ successful + failed < c.logical_requests
      /\ \A n \in 0..c.service_layers : totalCalls[n] \in Nat
  BY <1>3, <1>4 DEF RunTyped, RequestInv
<1>7. /\ NoCalls(c) \in [0..c.service_layers -> Nat]
      /\ \A n \in 0..c.service_layers : NoCalls(c)[n] = 0
  BY DEF NoCalls
<1>8. RunTyped(c)'
  <2>1. totalCalls' \in [0..c.service_layers -> Nat]
    BY <1>1, <1>2, <1>5, <1>6
  <2>2. /\ successful' \in Nat /\ failed' \in Nat
        /\ successful' + failed' <= c.logical_requests
    BY <1>1, <1>5, <1>6
  <2>3. frames' \in Seq(Nat) /\ Len(frames') <= c.service_layers
    BY <1>1, <1>3 DEF RunTyped
  <2>4. QED
    BY <1>1, <1>7, <2>1, <2>2, <2>3 DEF RunTyped
<1>9. IdleInv(c)'
  BY <1>1, <1>7 DEF IdleInv
<1>10. TotalsInv(c)'
  <2> SUFFICES ASSUME NEW n \in 0..c.service_layers
               PROVE  /\ totalCalls'[n] <= WorstOf(c, n) * (successful' + failed')
                      /\ totalCalls'[n] >= WorstOf(c, n) * failed' + successful'
    BY DEF TotalsInv
  <2> DEFINE w == WorstOf(c, n)
             t == totalCalls[n]
             m == calls[n]
  <2>1. totalCalls'[n] = t + m
    BY <1>1, <1>2
  <2>2. w \in Nat /\ t \in Nat /\ m \in Nat
    BY <1>5, <1>6
  <2>3. /\ t <= w * (successful + failed)
        /\ t >= w * failed + successful
    BY <1>3 DEF TotalsInv
  <2>4. m <= w
    BY <1>4 DEF RequestInv
  <2> HIDE DEF w, t, m
  <2>5. /\ w * (successful + failed) \in Nat /\ w * failed \in Nat
        /\ w * (successful + failed + 1) = w * (successful + failed) + w
        /\ w * (failed + 1) = w * failed + w
    <3>1. \A x, y \in Nat : x * y \in Nat /\ x * (y + 1) = x * y + x
      BY Z3
    <3>2. successful + failed \in Nat
      BY <1>6
    <3>3. QED
      BY <1>6, <2>2, <3>1, <3>2
  <2>6. CASE returned = "success"
    <3>1. m >= 1
      BY <1>4, <2>6 DEF RequestInv, m
    <3>2. successful' + failed' = successful + failed + 1 /\ failed' = failed
          /\ successful' = successful + 1
      BY <1>1, <1>6, <2>6
    <3>3. t + m <= w * (successful + failed) + w
      BY <1>6, <2>2, <2>3, <2>4, <2>5
    <3>4. t + m >= w * failed + (successful + 1)
      BY <1>6, <2>2, <2>3, <2>5, <3>1
    <3>5. QED
      BY <2>1, <2>5, <3>2, <3>3, <3>4 DEF w
  <2>7. CASE returned # "success"
    <3>1. m = w
      <4>1. returned = "failure"
        BY <1>1, <1>3, <2>7 DEF RunTyped
      <4>2. QED
        BY <1>1, <1>3, <1>4, <4>1, AllFailed DEF m, w
    <3>2. successful' + failed' = successful + failed + 1 /\ failed' = failed + 1
          /\ successful' = successful
      BY <1>1, <1>6, <2>7
    <3>3. t + m <= w * (successful + failed) + w
      BY <1>6, <2>2, <2>3, <2>4, <2>5
    <3>4. t + m >= (w * failed + w) + successful
      BY <1>6, <2>2, <2>3, <2>5, <3>1
    <3>5. QED
      BY <2>1, <2>5, <3>2, <3>3, <3>4 DEF w
  <2>8. QED
    BY <2>6, <2>7
<1>11. QED
  BY <1>2, <1>8, <1>9, <1>10, RunSuffices DEF RunInv

LEMMA RetryStutter == ASSUME RetryInv, UNCHANGED retryVars PROVE RetryInv'
<1>1. /\ config' = config /\ frames' = frames /\ returned' = returned /\ calls' = calls
      /\ totalCalls' = totalCalls /\ successful' = successful /\ failed' = failed
  BY DEF retryVars
<1>2. \A c : /\ RunTyped(c) => RunTyped(c)'
             /\ RunInv(c) => RunInv(c)'
             /\ TotalsInv(c) => TotalsInv(c)'
  BY <1>1 DEF RunTyped, RunInv, IdleInv, RequestInv, Chained, TotalsInv
<1>3. QED
  BY <1>1, <1>2 DEF RetryInv

LEMMA RetryStep ==
    ASSUME RetryInv, RetryNext \/ UNCHANGED retryVars
    PROVE  RetryInv'
<1>1. CASE UNCHANGED retryVars
  BY <1>1, RetryStutter
<1>2. CASE \E c \in Configs : Run(c)
  BY <1>2, RunStep
<1>3. CASE StartRequest \/ CallLayer \/ CallDependency \/ ReturnSuccess \/ ReturnFailure
           \/ EndRequest
  <2>1. config # <<>>
    BY <1>3
    DEF StartRequest, CallLayer, CallDependency, ReturnSuccess, ReturnFailure, EndRequest,
        RetryInv
  <2>2. PICK c \in Configs : config = c
    BY <2>1 DEF RetryInv
  <2>3. QED
    BY <1>3, <2>2, StartRequestStep, CallLayerStep, CallDependencyStep, ReturnSuccessStep,
       ReturnFailureStep, EndRequestStep
<1>4. QED
  BY <1>1, <1>2, <1>3 DEF RetryNext

-----------------------------------------------------------------------------
(* Fleet rollout.  The plan is spoken of as a value: p is the policy, E the   *)
(* eligible clusters, r the rings taken, rem, sel and def the clusters of the *)
(* current ring, pl the batches.                                            *)

EligibleOf(p, F, t) == {c \in ToSet(F) : Status(p, c, t) = "ELIGIBLE"}

SameDomain(m, d) == {c \in m : c.failureDomain = d}

JoinsIn(p, m, c) ==
    /\ Cardinality(m) < p.maximumBatchSize
    /\ Cardinality(SameDomain(m, c.failureDomain)) < p.maximumPerFailureDomain

Within(p, m) ==
    /\ Cardinality(m) <= p.maximumBatchSize
    /\ \A d : Cardinality(SameDomain(m, d)) <= p.maximumPerFailureDomain

\* What a plan is made from.
PlanFrom(p, E) ==
    /\ p \in Policies /\ IsFiniteSet(E) /\ E \subseteq Fleet
    /\ \A c \in E : c.ring \in ToSet(p.ringOrder)
    /\ \A c, d \in E : c.clusterId = d.clusterId => c = d

BatchSound(p, E, r, b) ==
    /\ b.members \subseteq E /\ b.members # {} /\ Within(p, b.members)
    /\ RingIndex(p, b.ring) <= r
    /\ \A c \in b.members : c.ring = b.ring

\* The batches made: sound, in ring order, apart, and none with room for a later one.
BatchesInv(p, E, r, pl) ==
    /\ pl \in Seq([ring : Nat, number : Nat, members : SUBSET E])
    /\ \A k \in 1..Len(pl) : BatchSound(p, E, r, pl[k])
    /\ \A j, k \in 1..Len(pl) : j < k =>
        /\ RingIndex(p, pl[j].ring) <= RingIndex(p, pl[k].ring)
        /\ pl[j].members \cap pl[k].members = {}
        /\ pl[j].ring = pl[k].ring => \A c \in pl[k].members : ~JoinsIn(p, pl[j].members, c)

\* The current ring: its clusters are in no batch yet, could join none, and every other
\* eligible cluster of the rings taken is in one.
RingInv(p, E, r, cur, pl) ==
    /\ cur \subseteq {c \in E : RingIndex(p, c.ring) = r}
    /\ \A k \in 1..Len(pl) : pl[k].members \cap cur = {}
    /\ \A k \in 1..Len(pl) :
            RingIndex(p, pl[k].ring) = r => \A c \in cur : ~JoinsIn(p, pl[k].members, c)
    /\ \A c \in E : RingIndex(p, c.ring) <= r /\ c \notin cur =>
            \E k \in 1..Len(pl) : c \in pl[k].members

\* The batch being selected keeps within the limits, and has no room for what it
\* deferred.
PassInv(p, rem, sel, def) ==
    /\ rem \cap sel = {} /\ rem \cap def = {} /\ sel \cap def = {}
    /\ Within(p, sel)
    /\ \A c \in def : ~JoinsIn(p, sel, c)
    /\ def # {} => sel # {}

PlanInv(p, E, r, rem, sel, def, pl) ==
    /\ r \in 0..Len(p.ringOrder)
    /\ BatchesInv(p, E, r, pl)
    /\ RingInv(p, E, r, rem \cup sel \cup def, pl)
    /\ PassInv(p, rem, sel, def)

LEMMA PolicyTyped ==
    ASSUME NEW p \in Policies
    PROVE  /\ p.ringOrder \in Seq(Nat) /\ p # <<>>
           /\ \A i, j \in 1..Len(p.ringOrder) : p.ringOrder[i] = p.ringOrder[j] => i = j
           /\ p.maximumBatchSize \in Nat \ {0}
           /\ p.maximumPerFailureDomain \in Nat \ {0}
           /\ p.maximumAge \in Nat \ {0}
           /\ p.requireWindow \in BOOLEAN
<1>1. /\ p.ringOrder \in Seq(Nat) /\ IsInjective(p.ringOrder)
      /\ p.requireWindow \in BOOLEAN
      /\ {p.maximumBatchSize, p.maximumPerFailureDomain, p.maximumAge} \subseteq Nat \ {0}
      /\ p # <<>>
  BY RolloutAssumption DEF RolloutAssumption, WellTyped
<1>2. \A i, j \in DOMAIN p.ringOrder : p.ringOrder[i] = p.ringOrder[j] => i = j
  BY <1>1 DEF IsInjective
<1>3. QED
  BY <1>1, <1>2

\* The index of a ring of the policy.
LEMMA IndexOfRing ==
    ASSUME NEW p \in Policies
    PROVE  /\ \A i \in 1..Len(p.ringOrder) : RingIndex(p, p.ringOrder[i]) = i
           /\ \A ring \in ToSet(p.ringOrder) :
                /\ RingIndex(p, ring) \in 1..Len(p.ringOrder)
                /\ p.ringOrder[RingIndex(p, ring)] = ring
                /\ ring \in Nat
<1>1. /\ p.ringOrder \in Seq(Nat)
      /\ \A i, j \in 1..Len(p.ringOrder) : p.ringOrder[i] = p.ringOrder[j] => i = j
  BY PolicyTyped
<1>2. DOMAIN p.ringOrder = 1..Len(p.ringOrder)
  BY <1>1
<1>3. \A ring : RingIndex(p, ring) = CHOOSE i \in 1..Len(p.ringOrder) : p.ringOrder[i] = ring
  BY <1>2 DEF RingIndex
<1>4. \A i \in 1..Len(p.ringOrder) : RingIndex(p, p.ringOrder[i]) = i
  BY <1>1, <1>3
<1>5. ASSUME NEW ring \in ToSet(p.ringOrder)
      PROVE  /\ RingIndex(p, ring) \in 1..Len(p.ringOrder)
             /\ p.ringOrder[RingIndex(p, ring)] = ring /\ ring \in Nat
  <2>1. PICK i \in 1..Len(p.ringOrder) : p.ringOrder[i] = ring
    BY <1>2 DEF ToSet
  <2>2. RingIndex(p, ring) = i
    BY <1>4, <2>1
  <2>3. QED
    BY <1>1, <2>1, <2>2
<1>6. QED
  BY <1>4, <1>5

\* What does not fit into a batch does not fit into a larger one.
LEMMA NoMoreRoom ==
    ASSUME NEW p \in Policies, NEW m, IsFiniteSet(m), NEW n \in SUBSET m, NEW c, JoinsIn(p, m, c)
    PROVE  JoinsIn(p, n, c)
<1> DEFINE d == c.failureDomain
<1>1. /\ IsFiniteSet(n) /\ Cardinality(n) \in Nat /\ Cardinality(m) \in Nat
      /\ Cardinality(n) <= Cardinality(m)
  BY FS_Subset, FS_CardinalityType
<1>2. SameDomain(n, d) \subseteq SameDomain(m, d) /\ SameDomain(m, d) \subseteq m
  BY DEF SameDomain
<1>3. IsFiniteSet(SameDomain(m, d))
  BY <1>2, FS_Subset
<1>4. /\ Cardinality(SameDomain(n, d)) \in Nat /\ Cardinality(SameDomain(m, d)) \in Nat
      /\ Cardinality(SameDomain(n, d)) <= Cardinality(SameDomain(m, d))
  BY <1>2, <1>3, FS_Subset, FS_CardinalityType
<1>5. p.maximumBatchSize \in Nat /\ p.maximumPerFailureDomain \in Nat
  BY PolicyTyped
<1>6. QED
  BY <1>1, <1>4, <1>5 DEF JoinsIn

\* A batch stays within the limits when it takes what it has room for.
LEMMA TakesWithin ==
    ASSUME NEW p \in Policies, NEW m, IsFiniteSet(m), NEW c, c \notin m,
           Within(p, m), JoinsIn(p, m, c)
    PROVE  Within(p, m \cup {c})
<1>1. p.maximumBatchSize \in Nat /\ p.maximumPerFailureDomain \in Nat
  BY PolicyTyped
<1>2. Cardinality(m) \in Nat /\ Cardinality(m \cup {c}) = Cardinality(m) + 1
  BY FS_AddElement, FS_CardinalityType
<1>3. Cardinality(m \cup {c}) <= p.maximumBatchSize
  BY <1>1, <1>2 DEF JoinsIn
<1>4. ASSUME NEW d
      PROVE  Cardinality(SameDomain(m \cup {c}, d)) <= p.maximumPerFailureDomain
  <2>1. CASE c.failureDomain = d
    <3> DEFINE S == SameDomain(m, d)
    <3>1. SameDomain(m \cup {c}, d) = S \cup {c}
      BY <2>1 DEF SameDomain
    <3>2. S \subseteq m /\ c \notin S
      BY DEF SameDomain
    <3>3. Cardinality(S) < p.maximumPerFailureDomain
      BY <2>1 DEF JoinsIn
    <3> HIDE DEF S
    <3>4. IsFiniteSet(S)
      BY <3>2, FS_Subset
    <3>5. Cardinality(S) \in Nat /\ Cardinality(S \cup {c}) = Cardinality(S) + 1
      BY <3>2, <3>4, FS_AddElement, FS_CardinalityType
    <3>6. Cardinality(S) + 1 <= p.maximumPerFailureDomain
      BY <1>1, <3>3, <3>5
    <3>7. QED
      BY <3>1, <3>5, <3>6
  <2>2. CASE c.failureDomain # d
    <3>1. SameDomain(m \cup {c}, d) = SameDomain(m, d)
      BY <2>2 DEF SameDomain
    <3>2. QED
      BY <3>1 DEF Within
  <2>3. QED
    BY <2>1, <2>2
<1>5. QED
  BY <1>3, <1>4 DEF Within

\* An empty batch has room, and keeps within the limits.
LEMMA EmptyBatch ==
    ASSUME NEW p \in Policies
    PROVE  Within(p, {}) /\ \A c : JoinsIn(p, {}, c)
<1>1. \A d : SameDomain({}, d) = {}
  BY DEF SameDomain
<1>2. Cardinality({}) = 0
  BY FS_EmptySet
<1>3. p.maximumBatchSize \in Nat \ {0} /\ p.maximumPerFailureDomain \in Nat \ {0}
  BY PolicyTyped
<1>4. QED
  BY <1>1, <1>2, <1>3 DEF Within, JoinsIn

\* Of some clusters one sorts before all others.
LEMMA FirstSorted ==
    ASSUME NEW p, NEW E, PlanFrom(p, E), NEW S \in SUBSET E, S # {}
    PROVE  \E x \in S : \A y \in S \ {x} : SortsBefore(x, y)
<1>1. \A c \in S : c.failureDomain \in Nat /\ c.clusterId \in Nat
  BY RolloutAssumption DEF RolloutAssumption, PlanFrom
<1> DEFINE Domains == {c.failureDomain : c \in S}
<1>2. Domains \in SUBSET Nat /\ Domains # {}
  BY <1>1
<1>3. PICK d \in Domains : \A e \in Domains : d <= e
  <2> HIDE DEF Domains
  <2> QED
    BY <1>2, LeastExists
<1> DEFINE Ids == {c.clusterId : c \in {x \in S : x.failureDomain = d}}
<1>4. Ids \in SUBSET Nat /\ Ids # {}
  BY <1>1
<1>5. PICK i \in Ids : \A j \in Ids : i <= j
  <2> HIDE DEF Ids
  <2> QED
    BY <1>4, LeastExists
<1>6. PICK x \in S : x.failureDomain = d /\ x.clusterId = i
  OBVIOUS
<1>7. ASSUME NEW y \in S \ {x} PROVE SortsBefore(x, y)
  <2>1. x.failureDomain <= y.failureDomain
    BY <1>3, <1>6
  <2>2. x.clusterId # y.clusterId
    BY DEF PlanFrom
  <2>3. CASE y.failureDomain = d
    <3>1. y.clusterId \in Ids
      BY <2>3
    <3>2. x.clusterId <= y.clusterId
      BY <1>5, <1>6, <3>1
    <3>3. x.clusterId \in Nat /\ y.clusterId \in Nat
      BY <1>1
    <3> HIDE DEF Ids, Domains
    <3>4. x.clusterId < y.clusterId
      BY <2>2, <3>2, <3>3
    <3>5. QED
      BY <1>6, <2>3, <3>4 DEF SortsBefore
  <2>4. CASE y.failureDomain # d
    <3>1. x.failureDomain \in Nat /\ y.failureDomain \in Nat
      BY <1>1
    <3> HIDE DEF Ids, Domains
    <3>2. x.failureDomain < y.failureDomain
      BY <1>6, <2>1, <2>4, <3>1
    <3>3. QED
      BY <3>2 DEF SortsBefore
  <2>5. QED
    BY <2>3, <2>4
<1>8. QED
  BY <1>7

\* The ring of a batch.
LEMMA BatchRing ==
    ASSUME NEW p, NEW E, PlanFrom(p, E), NEW r, NEW b, BatchSound(p, E, r, b)
    PROVE  b.ring \in ToSet(p.ringOrder) /\ RingIndex(p, b.ring) \in 1..Len(p.ringOrder)
<1>1. PICK c \in E : c \in b.members
  BY DEF BatchSound
<1>2. b.ring \in ToSet(p.ringOrder)
  BY <1>1 DEF BatchSound, PlanFrom
<1>3. QED
  BY <1>2, IndexOfRing DEF PlanFrom

\* The for statement of create_batches takes the next ring.
LEMMA TakeRingKeeps ==
    ASSUME NEW p, NEW E, PlanFrom(p, E), NEW r, NEW pl,
           PlanInv(p, E, r, {}, {}, {}, pl), r < Len(p.ringOrder)
    PROVE  PlanInv(p, E, r + 1, {c \in E : c.ring = p.ringOrder[r + 1]}, {}, {}, pl)
<1> DEFINE new == {c \in E : c.ring = p.ringOrder[r + 1]}
<1>1. /\ p \in Policies /\ p.ringOrder \in Seq(Nat) /\ r \in 0..Len(p.ringOrder)
      /\ r + 1 \in 1..Len(p.ringOrder)
  BY PolicyTyped DEF PlanFrom, PlanInv
<1>2. RingIndex(p, p.ringOrder[r + 1]) = r + 1
  BY <1>1, IndexOfRing
<1>3. \A c \in E : /\ RingIndex(p, c.ring) \in 1..Len(p.ringOrder)
                   /\ p.ringOrder[RingIndex(p, c.ring)] = c.ring
  BY <1>1, IndexOfRing DEF PlanFrom
<1>4. \A k \in 1..Len(pl) : /\ BatchSound(p, E, r, pl[k])
                           /\ RingIndex(p, pl[k].ring) \in 1..Len(p.ringOrder)
                           /\ RingIndex(p, pl[k].ring) <= r
  BY BatchRing DEF PlanInv, BatchesInv, BatchSound
<1>5. BatchesInv(p, E, r + 1, pl)
  <2>1. \A k \in 1..Len(pl) : BatchSound(p, E, r + 1, pl[k])
    BY <1>1, <1>4 DEF BatchSound
  <2>2. QED
    BY <2>1 DEF PlanInv, BatchesInv
<1>6. RingInv(p, E, r + 1, new, pl)
  <2>1. \A c \in new : c \in E /\ RingIndex(p, c.ring) = r + 1
    BY <1>2
  <2>2. \A k \in 1..Len(pl) : pl[k].members \cap new = {}
    <3> SUFFICES ASSUME NEW k \in 1..Len(pl), NEW c \in pl[k].members, c \in new PROVE FALSE
      OBVIOUS
    <3>1. c.ring = pl[k].ring
      BY <1>4 DEF BatchSound
    <3>2. QED
      BY <1>1, <1>4, <2>1, <3>1
  <2>3. \A k \in 1..Len(pl) : RingIndex(p, pl[k].ring) # r + 1
    BY <1>1, <1>4
  <2>4. ASSUME NEW c \in E, RingIndex(p, c.ring) <= r + 1, c \notin new
        PROVE  \E k \in 1..Len(pl) : c \in pl[k].members
    <3>1. RingIndex(p, c.ring) # r + 1
      BY <1>3, <2>4
    <3>2. RingIndex(p, c.ring) <= r
      BY <1>1, <1>3, <2>4, <3>1
    <3>3. QED
      BY <3>2 DEF PlanInv, RingInv
  <2> HIDE DEF new
  <2>5. QED
    BY <2>1, <2>2, <2>3, <2>4 DEF RingInv
<1>7. PassInv(p, new, {}, {})
  BY <1>1, EmptyBatch DEF PassInv
<1> HIDE DEF new
<1>8. new \cup {} \cup {} = new /\ r + 1 \in 0..Len(p.ringOrder)
  BY <1>1
<1>9. PlanInv(p, E, r + 1, new, {}, {}, pl)
  BY <1>5, <1>6, <1>7, <1>8 DEF PlanInv
<1>10. QED
  BY <1>9 DEF new

\* An iteration of the inner for statement selects or defers a cluster.
LEMMA ConsiderKeeps ==
    ASSUME NEW p, NEW E, PlanFrom(p, E), NEW r, NEW rem, NEW sel, NEW def, NEW pl,
           PlanInv(p, E, r, rem, sel, def, pl), NEW c \in rem
    PROVE  /\ JoinsIn(p, sel, c) => PlanInv(p, E, r, rem \ {c}, sel \cup {c}, def, pl)
           /\ ~JoinsIn(p, sel, c) => PlanInv(p, E, r, rem \ {c}, sel, def \cup {c}, pl)
<1>1. p \in Policies /\ IsFiniteSet(E) /\ rem \cup sel \cup def \subseteq E
  BY DEF PlanFrom, PlanInv, RingInv
<1>2. IsFiniteSet(sel) /\ IsFiniteSet(sel \cup {c})
  BY <1>1, FS_Subset
<1>3. c \notin sel /\ c \notin def
  BY DEF PlanInv, PassInv
<1>4. /\ (rem \ {c}) \cup (sel \cup {c}) \cup def = rem \cup sel \cup def
      /\ (rem \ {c}) \cup sel \cup (def \cup {c}) = rem \cup sel \cup def
  OBVIOUS
<1>5. ASSUME JoinsIn(p, sel, c) PROVE PassInv(p, rem \ {c}, sel \cup {c}, def)
  <2>1. Within(p, sel \cup {c})
    BY <1>1, <1>2, <1>3, <1>5, TakesWithin DEF PlanInv, PassInv
  <2>2. \A d \in def : ~JoinsIn(p, sel \cup {c}, d)
    BY <1>1, <1>2, NoMoreRoom DEF PlanInv, PassInv
  <2>3. QED
    BY <1>3, <2>1, <2>2 DEF PlanInv, PassInv
<1>6. ASSUME ~JoinsIn(p, sel, c) PROVE PassInv(p, rem \ {c}, sel, def \cup {c})
  <2>1. sel # {}
    BY <1>1, <1>6, EmptyBatch
  <2>2. QED
    BY <1>3, <1>6, <2>1 DEF PlanInv, PassInv
<1>7. /\ r \in 0..Len(p.ringOrder) /\ BatchesInv(p, E, r, pl)
      /\ RingInv(p, E, r, rem \cup sel \cup def, pl)
  BY DEF PlanInv
<1>8. ASSUME JoinsIn(p, sel, c) PROVE PlanInv(p, E, r, rem \ {c}, sel \cup {c}, def, pl)
  BY <1>4, <1>5, <1>7, <1>8 DEF PlanInv
<1>9. ASSUME ~JoinsIn(p, sel, c) PROVE PlanInv(p, E, r, rem \ {c}, sel, def \cup {c}, pl)
  BY <1>4, <1>6, <1>7, <1>9 DEF PlanInv
<1>10. QED
  BY <1>8, <1>9

\* The end of an iteration of the while statement makes the selected clusters a batch.
LEMMA CreateKeeps ==
    ASSUME NEW p, NEW E, PlanFrom(p, E), NEW r, NEW sel, NEW def, NEW pl, NEW n \in Nat,
           PlanInv(p, E, r, {}, sel, def, pl), sel \cup def # {}
    PROVE  /\ sel # {}
           /\ PlanInv(p, E, r, def, {}, {},
                Append(pl, [ring |-> p.ringOrder[r], number |-> n, members |-> sel]))
<1> DEFINE b == [ring |-> p.ringOrder[r], number |-> n, members |-> sel]
           longer == Append(pl, b)
<1>1. /\ p \in Policies /\ p.ringOrder \in Seq(Nat)
  BY PolicyTyped DEF PlanFrom
<1>2. /\ sel # {} /\ sel \cap def = {} /\ Within(p, sel)
      /\ \A c \in def : ~JoinsIn(p, sel, c)
  BY DEF PlanInv, PassInv
<1>3. \A c \in sel \cup def : c \in E /\ RingIndex(p, c.ring) = r
  BY DEF PlanInv, RingInv
<1>4. /\ r \in 1..Len(p.ringOrder)
      /\ \A c \in sel \cup def : c.ring = p.ringOrder[r]
  BY <1>1, <1>2, <1>3, IndexOfRing DEF PlanFrom
<1>5. p.ringOrder[r] \in Nat /\ RingIndex(p, p.ringOrder[r]) = r
  BY <1>1, <1>4, IndexOfRing
<1>6. /\ pl \in Seq([ring : Nat, number : Nat, members : SUBSET E])
      /\ \A k \in 1..Len(pl) : BatchSound(p, E, r, pl[k])
  BY DEF PlanInv, BatchesInv
<1>7. b \in [ring : Nat, number : Nat, members : SUBSET E]
  BY <1>3, <1>5
<1>8. b.ring = p.ringOrder[r] /\ b.members = sel
  OBVIOUS
<1> HIDE DEF b
<1>9. /\ longer \in Seq([ring : Nat, number : Nat, members : SUBSET E])
      /\ Len(pl) \in Nat /\ Len(longer) = Len(pl) + 1 /\ longer[Len(pl) + 1] = b
      /\ \A k \in 1..Len(pl) : longer[k] = pl[k]
  BY <1>6, <1>7
<1> HIDE DEF longer
<1>10. \A k \in 1..Len(longer) : k \in 1..Len(pl) \/ k = Len(pl) + 1
  BY <1>9
<1>11. BatchSound(p, E, r, b)
  BY <1>2, <1>3, <1>4, <1>5, <1>8 DEF BatchSound
<1>12. \A k \in 1..Len(pl) :
        /\ pl[k].members \cap (sel \cup def) = {}
        /\ RingIndex(p, pl[k].ring) <= r
        /\ RingIndex(p, pl[k].ring) = r => \A c \in sel \cup def : ~JoinsIn(p, pl[k].members, c)
  BY <1>6 DEF PlanInv, RingInv, BatchSound
<1>13. BatchesInv(p, E, r, longer)
  <2>1. \A k \in 1..Len(longer) : BatchSound(p, E, r, longer[k])
    BY <1>6, <1>9, <1>10, <1>11
  <2>2. ASSUME NEW j \in 1..Len(longer), NEW k \in 1..Len(longer), j < k
        PROVE  /\ RingIndex(p, longer[j].ring) <= RingIndex(p, longer[k].ring)
               /\ longer[j].members \cap longer[k].members = {}
               /\ longer[j].ring = longer[k].ring =>
                    \A c \in longer[k].members : ~JoinsIn(p, longer[j].members, c)
    <3>1. j \in 1..Len(pl) /\ longer[j] = pl[j]
      BY <1>9, <2>2
    <3>2. CASE k \in 1..Len(pl)
      <4>1. longer[k] = pl[k]
        BY <1>9, <3>2
      <4>2. QED
        BY <2>2, <3>1, <3>2, <4>1 DEF PlanInv, BatchesInv
    <3>3. CASE k = Len(pl) + 1
      <4>1. longer[k] = b
        BY <1>9, <3>3
      <4>2. QED
        BY <1>5, <1>8, <1>12, <3>1, <4>1
    <3>4. QED
      BY <1>10, <3>2, <3>3
  <2>3. QED
    BY <1>9, <2>1, <2>2 DEF BatchesInv
<1>14. RingInv(p, E, r, def, longer)
  <2>1. def \subseteq {c \in E : RingIndex(p, c.ring) = r}
    BY <1>3
  <2>2. ASSUME NEW k \in 1..Len(longer)
        PROVE  /\ longer[k].members \cap def = {}
               /\ RingIndex(p, longer[k].ring) = r =>
                        \A c \in def : ~JoinsIn(p, longer[k].members, c)
    <3>1. CASE k \in 1..Len(pl)
      BY <1>9, <1>12, <3>1
    <3>2. CASE k = Len(pl) + 1
      BY <1>2, <1>8, <1>9, <3>2
    <3>3. QED
      BY <1>10, <3>1, <3>2
  <2>3. ASSUME NEW c \in E, RingIndex(p, c.ring) <= r, c \notin def
        PROVE  \E k \in 1..Len(longer) : c \in longer[k].members
    <3>1. CASE c \in sel
      <4>1. Len(pl) + 1 \in 1..Len(longer)
        BY <1>9
      <4>2. QED
        BY <1>8, <1>9, <3>1, <4>1
    <3>2. CASE c \notin sel
      <4>1. PICK k \in 1..Len(pl) : c \in pl[k].members
        BY <2>3, <3>2 DEF PlanInv, RingInv
      <4>2. k \in 1..Len(longer) /\ longer[k] = pl[k]
        BY <1>9
      <4>3. QED
        BY <4>1, <4>2
    <3>3. QED
      BY <3>1, <3>2
  <2>4. QED
    BY <2>1, <2>2, <2>3 DEF RingInv
<1>15. PassInv(p, def, {}, {})
  BY <1>1, EmptyBatch DEF PassInv
<1>16. def \cup {} \cup {} = def /\ r \in 0..Len(p.ringOrder)
  BY <1>1, <1>4
<1>17. PlanInv(p, E, r, def, {}, {}, longer)
  BY <1>13, <1>14, <1>15, <1>16 DEF PlanInv
<1>18. QED
  BY <1>2, <1>17 DEF longer, b

\* The inputs of a plan.
LEMMA FromInputs ==
    ASSUME NEW p \in Policies, NEW F \in Seq(Fleet), NEW t, InputsAccepted(p, F, t)
    PROVE  PlanFrom(p, EligibleOf(p, F, t))
<1> DEFINE E == EligibleOf(p, F, t)
<1>1. DOMAIN F = 1..Len(F) /\ Len(F) \in Nat /\ \A i \in 1..Len(F) : F[i] \in Fleet
  OBVIOUS
<1>2. ToSet(F) = {F[i] : i \in 1..Len(F)}
  BY <1>1 DEF ToSet
<1>3. IsFiniteSet(ToSet(F))
  <2>1. F \in Seq(ToSet(F))
    BY <1>1, <1>2
  <2>2. \A c \in ToSet(F) : \E i \in 1..Len(F) : F[i] = c
    BY <1>2
  <2>3. QED
    BY <2>1, <2>2 DEF IsFiniteSet
<1>4. E \subseteq ToSet(F)
  BY DEF EligibleOf
<1>5. IsFiniteSet(E) /\ E \subseteq Fleet
  BY <1>1, <1>2, <1>3, <1>4, FS_Subset
<1>6. \A c \in E : c.ring \in ToSet(p.ringOrder)
  BY <1>1, <1>2, <1>4 DEF InputsAccepted, ClusterAccepted, RingOrder
<1>7. ASSUME NEW c \in E, NEW d \in E, c.clusterId = d.clusterId PROVE c = d
  <2>1. PICK i \in 1..Len(F) : c = F[i]
    BY <1>2, <1>4
  <2>2. PICK j \in 1..Len(F) : d = F[j]
    BY <1>2, <1>4
  <2> DEFINE ids == [k \in DOMAIN F |-> F[k].clusterId]
  <2>3. ids[i] = ids[j] /\ i \in DOMAIN ids /\ j \in DOMAIN ids
    BY <1>1, <1>7, <2>1, <2>2
  <2>4. IsInjective(ids)
    BY DEF InputsAccepted
  <2> HIDE DEF ids
  <2>5. i = j
    BY <2>3, <2>4 DEF IsInjective
  <2>6. QED
    BY <2>1, <2>2, <2>5
<1>8. QED
  BY <1>5, <1>6, <1>7 DEF PlanFrom

\* Before main runs there is nothing; refused inputs are an error, and only they; with
\* accepted inputs the plan is sound so far, and complete when it is printed.
RolloutInv ==
    /\ RolloutTypeOK
    /\ policy = <<>> => exit = "none" /\ ringsTaken = 0 /\ RingDone /\ planned = <<>>
    /\ exit = "ERROR" => ~InputsAccepted(policy, fleet, now)
    /\ policy # <<>> /\ exit # "ERROR" =>
        /\ InputsAccepted(policy, fleet, now)
        /\ PlanInv(policy, EligibleOf(policy, fleet, now), ringsTaken,
                   remaining, selected, deferred, planned)
    /\ exit \in {"NO_PLAN", "PLANNED"} =>
        policy # <<>> /\ RingDone /\ ringsTaken = Len(policy.ringOrder)

\* A plan under way.
LEMMA Planning ==
    ASSUME RolloutInv, policy # <<>>, exit # "ERROR"
    PROVE  /\ policy \in Policies
           /\ PlanFrom(policy, EligibleOf(policy, fleet, now))
           /\ PlanInv(policy, EligibleOf(policy, fleet, now), ringsTaken,
                      remaining, selected, deferred, planned)
<1>1. policy \in Policies /\ fleet \in Seq(Fleet) /\ InputsAccepted(policy, fleet, now)
  BY DEF RolloutInv, RolloutTypeOK
<1>2. QED
  BY <1>1, FromInputs DEF RolloutInv

\* The batches are a sequence, and the clusters of the ring are of the file.
LEMMA PlanTyped ==
    ASSUME NEW p, NEW F, NEW t, NEW r, NEW rem, NEW sel, NEW def, NEW pl,
           PlanInv(p, EligibleOf(p, F, t), r, rem, sel, def, pl)
    PROVE  /\ r \in 0..Len(p.ringOrder)
           /\ Len(pl) \in Nat
           /\ rem \cup sel \cup def \subseteq ToSet(F)
<1> DEFINE E == EligibleOf(p, F, t)
<1>1. E \subseteq ToSet(F)
  BY DEF EligibleOf
<1> HIDE DEF E
<1>2. r \in 0..Len(p.ringOrder) /\ pl \in Seq([ring : Nat, number : Nat, members : SUBSET E])
      /\ rem \cup sel \cup def \subseteq E
  BY DEF E, PlanInv, BatchesInv, RingInv
<1>3. QED
  BY <1>1, <1>2

\* What has room by the state has room by the policy.
LEMMA JoinsByPolicy == \A m, c : Joins(m, c) <=> JoinsIn(policy, m, c)
<1>1. \A m, d : InDomain(m, d) = SameDomain(m, d)
  BY DEF InDomain, SameDomain
<1>2. QED
  BY <1>1 DEF Joins, JoinsIn

LEMMA RolloutInitInv == ASSUME RolloutInit PROVE RolloutInv
<1>1. fleet \in Seq(Fleet) /\ Len(fleet) <= MaxClusters /\ Len(planned) = 0
  BY RolloutAssumption DEF RolloutInit, RolloutAssumption
<1>2. RolloutTypeOK
  BY <1>1 DEF RolloutInit, RolloutTypeOK
<1>3. QED
  BY <1>2 DEF RolloutInit, RolloutInv, RingDone

\* A plan before its first ring.
LEMMA NothingPlanned ==
    ASSUME NEW p \in Policies, NEW E
    PROVE  /\ PlanFrom(p, E) => PlanInv(p, E, 0, {}, {}, {}, <<>>)
<1> SUFFICES ASSUME PlanFrom(p, E) PROVE PlanInv(p, E, 0, {}, {}, {}, <<>>)
  OBVIOUS
<1>1. p.ringOrder \in Seq(Nat) /\ Within(p, {})
  BY PolicyTyped, EmptyBatch
<1>2. \A c \in E : RingIndex(p, c.ring) \in 1..Len(p.ringOrder)
  BY IndexOfRing DEF PlanFrom
<1>3. \A c \in E : ~(RingIndex(p, c.ring) <= 0)
  BY <1>2
<1>4. BatchesInv(p, E, 0, <<>>)
  BY DEF BatchesInv
<1>5. RingInv(p, E, 0, {}, <<>>)
  BY <1>3 DEF RingInv
<1>6. PassInv(p, {}, {}, {})
  BY <1>1 DEF PassInv
<1>7. 0 \in 0..Len(p.ringOrder) /\ {} \cup {} \cup {} = {}
  BY <1>1
<1>8. QED
  BY <1>4, <1>5, <1>6, <1>7 DEF PlanInv

LEMMA ReadInputsStep == ASSUME RolloutInv, ReadInputs PROVE RolloutInv'
<1>1. PICK p \in Policies, cs \in BoundedSeq(Fleet, MaxClusters), t \in PlanningHours :
        /\ policy' = p /\ fleet' = cs /\ now' = t
        /\ IF InputsAccepted(p, cs, t) THEN UNCHANGED exit ELSE exit' = "ERROR"
  BY DEF ReadInputs
<1>2. cs \in Seq(Fleet) /\ Len(cs) <= MaxClusters
  <2>1. MaxClusters \in Nat
    BY RolloutAssumption DEF RolloutAssumption
  <2>2. PICK m \in 0..MaxClusters : cs \in [1..m -> Fleet]
    BY DEF BoundedSeq, SeqOf
  <2>3. QED
    BY <2>1, <2>2
<1>3. /\ p # <<>> /\ p.ringOrder \in Seq(Nat)
  BY PolicyTyped
<1>4. /\ exit = "none" /\ ringsTaken' = 0 /\ planned' = <<>> /\ batchNumber' = batchNumber
      /\ remaining' = {} /\ selected' = {} /\ deferred' = {} /\ planned = <<>>
  BY DEF ReadInputs, RolloutInv, RingDone, batchVars
<1>5. RolloutTypeOK'
  <2>1. batchNumber' \in 0..(Len(planned') + 1)
    BY <1>4 DEF RolloutInv, RolloutTypeOK
  <2>2. ringsTaken' \in 0..Len(p.ringOrder)
    BY <1>3, <1>4
  <2>3. exit' \in {"none", "ERROR"}
    BY <1>1, <1>4
  <2>4. QED
    BY <1>1, <1>2, <1>3, <1>4, <2>1, <2>2, <2>3 DEF RolloutTypeOK
<1>6. CASE InputsAccepted(p, cs, t)
  <2>1. exit' = "none"
    BY <1>1, <1>4, <1>6
  <2>2. PlanInv(p, EligibleOf(p, cs, t), 0, {}, {}, {}, <<>>)
    BY <1>2, <1>6, FromInputs, NothingPlanned
  <2>3. InputsAccepted(policy', fleet', now')
    BY <1>1, <1>6
  <2>4. PlanInv(policy', EligibleOf(policy', fleet', now'), ringsTaken',
                remaining', selected', deferred', planned')
    BY <1>1, <1>4, <2>2
  <2>5. QED
    BY <1>1, <1>3, <1>5, <2>1, <2>3, <2>4 DEF RolloutInv
<1>7. CASE ~InputsAccepted(p, cs, t)
  <2>1. exit' = "ERROR" /\ ~InputsAccepted(policy', fleet', now')
    BY <1>1, <1>7
  <2>2. QED
    BY <1>1, <1>3, <1>5, <2>1 DEF RolloutInv
<1>8. QED
  BY <1>6, <1>7

\* A step of the loops, once the plan after it is known to be sound.
LEMMA LoopStep ==
    ASSUME RolloutInv, policy # <<>>, exit = "none",
           UNCHANGED <<policy, fleet, now, exit>>,
           PlanInv(policy, EligibleOf(policy, fleet, now), ringsTaken',
                   remaining', selected', deferred', planned'),
           batchNumber' \in 0..(Len(planned') + 1)
    PROVE  RolloutInv'
<1>1. /\ ringsTaken' \in 0..Len(policy.ringOrder)
      /\ remaining' \cup selected' \cup deferred' \subseteq ToSet(fleet)
  BY PlanTyped
<1>2. RolloutTypeOK'
  BY <1>1 DEF RolloutInv, RolloutTypeOK, Clusters
<1>3. InputsAccepted(policy', fleet', now')
  BY DEF RolloutInv
<1>4. PlanInv(policy', EligibleOf(policy', fleet', now'), ringsTaken',
              remaining', selected', deferred', planned')
  OBVIOUS
<1>5. QED
  BY <1>2, <1>3, <1>4 DEF RolloutInv

LEMMA TakeRingStep == ASSUME RolloutInv, TakeRing PROVE RolloutInv'
<1> DEFINE E == EligibleOf(policy, fleet, now)
<1>1. /\ policy # <<>> /\ exit = "none" /\ UNCHANGED <<policy, fleet, now, exit>>
      /\ remaining = {} /\ selected = {} /\ deferred = {}
      /\ selected' = {} /\ deferred' = {} /\ planned' = planned
      /\ ringsTaken' = ringsTaken + 1 /\ ringsTaken < Len(policy.ringOrder)
      /\ batchNumber' = 1
  BY DEF TakeRing, RingDone
<1>2. remaining' = {c \in E : c.ring = policy.ringOrder[ringsTaken + 1]}
  BY DEF TakeRing, Eligible, EligibleOf, Clusters
<1>3. PlanFrom(policy, E) /\ PlanInv(policy, E, ringsTaken, {}, {}, {}, planned)
  BY <1>1, Planning
<1>4. Len(planned) \in Nat
  BY <1>3, PlanTyped
<1> HIDE DEF E
<1>5. PlanInv(policy, E, ringsTaken', remaining', selected', deferred', planned')
  BY <1>1, <1>2, <1>3, TakeRingKeeps
<1>6. batchNumber' \in 0..(Len(planned') + 1)
  BY <1>1, <1>4
<1>7. QED
  BY <1>1, <1>5, <1>6, LoopStep DEF E

LEMMA ConsiderClusterStep == ASSUME RolloutInv, ConsiderCluster PROVE RolloutInv'
<1> DEFINE E == EligibleOf(policy, fleet, now)
           c == CHOOSE x \in remaining : \A y \in remaining \ {x} : SortsBefore(x, y)
<1>1. /\ exit = "none" /\ remaining # {}
      /\ UNCHANGED <<policy, fleet, now, exit>>
      /\ planned' = planned /\ ringsTaken' = ringsTaken /\ batchNumber' = batchNumber
  BY DEF ConsiderCluster
<1>2. /\ remaining' = remaining \ {c}
      /\ IF Joins(selected, c)
         THEN selected' = selected \cup {c} /\ deferred' = deferred
         ELSE deferred' = deferred \cup {c} /\ selected' = selected
  BY DEF ConsiderCluster
<1>3. policy # <<>>
  BY <1>1 DEF RolloutInv, RingDone
<1>4. /\ PlanFrom(policy, E)
      /\ PlanInv(policy, E, ringsTaken, remaining, selected, deferred, planned)
  BY <1>1, <1>3, Planning
<1>5. Len(planned) \in Nat
  BY <1>4, PlanTyped
<1> HIDE DEF E
<1>6. remaining \subseteq E
  BY <1>4 DEF PlanInv, RingInv
<1>7. \E x \in remaining : \A y \in remaining \ {x} : SortsBefore(x, y)
  BY <1>1, <1>4, <1>6, FirstSorted
<1>8. c \in remaining
  BY <1>7
<1> HIDE DEF c
<1>9. PlanInv(policy, E, ringsTaken', remaining', selected', deferred', planned')
  <2>1. CASE Joins(selected, c)
    <3>1. JoinsIn(policy, selected, c)
      BY <2>1, JoinsByPolicy
    <3>2. PlanInv(policy, E, ringsTaken, remaining \ {c}, selected \cup {c}, deferred, planned)
      BY <1>4, <1>8, <3>1, ConsiderKeeps
    <3>3. QED
      BY <1>1, <1>2, <2>1, <3>2
  <2>2. CASE ~Joins(selected, c)
    <3>1. ~JoinsIn(policy, selected, c)
      BY <2>2, JoinsByPolicy
    <3>2. PlanInv(policy, E, ringsTaken, remaining \ {c}, selected, deferred \cup {c}, planned)
      BY <1>4, <1>8, <3>1, ConsiderKeeps
    <3>3. QED
      BY <1>1, <1>2, <2>2, <3>2
  <2>3. QED
    BY <2>1, <2>2
<1>10. batchNumber' \in 0..(Len(planned') + 1)
  BY <1>1 DEF RolloutInv, RolloutTypeOK
<1>11. QED
  BY <1>1, <1>3, <1>9, <1>10, LoopStep DEF E

LEMMA CreateBatchStep == ASSUME RolloutInv, CreateBatch PROVE RolloutInv'
<1> DEFINE E == EligibleOf(policy, fleet, now)
           b == [ring |-> policy.ringOrder[ringsTaken], number |-> batchNumber,
                 members |-> selected]
<1>1. /\ exit = "none" /\ remaining = {} /\ selected \cup deferred # {}
      /\ UNCHANGED <<policy, fleet, now>> /\ ringsTaken' = ringsTaken
  BY DEF CreateBatch, RingDone
<1>2. policy # <<>>
  BY <1>1 DEF RolloutInv, RingDone
<1>3. /\ PlanFrom(policy, E)
      /\ PlanInv(policy, E, ringsTaken, {}, selected, deferred, planned)
  BY <1>1, <1>2, Planning
<1>4. Len(planned) \in Nat
  BY <1>3, PlanTyped
<1>5. batchNumber \in Nat /\ batchNumber <= Len(planned) + 1
  BY <1>4 DEF RolloutInv, RolloutTypeOK
<1> HIDE DEF E
<1>6. /\ selected # {}
      /\ PlanInv(policy, E, ringsTaken, deferred, {}, {}, Append(planned, b))
  BY <1>1, <1>3, <1>5, CreateKeeps
<1>7. /\ planned' = Append(planned, b) /\ batchNumber' = batchNumber + 1
      /\ remaining' = deferred /\ selected' = {} /\ deferred' = {} /\ exit' = exit
  BY <1>6 DEF CreateBatch
<1>8. Len(Append(planned, b)) = Len(planned) + 1
  <2>1. planned \in Seq([ring : Nat, number : Nat, members : SUBSET E])
    BY <1>3 DEF PlanInv, BatchesInv
  <2>2. QED
    BY <2>1
<1> HIDE DEF b
<1>9. batchNumber' \in 0..(Len(planned') + 1)
  BY <1>4, <1>5, <1>7, <1>8
<1>10. PlanInv(policy, E, ringsTaken', remaining', selected', deferred', planned')
  BY <1>1, <1>6, <1>7
<1>11. QED
  BY <1>1, <1>2, <1>7, <1>9, <1>10, LoopStep DEF E

LEMMA PrintPlanStep == ASSUME RolloutInv, PrintPlan PROVE RolloutInv'
<1>1. /\ policy # <<>> /\ exit = "none" /\ RingDone /\ ringsTaken = Len(policy.ringOrder)
      /\ exit' \in {"NO_PLAN", "PLANNED"}
      /\ UNCHANGED <<policy, fleet, now, ringsTaken, remaining, selected, deferred,
                     batchNumber, planned>>
  BY DEF PrintPlan, batchVars
<1>2. RolloutTypeOK'
  BY <1>1 DEF RolloutInv, RolloutTypeOK, Clusters
<1>3. QED
  BY <1>1, <1>2 DEF RolloutInv, RingDone

LEMMA RolloutStep ==
    ASSUME RolloutInv, RolloutNext \/ UNCHANGED rolloutVars
    PROVE  RolloutInv'
<1>1. CASE ReadInputs
  BY <1>1, ReadInputsStep
<1>2. CASE TakeRing
  BY <1>2, TakeRingStep
<1>3. CASE ConsiderCluster
  BY <1>3, ConsiderClusterStep
<1>4. CASE CreateBatch
  BY <1>4, CreateBatchStep
<1>5. CASE PrintPlan
  BY <1>5, PrintPlanStep
<1>6. CASE UNCHANGED rolloutVars
  BY <1>6 DEF rolloutVars, batchVars, RolloutInv, RolloutTypeOK, Clusters, RingDone
<1>7. QED
  BY <1>1, <1>2, <1>3, <1>4, <1>5, <1>6 DEF RolloutNext

\* Hours counted around the clock.
LEMMA Clock ==
    /\ \A n \in 0..46 : n % 24 = IF n < 24 THEN n ELSE n - 24
    /\ \A t \in Nat : t % 24 \in 0..23
<1>1. \A n \in 0..46 : n % 24 = IF n < 24 THEN n ELSE n - 24
  BY Z3
<1>2. \A t \in Nat : t % 24 \in 0..23
  BY Z3
<1>3. QED
  BY <1>1, <1>2

\* within_maintenance_window: the window is its hours.
LEMMA WindowIsItsHours ==
    ASSUME NEW t \in Nat, NEW s \in 0..23, NEW d \in 1..24
    PROVE  WithinMaintenanceWindow(t, s, d)
                <=> \E k \in 0..(d - 1) : t % 24 = (s + k) % 24
<1> DEFINE h == t % 24
<1>1. h \in 0..23
  BY Clock
<1> HIDE DEF h
<1>2. \A k \in 0..(d - 1) : (s + k) % 24 = IF s + k < 24 THEN s + k ELSE s + k - 24
  <2>1. \A k \in 0..(d - 1) : s + k \in 0..46
    OBVIOUS
  <2>2. QED
    BY <2>1, Clock
<1>3. s + d < 24 => (s + d) % 24 = s + d
  <2>1. s + d < 24 => s + d \in 0..46
    OBVIOUS
  <2>2. QED
    BY <2>1, Clock
<1>4. s + d >= 24 /\ d # 24 => (s + d) % 24 = s + d - 24
  <2>1. s + d >= 24 /\ d # 24 => s + d \in 0..46
    OBVIOUS
  <2>2. QED
    BY <2>1, Clock
<1>5. WithinMaintenanceWindow(t, s, d)
        <=> \/ d = 24
            \/ s <= h /\ h < s + d
            \/ h < s + d - 24
  BY <1>1, <1>3, <1>4 DEF WithinMaintenanceWindow, h
<1>6. (\E k \in 0..(d - 1) : h = (s + k) % 24)
        <=> \/ s <= h /\ h < s + d
            \/ h < s + d - 24
  <2>1. ASSUME NEW k \in 0..(d - 1), h = (s + k) % 24
        PROVE  (s <= h /\ h < s + d) \/ h < s + d - 24
    BY <1>2, <2>1
  <2>2. ASSUME s <= h, h < s + d PROVE \E k \in 0..(d - 1) : h = (s + k) % 24
    <3>1. h - s \in 0..(d - 1) /\ s + (h - s) = h
      BY <1>1, <2>2
    <3>2. (s + (h - s)) % 24 = h
      BY <1>1, <1>2, <3>1
    <3>3. QED
      BY <3>1, <3>2
  <2>3. ASSUME h < s + d - 24 PROVE \E k \in 0..(d - 1) : h = (s + k) % 24
    <3>1. h - s + 24 \in 0..(d - 1) /\ s + (h - s + 24) = h + 24
      BY <1>1, <2>3
    <3>2. (s + (h - s + 24)) % 24 = h
      BY <1>1, <1>2, <3>1
    <3>3. QED
      BY <3>1, <3>2
  <2>4. QED
    BY <2>1, <2>2, <2>3
<1>7. d = 24 => (s <= h /\ h < s + d) \/ h < s + d - 24
  BY <1>1
<1>8. QED
  BY <1>5, <1>6, <1>7 DEF h

\* decide_cluster: who is eligible may roll out, and no other.
LEMMA EligibleMayRollOut ==
    ASSUME RolloutInv, policy # <<>>, exit # "ERROR", NEW c \in Clusters
    PROVE  c \in EligibleOf(policy, fleet, now) <=> MayRollOut(c)
<1>1. /\ fleet \in Seq(Fleet) /\ now \in Nat /\ policy \in Policies
      /\ InputsAccepted(policy, fleet, now)
  BY RolloutAssumption DEF RolloutAssumption, RolloutInv, RolloutTypeOK
<1>2. PICK i \in DOMAIN fleet : c = fleet[i]
  BY DEF Clusters, ToSet
<1>3. c \in Fleet /\ ClusterAccepted(policy, c, now)
  BY <1>1, <1>2 DEF InputsAccepted
<1>4. /\ c.fit \in BOOLEAN /\ c.conformance \in Nat
      /\ c.start \in 0..23 /\ c.duration \in 1..24
  BY <1>3, RolloutAssumption DEF RolloutAssumption, ClusterAccepted
<1>5. policy.maximumAge \in Nat /\ policy.requireWindow \in BOOLEAN
  BY <1>1, PolicyTyped
<1>6. now - c.conformance > policy.maximumAge <=> ~(now <= c.conformance + policy.maximumAge)
  BY <1>1, <1>4, <1>5
<1>7. WithinMaintenanceWindow(now, c.start, c.duration)
        <=> \E k \in 0..(c.duration - 1) : now % 24 = (c.start + k) % 24
  BY <1>1, <1>4, WindowIsItsHours
<1>8. Status(policy, c, now) = "ELIGIBLE"
        <=> /\ c.fit /\ ~(now - c.conformance > policy.maximumAge)
            /\ policy.requireWindow => WithinMaintenanceWindow(now, c.start, c.duration)
  BY <1>4, <1>5 DEF Status
<1>9. QED
  BY <1>6, <1>7, <1>8 DEF MayRollOut, EligibleOf, Clusters

\* The clusters of a finished plan are each in one batch.
LEMMA EachOnce ==
    ASSUME NEW p, NEW E, PlanFrom(p, E), NEW pl,
           PlanInv(p, E, Len(p.ringOrder), {}, {}, {}, pl), NEW c
    PROVE  Cardinality({k \in 1..Len(pl) : c \in pl[k].members}) = IF c \in E THEN 1 ELSE 0
<1> DEFINE K == {k \in 1..Len(pl) : c \in pl[k].members}
<1>1. Len(pl) \in Nat
  BY DEF PlanInv, BatchesInv
<1>2. CASE c \in E
  <2>1. RingIndex(p, c.ring) \in 1..Len(p.ringOrder)
    BY <1>2, IndexOfRing DEF PlanFrom
  <2>2. RingIndex(p, c.ring) <= Len(p.ringOrder)
    BY <2>1
  <2>3. PICK k \in 1..Len(pl) : c \in pl[k].members
    BY <1>2, <2>2 DEF PlanInv, RingInv
  <2>4. \A j \in 1..Len(pl) : c \in pl[j].members => j = k
    <3>1. \A i, j \in 1..Len(pl) : i < j => pl[i].members \cap pl[j].members = {}
      BY DEF PlanInv, BatchesInv
    <3>2. \A j \in 1..Len(pl) : j < k \/ k < j \/ j = k
      BY <1>1
    <3>3. QED
      BY <2>3, <3>1, <3>2
  <2>5. K = {k}
    BY <2>3, <2>4
  <2> HIDE DEF K
  <2>6. Cardinality(K) = 1
    BY <2>5, FS_Singleton
  <2>7. QED
    BY <1>2, <2>6 DEF K
<1>3. CASE c \notin E
  <2>1. \A k \in 1..Len(pl) : pl[k].members \subseteq E
    BY DEF PlanInv, BatchesInv, BatchSound
  <2>2. K = {}
    BY <1>3, <2>1
  <2> HIDE DEF K
  <2>3. Cardinality(K) = 0
    BY <2>2, FS_EmptySet
  <2>4. QED
    BY <1>3, <2>3 DEF K
<1>4. QED
  BY <1>2, <1>3

LEMMA RolloutInvMeans == ASSUME RolloutInv PROVE PlanSound
<1> DEFINE E == EligibleOf(policy, fleet, now)
<1>1. ASSUME exit \in {"NO_PLAN", "PLANNED"}
      PROVE  /\ policy # <<>> /\ exit # "ERROR" /\ policy \in Policies
             /\ InputsAccepted(policy, fleet, now)
             /\ PlanFrom(policy, E)
             /\ PlanInv(policy, E, Len(policy.ringOrder), {}, {}, {}, planned)
  <2>1. policy # <<>> /\ exit # "ERROR" /\ RingDone /\ ringsTaken = Len(policy.ringOrder)
    BY <1>1 DEF RolloutInv
  <2>2. InputsAccepted(policy, fleet, now)
    BY <2>1 DEF RolloutInv
  <2>3. QED
    BY <2>1, <2>2, Planning DEF RingDone
<1>2. E \subseteq Clusters
  BY DEF EligibleOf, Clusters
<1>3. ASSUME exit \in {"NO_PLAN", "PLANNED"}, NEW c \in Clusters
      PROVE  Cardinality({k \in DOMAIN planned : c \in Members(k)})
                = IF MayRollOut(c) THEN 1 ELSE 0
  <2>1. DOMAIN planned = 1..Len(planned)
    BY <1>1, <1>3 DEF PlanInv, BatchesInv
  <2>2. {k \in DOMAIN planned : c \in Members(k)}
            = {k \in 1..Len(planned) : c \in planned[k].members}
    BY <2>1 DEF Members
  <2>3. c \in E <=> MayRollOut(c)
    BY <1>1, <1>3, EligibleMayRollOut
  <2> HIDE DEF E
  <2>4. Cardinality({k \in 1..Len(planned) : c \in planned[k].members})
            = IF c \in E THEN 1 ELSE 0
    BY <1>1, <1>3, EachOnce
  <2>5. QED
    BY <2>2, <2>3, <2>4
<1> HIDE DEF E
<1>4. ASSUME exit \in {"NO_PLAN", "PLANNED"}
      PROVE  /\ DOMAIN planned = 1..Len(planned) /\ Len(planned) \in Nat
             /\ \A k \in 1..Len(planned) :
                    /\ BatchSound(policy, E, Len(policy.ringOrder), planned[k])
                    /\ RingIndex(policy, planned[k].ring) \in Nat
  <2>1. /\ planned \in Seq([ring : Nat, number : Nat, members : SUBSET E])
        /\ \A k \in 1..Len(planned) :
                BatchSound(policy, E, Len(policy.ringOrder), planned[k])
    BY <1>1, <1>4 DEF PlanInv, BatchesInv
  <2>2. \A k \in 1..Len(planned) :
            RingIndex(policy, planned[k].ring) \in 1..Len(policy.ringOrder)
    BY <1>1, <1>4, <2>1, BatchRing
  <2>3. DOMAIN planned = 1..Len(planned) /\ Len(planned) \in Nat
    BY <2>1
  <2>4. \A k \in 1..Len(planned) : RingIndex(policy, planned[k].ring) \in Nat
    BY <2>2
  <2>5. QED
    BY <2>1, <2>3, <2>4
<1>5. ASSUME exit \in {"NO_PLAN", "PLANNED"}, NEW k \in DOMAIN planned
      PROVE  /\ Cardinality(Members(k)) \in 1..policy.maximumBatchSize
             /\ \A c \in Members(k) :
                    /\ c \in Clusters /\ c.ring = planned[k].ring
                    /\ Cardinality(InDomain(Members(k), c.failureDomain))
                            <= policy.maximumPerFailureDomain
  <2>1. BatchSound(policy, E, Len(policy.ringOrder), planned[k])
    BY <1>4, <1>5
  <2> DEFINE m == Members(k)
  <2>2. m = planned[k].members
    BY DEF Members
  <2> HIDE DEF m
  <2>3. /\ m \subseteq E /\ m # {} /\ Within(policy, m)
        /\ \A c \in m : c.ring = planned[k].ring
    BY <2>1, <2>2 DEF BatchSound
  <2>4. IsFiniteSet(m) /\ Cardinality(m) \in Nat /\ Cardinality(m) # 0
    <3>1. IsFiniteSet(m)
      BY <1>1, <1>5, <2>3, FS_Subset DEF PlanFrom
    <3>2. QED
      BY <2>3, <3>1, FS_CardinalityType, FS_EmptySet
  <2>5. policy.maximumBatchSize \in Nat
    BY <1>1, <1>5, PolicyTyped
  <2>6. Cardinality(m) \in 1..policy.maximumBatchSize
    BY <2>3, <2>4, <2>5 DEF Within
  <2>7. \A d : InDomain(m, d) = SameDomain(m, d)
    BY DEF InDomain, SameDomain
  <2>8. QED
    BY <1>2, <2>3, <2>6, <2>7 DEF Within, m
<1>6. ASSUME exit \in {"NO_PLAN", "PLANNED"}, NEW j \in DOMAIN planned, NEW k \in DOMAIN planned,
             j < k, planned[j].ring = planned[k].ring
      PROVE  \A c \in Members(k) : ~Joins(Members(j), c)
  <2>1. \A c \in planned[k].members : ~JoinsIn(policy, planned[j].members, c)
    BY <1>1, <1>4, <1>6 DEF PlanInv, BatchesInv
  <2>2. QED
    BY <2>1, JoinsByPolicy DEF Members
<1>7. ASSUME exit \in {"NO_PLAN", "PLANNED"}, NEW j \in DOMAIN planned, NEW k \in DOMAIN planned,
             planned[k].ring \in DOMAIN policy.predecessors,
             planned[j].ring \in policy.predecessors[planned[k].ring]
      PROVE  j < k
  <2>1. RingIndex(policy, planned[j].ring) < RingIndex(policy, planned[k].ring)
    BY <1>1, <1>7 DEF InputsAccepted, PolicyAccepted
  <2>2. j \in 1..Len(planned) /\ k \in 1..Len(planned)
    BY <1>4, <1>7
  <2>3. k < j => RingIndex(policy, planned[k].ring) <= RingIndex(policy, planned[j].ring)
    BY <1>1, <1>7, <2>2 DEF PlanInv, BatchesInv
  <2>4. RingIndex(policy, planned[j].ring) \in Nat /\ RingIndex(policy, planned[k].ring) \in Nat
    BY <1>4, <1>7, <2>2
  <2>5. ~(k < j) /\ j # k
    BY <2>1, <2>3, <2>4
  <2>6. QED
    BY <1>4, <1>7, <2>2, <2>5
<1>8. exit = "ERROR" => ~InputsAccepted(policy, fleet, now)
  BY DEF RolloutInv
<1>9. QED
  BY <1>3, <1>5, <1>6, <1>7, <1>8 DEF PlanSound

-----------------------------------------------------------------------------
(* Any of the labs.                                                        *)

PlannersInv == AdmissionInv /\ TelemetryInv /\ RolloutInv /\ CapacityInv /\ RetryInv

LEMMA PlannersInvariant == Spec => []PlannersInv
<1>1. Init => PlannersInv
  BY AdmissionInitInv, TelemetryInitInv, RolloutInitInv, CapacityInitInv, RetryInitInv
  DEF Init, PlannersInv
<1>2. PlannersInv /\ [Next]_<<lab, plannersVars>> => PlannersInv'
  <2> SUFFICES ASSUME PlannersInv, [Next]_<<lab, plannersVars>> PROVE PlannersInv'
    OBVIOUS
  <2>1. /\ AdmissionNext \/ UNCHANGED admissionVars
        /\ TelemetryNext \/ UNCHANGED telemetryVars
        /\ RolloutNext \/ UNCHANGED rolloutVars
        /\ CapacityNext \/ UNCHANGED capacityVars
        /\ RetryNext \/ UNCHANGED retryVars
    BY DEF Next, plannersVars
  <2>2. AdmissionInv'
    BY <2>1, AdmissionStep DEF PlannersInv
  <2>3. TelemetryInv'
    BY <2>1, TelemetryStep DEF PlannersInv
  <2>4. RolloutInv'
    BY <2>1, RolloutStep DEF PlannersInv
  <2>5. CapacityInv'
    BY <2>1, CapacityStep DEF PlannersInv
  <2>6. RetryInv'
    BY <2>1, RetryStep DEF PlannersInv
  <2>7. QED
    BY <2>2, <2>3, <2>4, <2>5, <2>6 DEF PlannersInv
<1>3. QED
  BY <1>1, <1>2, PTL DEF Spec

\* AdmissionController.admit: whatever the batch and the limits, a request is admitted
\* exactly when its work fits behind the admitted requests that go before it, and the
\* report of a batch without repeated ids says so of every request.
THEOREM AdmittedByUrgency == Spec => []AdmissionByUrgency
<1>1. PlannersInv => AdmissionByUrgency
  BY DEF PlannersInv, AdmissionInv
<1>2. QED
  BY <1>1, PlannersInvariant, PTL

\* TelemetryCollector.ingest: whatever the batch and the limits, an item is dropped only
\* for its labels, or because it does not fit behind the accepted items that are at least
\* as urgent, and the report accounts for every unit.
THEOREM LossIsByPolicy == Spec => []LossOnlyByPolicy
<1>1. PlannersInv => LossOnlyByPolicy
  BY DEF PlannersInv, TelemetryInv
<1>2. QED
  BY <1>1, PlannersInvariant, PTL

\* plan_rollout.py main: whatever the policies and the fleet, a plan that is printed
\* holds every cluster that may roll out exactly once and no other, within the limits,
\* with no batch left short and the rings that must succeed first before the others; and
\* inputs that are accepted never end in the no-progress error of create_batches.
THEOREM PlansAreSound == Spec => []PlanSound
<1>1. PlannersInv => PlanSound
  BY RolloutInvMeans DEF PlannersInv
<1>2. QED
  BY <1>1, PlannersInvariant, PTL

\* run_scenario: for any inputs, the recovery time reported is the first at which the
\* ready pods serve the demand, none is reported exactly when there is none, and the HPA
\* keeps to its limits.
THEOREM RecoveryReportedEarliest == Spec => []RecoveryIsEarliest
<1>1. PlannersInv => RecoveryIsEarliest
  BY DEF PlannersInv, CapacityInv
<1>2. QED
  BY <1>1, PlannersInvariant, PTL

\* simulate_request and run: along a chain of any length, a layer is called at most as
\* often as layered_retry_attempts says, exactly that often when the request fails, and
\* the totals of a run lie within what its requests can have caused.
THEOREM AttemptsMultiply == Spec => []AttemptsMatchFormula
<1>1. PlannersInv => AttemptsMatchFormula
  BY RetryInvMeans DEF PlannersInv
<1>2. QED
  BY <1>1, PlannersInvariant, PTL

\* The counters of every lab agree with the work done, for any inputs: the units counted
\* are those of what was admitted or accepted, a batch number follows the batches, the
\* calls of the retry chain nest no deeper than its layers.
THEOREM PlannersTyped == Spec => []TypeOK
<1>1. PlannersInv => TypeOK
  BY RetryInvMeans
  DEF PlannersInv, TypeOK, AdmissionInv, TelemetryInv, RolloutInv, CapacityInv
<1>2. QED
  BY <1>1, PlannersInvariant, PTL

=============================================================================
