-------------------------- MODULE Arithmetic_proofs --------------------------
(***************************************************************************)
(* What the arithmetic's operators do in every field.                      *)
(*                                                                         *)
(* Sums and products (field_sum, field_product) leave open in which order  *)
(* they take the elements: in a commutative monoid they are those of their *)
(* parts, however the indices are divided.  The fold that defines them is  *)
(* a recursive function on the subsets of the indices.  It exists, by      *)
(* induction on the size of the subsets; its value does not depend on the  *)
(* index it chooses, by the same induction; and so it splits.  An          *)
(* operation is a function here (Plus, Times), so that one argument serves *)
(* for both.                                                               *)
(*                                                                         *)
(* On them rest the laws of powers and of geometric sums, what evaluate    *)
(* and compute_linear_polynomial_product compute, and the interpolation on *)
(* a subgroup whose order is a power of two: its powers are the roots of   *)
(* X^n - 1 (RootsOfUnity), by induction from an order to twice the order,  *)
(* which also gives the value of each L_i (BasisValue) and that the values *)
(* w^i are those of X (PowersInterpolate).                                 *)
(*                                                                         *)
(* Transforms need the numbers behind them: what get_msb, the bits of an   *)
(* index and reverse_bits are for every power of two the code can hold     *)
(* (reverse_bits is a sum over a set of bits, so that a bit is split off   *)
(* it like a term of a sum), that the rows of compute_lookup_table_single  *)
(* are powers of the root, that the two tables are shared out among the    *)
(* domain's threads, and that a round's butterflies write every place      *)
(* once.  Of the serial FFT: BitReversed copies the element of the higher  *)
(* index over that of the lower, three rounds or more index its table      *)
(* before the first row, and the other two sizes are spelled out.          *)
(***************************************************************************)
EXTENDS Arithmetic, FiniteSetTheorems, TLAPS

(* A set of naturals that is not empty has a least member.                   *)
LEMMA LeastOfNaturals ==
    ASSUME NEW T \in SUBSET Nat, T # {}
    PROVE  \E k \in T : \A j \in T : k <= j
<1> DEFINE R == OpToRel(<, Nat)
<1>1. R = {p \in Nat \X Nat : p[1] < p[2]}
  BY DEF OpToRel
<1>2. IsWellFoundedOn(R, Nat)
  BY NatLessThanWellFounded
<1> HIDE DEF R
<1>3. PICK x \in T : \A y \in T : ~ (<<y, x>> \in R)
  BY <1>2, WFMin
<1>4. \A y \in T : ~ (y < x)
  BY <1>1, <1>3
<1>5. \A y \in T : x <= y
  BY ONLY <1>4, T \in SUBSET Nat, x \in T
<1>6. QED
  BY <1>5

(* Induction over the naturals, of a set instead of an operator.             *)
LEMMA SetInduction ==
    ASSUME NEW T, 0 \in T, \A k \in Nat : k \in T => k + 1 \in T
    PROVE  \A k \in Nat : k \in T
<1> DEFINE C == {k \in Nat : k \notin T}
<1>1. SUFFICES ASSUME C # {} PROVE FALSE
  OBVIOUS
<1>2. PICK k \in C : \A j \in C : k <= j
  BY <1>1, LeastOfNaturals
<1>3. k # 0 /\ k - 1 \in Nat /\ k - 1 \notin C
  BY <1>2
<1>4. QED
  BY <1>2, <1>3

(* Induction over the subsets of a finite set.                               *)
LEMMA SubsetInduction ==
    ASSUME NEW S, IsFiniteSet(S), NEW T, {} \in T,
           \A s \in SUBSET S : \A x \in S \ s : s \in T => s \cup {x} \in T
    PROVE  \A s \in SUBSET S : s \in T
<1> DEFINE Upto == {k \in Nat : \A s \in SUBSET S : Cardinality(s) = k => s \in T}
<1>1. \A s \in SUBSET S : IsFiniteSet(s) /\ Cardinality(s) \in Nat
  BY FS_Subset, FS_CardinalityType
<1>2. 0 \in Upto
  BY <1>1, FS_EmptySet
<1>3. ASSUME NEW k \in Nat, k \in Upto
      PROVE  k + 1 \in Upto
  <2>1. ASSUME NEW s \in SUBSET S, Cardinality(s) = k + 1
        PROVE  s \in T
    <3>0. IsFiniteSet(s) /\ Cardinality(s) # 0
      BY <1>1, <2>1
    <3>1. PICK x : x \in s
      BY <3>0, FS_EmptySet
    <3>2. Cardinality(s \ {x}) = k
      <4>1. Cardinality(s \ {x}) = Cardinality(s) - 1
        BY <3>0, <3>1, FS_RemoveElement
      <4>2. QED
        BY <2>1, <4>1
    <3>3. s \ {x} \in SUBSET S /\ s \ {x} \in T
      BY <1>3, <3>2
    <3>4. x \in S \ (s \ {x}) /\ (s \ {x}) \cup {x} = s
      BY <3>1
    <3>5. QED
      BY <3>3, <3>4
  <2>2. QED
    BY <2>1
<1> HIDE DEF Upto
<1>4. \A k \in Nat : k \in Upto
  BY <1>2, <1>3, SetInduction
<1>5. QED
  BY <1>1, <1>4 DEF Upto

-----------------------------------------------------------------------------
(* Folds in a commutative monoid.                                            *)

Monoid(F, plus, unit) ==
    /\ unit \in F
    /\ \A x, y \in F : plus[<<x, y>>] \in F
    /\ \A x \in F : plus[<<x, unit>>] = x
    /\ \A x, y \in F : plus[<<x, y>>] = plus[<<y, x>>]
    /\ \A x, y, z \in F : plus[<<x, plus[<<y, z>>]>>] = plus[<<plus[<<x, y>>], z>>]

Chosen(s) == CHOOSE i \in s : TRUE

\* The function that a fold over S recurses on, on the subsets in `subsets`.
IsFold(h, plus, unit, f, subsets) ==
    h = [s \in subsets |-> IF s = {} THEN unit
                           ELSE plus[<<f[Chosen(s)], h[s \ {Chosen(s)}]>>]]

SmallSubsets(S, k) == {s \in SUBSET S : Cardinality(s) <= k}

LEMMA FoldExists ==
    ASSUME NEW S, IsFiniteSet(S), NEW plus, NEW unit, NEW f
    PROVE  \E h : IsFold(h, plus, unit, f, SUBSET S)
<1> DEFINE Upto == {k \in Nat : \E h : IsFold(h, plus, unit, f, SmallSubsets(S, k))}
<1>1. \A s \in SUBSET S : IsFiniteSet(s) /\ Cardinality(s) \in Nat
  BY FS_Subset, FS_CardinalityType
<1>2. 0 \in Upto
  <2>1. \A s \in SmallSubsets(S, 0) : s = {}
    BY <1>1, FS_EmptySet DEF SmallSubsets
  <2>2. IsFold([s \in SmallSubsets(S, 0) |-> unit], plus, unit, f, SmallSubsets(S, 0))
    BY <2>1 DEF IsFold
  <2>3. QED
    BY <2>2
<1>3. ASSUME NEW k \in Nat, k \in Upto
      PROVE  k + 1 \in Upto
  <2>1. PICK h : IsFold(h, plus, unit, f, SmallSubsets(S, k))
    BY <1>3
  <2> DEFINE g == [s \in SmallSubsets(S, k + 1) |->
                      IF s = {} THEN unit ELSE plus[<<f[Chosen(s)], h[s \ {Chosen(s)}]>>]]
  <2>2. ASSUME NEW s \in SmallSubsets(S, k + 1), s # {}
        PROVE  /\ s \ {Chosen(s)} \in SmallSubsets(S, k)
               /\ s \ {Chosen(s)} \in SmallSubsets(S, k + 1)
    <3>1. Chosen(s) \in s
      BY <2>2 DEF Chosen
    <3>2. s \in SUBSET S /\ Cardinality(s) <= k + 1
      BY DEF SmallSubsets
    <3>3. s \ {Chosen(s)} \in SUBSET S /\ Cardinality(s \ {Chosen(s)}) = Cardinality(s) - 1
      BY <1>1, <3>1, <3>2, FS_RemoveElement
    <3>4. QED
      BY <1>1, <3>2, <3>3 DEF SmallSubsets
  <2>3. ASSUME NEW t \in SmallSubsets(S, k), t \in SmallSubsets(S, k + 1)
        PROVE  g[t] = h[t]
    BY <2>1, <2>3 DEF IsFold
  <2>4. g = [s \in SmallSubsets(S, k + 1) |->
                IF s = {} THEN unit ELSE plus[<<f[Chosen(s)], g[s \ {Chosen(s)}]>>]]
    <3> HIDE DEF g
    <3>1. ASSUME NEW s \in SmallSubsets(S, k + 1), s # {}
          PROVE  h[s \ {Chosen(s)}] = g[s \ {Chosen(s)}]
      BY <2>2, <2>3, <3>1
    <3>2. QED
      BY <3>1 DEF g
  <2>5. IsFold(g, plus, unit, f, SmallSubsets(S, k + 1))
    BY <2>4 DEF IsFold
  <2>6. QED
    BY <2>5
<1> HIDE DEF Upto
<1>4. Cardinality(S) \in Upto
  BY <1>1, <1>2, <1>3, SetInduction
<1>5. SmallSubsets(S, Cardinality(S)) = SUBSET S
  BY FS_Subset DEF SmallSubsets
<1>6. QED
  BY <1>4, <1>5 DEF Upto

\* h is the fold of f's values over each subset of S.
Folds(F, plus, unit, S, f, h) ==
    /\ Monoid(F, plus, unit)
    /\ IsFiniteSet(S)
    /\ \A i \in S : f[i] \in F
    /\ IsFold(h, plus, unit, f, SUBSET S)

(* Whatever is chosen first, the value is the same.                          *)
LEMMA FoldRemoves ==
    ASSUME NEW F, NEW plus, NEW unit, NEW S, NEW f, NEW h, Folds(F, plus, unit, S, f, h)
    PROVE  /\ h[{}] = unit
           /\ \A s \in SUBSET S :
                 /\ h[s] \in F
                 /\ \A x \in s : h[s] = plus[<<f[x], h[s \ {x}]>>]
<1> DEFINE Holds(s) == /\ h[s] \in F
                       /\ \A x \in s : h[s] = plus[<<f[x], h[s \ {x}]>>]
           Upto == {k \in Nat : \A s \in SUBSET S : Cardinality(s) <= k => Holds(s)}
<1>0. /\ Monoid(F, plus, unit) /\ IsFiniteSet(S)
      /\ \A i \in S : f[i] \in F
      /\ IsFold(h, plus, unit, f, SUBSET S)
  BY DEF Folds
<1>1. \A s \in SUBSET S : IsFiniteSet(s) /\ Cardinality(s) \in Nat
  BY <1>0, FS_Subset, FS_CardinalityType
<1>2. h[{}] = unit
  BY <1>0 DEF IsFold
<1>3. ASSUME NEW s \in SUBSET S, s # {}
      PROVE  h[s] = plus[<<f[Chosen(s)], h[s \ {Chosen(s)}]>>]
  BY <1>0, <1>3 DEF IsFold
<1>4. 0 \in Upto
  <2>1. \A s \in SUBSET S : Cardinality(s) <= 0 => s = {}
    BY <1>1, FS_EmptySet
  <2>2. QED
    BY <1>0, <1>2, <2>1 DEF Monoid
<1>5. ASSUME NEW k \in Nat, k \in Upto
      PROVE  k + 1 \in Upto
  <2>1. ASSUME NEW s \in SUBSET S, Cardinality(s) = k + 1
        PROVE  Holds(s)
    <3>1. IsFiniteSet(s) /\ Cardinality(s) # 0
      BY <1>1, <2>1
    <3>2. s # {} /\ Chosen(s) \in s
      BY <3>1, FS_EmptySet DEF Chosen
    <3>3. \A x \in s : s \ {x} \in SUBSET S /\ Cardinality(s \ {x}) <= k
      <4>1. \A x \in s : Cardinality(s \ {x}) = Cardinality(s) - 1
        BY <3>1, FS_RemoveElement
      <4>2. QED
        BY <2>1, <4>1
    <3>4. \A x \in s : Holds(s \ {x})
      BY <1>5, <3>3
    <3> DEFINE c == Chosen(s)
    <3>5. c \in s /\ h[s] = plus[<<f[c], h[s \ {c}]>>] /\ \A x \in s : f[x] \in F
      BY <1>0, <1>3, <3>2
    <3> HIDE DEF c
    <3>6. h[s] \in F
      BY <1>0, <3>4, <3>5 DEF Monoid
    <3>7. ASSUME NEW x \in s, x # c
          PROVE  h[s] = plus[<<f[x], h[s \ {x}]>>]
      <4> DEFINE rest == h[(s \ {c}) \ {x}]
      <4>1. /\ h[s \ {c}] = plus[<<f[x], rest>>]
            /\ h[s \ {x}] = plus[<<f[c], rest>>]
        <5>1. x \in s \ {c} /\ c \in s \ {x} /\ (s \ {x}) \ {c} = (s \ {c}) \ {x}
          BY <3>5, <3>7
        <5>2. QED
          BY <3>4, <3>5, <5>1
      <4>2. rest \in F
        <5>1. /\ (s \ {c}) \ {x} \in SUBSET S
              /\ Cardinality((s \ {c}) \ {x}) = Cardinality(s \ {c}) - 1
              /\ Cardinality(s \ {c}) \in Nat
          BY <1>1, <3>5, <3>7, FS_RemoveElement
        <5>2. Cardinality((s \ {c}) \ {x}) <= k
          BY <3>3, <3>5, <5>1
        <5>3. QED
          BY <1>5, <5>1, <5>2
      <4> HIDE DEF rest
      <4>3. f[x] \in F /\ f[c] \in F
        BY <3>5
      <4>4. plus[<<f[c], plus[<<f[x], rest>>]>>] = plus[<<f[x], plus[<<f[c], rest>>]>>]
        <5>1. /\ plus[<<f[c], plus[<<f[x], rest>>]>>] = plus[<<plus[<<f[c], f[x]>>], rest>>]
              /\ plus[<<f[x], plus[<<f[c], rest>>]>>] = plus[<<plus[<<f[x], f[c]>>], rest>>]
              /\ plus[<<f[c], f[x]>>] = plus[<<f[x], f[c]>>]
          BY <1>0, <4>2, <4>3 DEF Monoid
        <5>2. QED
          BY <5>1
      <4>5. QED
        BY <3>5, <4>1, <4>4
    <3>8. QED
      BY <3>5, <3>6, <3>7
  <2>2. QED
    BY <1>1, <1>5, <2>1
<1> HIDE DEF Upto
<1>6. \A k \in Nat : k \in Upto
  BY <1>4, <1>5, SetInduction
<1>7. \A s \in SUBSET S : Holds(s)
  BY <1>1, <1>6 DEF Upto
<1>8. QED
  BY <1>2, <1>7

(* A fold over two sets of indices is the sum of the folds.                  *)
LEMMA FoldSplits ==
    ASSUME NEW F, NEW plus, NEW unit, NEW S, NEW f, NEW h, Folds(F, plus, unit, S, f, h),
           NEW A \in SUBSET S, NEW B \in SUBSET S, A \cap B = {}
    PROVE  h[A \cup B] = plus[<<h[A], h[B]>>]
<1> DEFINE T == {s \in SUBSET A : h[s \cup B] = plus[<<h[s], h[B]>>]}
<1>0. /\ h[{}] = unit
      /\ \A s \in SUBSET S : /\ h[s] \in F
                             /\ \A x \in s : h[s] = plus[<<f[x], h[s \ {x}]>>]
  BY FoldRemoves, SMTT(60)
<1>a. Monoid(F, plus, unit) /\ IsFiniteSet(S) /\ \A i \in S : f[i] \in F
  BY DEF Folds
<1>1. h[{}] = unit /\ h[B] \in F /\ \A s \in SUBSET S : h[s] \in F
  BY <1>0
<1>2. IsFiniteSet(A)
  BY <1>a, FS_Subset
<1>3. {} \in T
  <2>1. plus[<<unit, h[B]>>] = h[B]
    BY <1>a, <1>1 DEF Monoid
  <2>2. QED
    BY <1>1, <2>1
<1>4. ASSUME NEW s \in SUBSET A, NEW x \in A \ s, s \in T
      PROVE  s \cup {x} \in T
  <2>1. /\ s \cup {x} \in SUBSET S /\ (s \cup {x}) \cup B \in SUBSET S
        /\ (s \cup {x}) \ {x} = s /\ ((s \cup {x}) \cup B) \ {x} = s \cup B
    OBVIOUS
  <2>a. ASSUME NEW t \in SUBSET S, NEW y \in t
        PROVE  h[t] = plus[<<f[y], h[t \ {y}]>>]
    BY ONLY <1>0
  <2>2. h[s \cup {x}] = plus[<<f[x], h[s]>>]
    <3>1. h[s \cup {x}] = plus[<<f[x], h[(s \cup {x}) \ {x}]>>]
      BY ONLY <2>1, <2>a
    <3> QED
      BY ONLY <2>1, <3>1
  <2>3. h[(s \cup {x}) \cup B] = plus[<<f[x], h[s \cup B]>>]
    <3>1. h[(s \cup {x}) \cup B] = plus[<<f[x], h[((s \cup {x}) \cup B) \ {x}]>>]
      BY ONLY <2>1, <2>a
    <3> QED
      BY ONLY <2>1, <3>1
  <2>4. h[s \cup B] = plus[<<h[s], h[B]>>]
    BY <1>4
  <2>5. f[x] \in F /\ h[s] \in F
    BY <1>a, <1>1
  <2>6. plus[<<f[x], plus[<<h[s], h[B]>>]>>] = plus[<<plus[<<f[x], h[s]>>], h[B]>>]
    BY <1>a, <1>1, <2>5 DEF Monoid
  <2>7. QED
    BY <2>1, <2>2, <2>3, <2>4, <2>6
<1> HIDE DEF T
<1>5. A \in T
  BY <1>2, <1>3, <1>4, SubsetInduction
<1>6. QED
  BY <1>5 DEF T

(* Two functions that recurse alike are equal.                               *)
LEMMA FoldUnique ==
    ASSUME NEW S, IsFiniteSet(S), NEW h, NEW k, h[{}] = k[{}],
           \A s \in SUBSET S :
              s # {} /\ h[s \ {Chosen(s)}] = k[s \ {Chosen(s)}] => h[s] = k[s]
    PROVE  \A s \in SUBSET S : h[s] = k[s]
<1> DEFINE Upto == {i \in Nat : \A s \in SUBSET S : Cardinality(s) = i => h[s] = k[s]}
<1>1. \A s \in SUBSET S : IsFiniteSet(s) /\ Cardinality(s) \in Nat
  BY FS_Subset, FS_CardinalityType
<1>2. 0 \in Upto
  <2>1. \A s \in SUBSET S : Cardinality(s) = 0 => s = {}
    BY <1>1, FS_EmptySet
  <2>2. QED
    BY <2>1
<1>3. ASSUME NEW i \in Nat, i \in Upto
      PROVE  i + 1 \in Upto
  <2>1. ASSUME NEW s \in SUBSET S, Cardinality(s) = i + 1
        PROVE  h[s] = k[s]
    <3>1. IsFiniteSet(s) /\ Cardinality(s) # 0
      BY <1>1, <2>1
    <3>2. s # {} /\ Chosen(s) \in s
      BY <3>1, FS_EmptySet DEF Chosen
    <3>3. Cardinality(s \ {Chosen(s)}) = Cardinality(s) - 1 /\ s \ {Chosen(s)} \in SUBSET S
      BY <3>1, <3>2, FS_RemoveElement
    <3>4. Cardinality(s \ {Chosen(s)}) = i
      BY <2>1, <3>3
    <3>5. h[s \ {Chosen(s)}] = k[s \ {Chosen(s)}]
      BY <1>3, <3>3, <3>4
    <3>6. QED
      BY <3>2, <3>5
  <2>2. QED
    BY <2>1
<1> HIDE DEF Upto
<1>4. \A i \in Nat : i \in Upto
  BY <1>2, <1>3, SetInduction
<1>5. QED
  BY <1>1, <1>4 DEF Upto

-----------------------------------------------------------------------------
(* Sums and products.                                                        *)

Plus(F) == [p \in F \X F |-> field_add(p[1], p[2])]
Times(F) == [p \in F \X F |-> field_mul(p[1], p[2])]

(* field_sum follows the recursion, for each subset of the indices.          *)
LEMMA SumIsFold ==
    ASSUME NEW F, NEW S, NEW f, NEW h, Folds(F, Plus(F), Zero, S, f, h), NEW s \in SUBSET S
    PROVE  field_sum([i \in s |-> f[i]]) = h[s]
<1> DEFINE g == [i \in s |-> f[i]]
           Rec(k) == k = [t \in SUBSET s |->
                             IF t = {} THEN Zero
                             ELSE field_add(g[Chosen(t)], k[t \ {Chosen(t)}])]
<1>1. field_sum(g) = (CHOOSE k : Rec(k))[s]
  BY DEF field_sum, FoldFunction, FoldFunctionOnSet, MapThenFoldSet, Chosen
<1>0. /\ h[{}] = Zero
      /\ \A t \in SUBSET S : /\ h[t] \in F
                             /\ \A x \in t : h[t] = Plus(F)[<<f[x], h[t \ {x}]>>]
  BY FoldRemoves
<1>a. IsFiniteSet(S) /\ \A i \in S : f[i] \in F
  BY DEF Folds
<1>2. \A t \in SUBSET s : h[t] \in F /\ t \in SUBSET S /\ h[{}] = Zero
  BY <1>0
<1>3. ASSUME NEW t \in SUBSET s, t # {}
      PROVE  h[t] = field_add(g[Chosen(t)], h[t \ {Chosen(t)}])
  <2>1. Chosen(t) \in t /\ g[Chosen(t)] = f[Chosen(t)] /\ f[Chosen(t)] \in F
    BY <1>a, <1>3 DEF Chosen
  <2>2. h[t] = Plus(F)[<<f[Chosen(t)], h[t \ {Chosen(t)}]>>]
    BY <1>0, <1>2, <1>3, <2>1
  <2>3. h[t \ {Chosen(t)}] \in F
    BY <1>2
  <2>4. QED
    BY <2>1, <2>2, <2>3 DEF Plus
<1> HIDE DEF g
<1>4. \E k : Rec(k)
  <2> DEFINE k == [t \in SUBSET s |-> h[t]]
  <2>1. k = [t \in SUBSET s |-> IF t = {} THEN Zero
                                ELSE field_add(g[Chosen(t)], k[t \ {Chosen(t)}])]
    BY <1>2, <1>3
  <2>2. QED
    BY <2>1
<1>5. ASSUME NEW k, Rec(k)
      PROVE  k[s] = h[s]
  <2>1. k[{}] = h[{}]
    BY <1>2, <1>5
  <2>2. ASSUME NEW t \in SUBSET s, t # {}, k[t \ {Chosen(t)}] = h[t \ {Chosen(t)}]
        PROVE  k[t] = h[t]
    BY <1>3, <1>5, <2>2
  <2>3. IsFiniteSet(s)
    BY <1>a, FS_Subset
  <2>4. QED
    BY <2>1, <2>2, <2>3, FoldUnique
<1> HIDE DEF Rec
<1>6. QED
  BY <1>1, <1>4, <1>5 DEF g

\* The sum of the values at some indices.
SumOver(f, s) == field_sum([i \in s |-> f[i]])

(* Sums are those of their parts.                                            *)
LEMMA SumLaws ==
    ASSUME NEW F, Monoid(F, Plus(F), Zero), NEW S, IsFiniteSet(S),
           NEW f, \A i \in S : f[i] \in F
    PROVE  /\ SumOver(f, {}) = Zero
           /\ \A s \in SUBSET S : SumOver(f, s) \in F
           /\ \A x \in S : SumOver(f, {x}) = f[x]
           /\ \A A, B \in SUBSET S : A \cap B = {} =>
                 SumOver(f, A \cup B) = field_add(SumOver(f, A), SumOver(f, B))
<1>1. PICK h : Folds(F, Plus(F), Zero, S, f, h)
  BY FoldExists DEF Folds
<1>2. ASSUME NEW s \in SUBSET S
      PROVE  SumOver(f, s) = h[s]
  BY <1>1, SumIsFold DEF SumOver
<1>3. /\ h[{}] = Zero
      /\ \A s \in SUBSET S : /\ h[s] \in F
                             /\ \A x \in s : h[s] = Plus(F)[<<f[x], h[s \ {x}]>>]
  BY <1>1, FoldRemoves
<1>4. \A x, y \in F : Plus(F)[<<x, y>>] = field_add(x, y)
  BY DEF Plus
<1>5. ASSUME NEW x \in S
      PROVE  SumOver(f, {x}) = f[x]
  <2>1. h[{x}] = Plus(F)[<<f[x], Zero>>]
    <3>1. {x} \in SUBSET S /\ x \in {x} /\ {x} \ {x} = {}
      OBVIOUS
    <3>2. QED
      BY <1>3, <3>1
  <2>2. QED
    BY <1>2, <2>1 DEF Monoid
<1>6. ASSUME NEW A \in SUBSET S, NEW B \in SUBSET S, A \cap B = {}
      PROVE  SumOver(f, A \cup B) = field_add(SumOver(f, A), SumOver(f, B))
  <2>1. h[A \cup B] = Plus(F)[<<h[A], h[B]>>]
    BY <1>1, <1>6, FoldSplits
  <2>2. h[A] \in F /\ h[B] \in F /\ A \cup B \in SUBSET S
    BY <1>3
  <2>3. QED
    BY <1>2, <1>4, <2>1, <2>2
<1>7. QED
  BY <1>2, <1>3, <1>5, <1>6

(* field_product follows the recursion, for each subset of the indices.      *)
LEMMA ProductIsFold ==
    ASSUME NEW F, NEW S, NEW f, NEW h, Folds(F, Times(F), One, S, f, h), NEW s \in SUBSET S
    PROVE  field_product([i \in s |-> f[i]]) = h[s]
<1> DEFINE g == [i \in s |-> f[i]]
           Rec(k) == k = [t \in SUBSET s |->
                             IF t = {} THEN One
                             ELSE field_mul(g[Chosen(t)], k[t \ {Chosen(t)}])]
<1>1. field_product(g) = (CHOOSE k : Rec(k))[s]
  BY DEF field_product, FoldFunction, FoldFunctionOnSet, MapThenFoldSet, Chosen
<1>0. /\ h[{}] = One
      /\ \A t \in SUBSET S : /\ h[t] \in F
                             /\ \A x \in t : h[t] = Times(F)[<<f[x], h[t \ {x}]>>]
  BY FoldRemoves
<1>a. IsFiniteSet(S) /\ \A i \in S : f[i] \in F
  BY DEF Folds
<1>2. \A t \in SUBSET s : h[t] \in F /\ t \in SUBSET S /\ h[{}] = One
  BY <1>0
<1>3. ASSUME NEW t \in SUBSET s, t # {}
      PROVE  h[t] = field_mul(g[Chosen(t)], h[t \ {Chosen(t)}])
  <2>1. Chosen(t) \in t /\ g[Chosen(t)] = f[Chosen(t)] /\ f[Chosen(t)] \in F
    BY <1>a, <1>3 DEF Chosen
  <2>2. h[t] = Times(F)[<<f[Chosen(t)], h[t \ {Chosen(t)}]>>]
    BY <1>0, <1>2, <1>3, <2>1
  <2>3. h[t \ {Chosen(t)}] \in F
    BY <1>2
  <2>4. QED
    BY <2>1, <2>2, <2>3 DEF Times
<1> HIDE DEF g
<1>4. \E k : Rec(k)
  <2> DEFINE k == [t \in SUBSET s |-> h[t]]
  <2>1. k = [t \in SUBSET s |-> IF t = {} THEN One
                                ELSE field_mul(g[Chosen(t)], k[t \ {Chosen(t)}])]
    BY <1>2, <1>3
  <2>2. QED
    BY <2>1
<1>5. ASSUME NEW k, Rec(k)
      PROVE  k[s] = h[s]
  <2>1. k[{}] = h[{}]
    BY <1>2, <1>5
  <2>2. ASSUME NEW t \in SUBSET s, t # {}, k[t \ {Chosen(t)}] = h[t \ {Chosen(t)}]
        PROVE  k[t] = h[t]
    BY <1>3, <1>5, <2>2
  <2>3. IsFiniteSet(s)
    BY <1>a, FS_Subset
  <2>4. QED
    BY <2>1, <2>2, <2>3, FoldUnique
<1> HIDE DEF Rec
<1>6. QED
  BY <1>1, <1>4, <1>5 DEF g

\* The product of the values at some indices.
ProductOver(f, s) == field_product([i \in s |-> f[i]])

(* Products are those of their parts.                                        *)
LEMMA ProductLaws ==
    ASSUME NEW F, Monoid(F, Times(F), One), NEW S, IsFiniteSet(S),
           NEW f, \A i \in S : f[i] \in F
    PROVE  /\ ProductOver(f, {}) = One
           /\ \A s \in SUBSET S : ProductOver(f, s) \in F
           /\ \A x \in S : ProductOver(f, {x}) = f[x]
           /\ \A A, B \in SUBSET S : A \cap B = {} =>
                 ProductOver(f, A \cup B) = field_mul(ProductOver(f, A), ProductOver(f, B))
<1>1. PICK h : Folds(F, Times(F), One, S, f, h)
  BY FoldExists DEF Folds
<1>2. ASSUME NEW s \in SUBSET S
      PROVE  ProductOver(f, s) = h[s]
  BY <1>1, ProductIsFold DEF ProductOver
<1>3. /\ h[{}] = One
      /\ \A s \in SUBSET S : /\ h[s] \in F
                             /\ \A x \in s : h[s] = Times(F)[<<f[x], h[s \ {x}]>>]
  BY <1>1, FoldRemoves
<1>4. \A x, y \in F : Times(F)[<<x, y>>] = field_mul(x, y)
  BY DEF Times
<1>5. ASSUME NEW x \in S
      PROVE  ProductOver(f, {x}) = f[x]
  <2>1. h[{x}] = Times(F)[<<f[x], One>>]
    <3>1. {x} \in SUBSET S /\ x \in {x} /\ {x} \ {x} = {}
      OBVIOUS
    <3>2. QED
      BY <1>3, <3>1
  <2>2. QED
    BY <1>2, <2>1 DEF Monoid
<1>6. ASSUME NEW A \in SUBSET S, NEW B \in SUBSET S, A \cap B = {}
      PROVE  ProductOver(f, A \cup B) = field_mul(ProductOver(f, A), ProductOver(f, B))
  <2>1. h[A \cup B] = Times(F)[<<h[A], h[B]>>]
    BY <1>1, <1>6, FoldSplits
  <2>2. h[A] \in F /\ h[B] \in F /\ A \cup B \in SUBSET S
    BY <1>3
  <2>3. QED
    BY <1>2, <1>4, <2>1, <2>2
<1>7. QED
  BY <1>2, <1>3, <1>5, <1>6

-----------------------------------------------------------------------------
(* Fields.                                                                   *)

\* F is a field, with powers to natural exponents.
Field(F) ==
    /\ Monoid(F, Plus(F), Zero) /\ Monoid(F, Times(F), One) /\ One # Zero
    /\ \A x, y, z \in F : field_mul(x, field_add(y, z)) = field_add(field_mul(x, y), field_mul(x, z))
    /\ \A x, y \in F : field_sub(x, y) \in F /\ field_add(field_sub(x, y), y) = x
    /\ \A x \in F \ {Zero} : field_inverse(x) \in F /\ field_mul(x, field_inverse(x)) = One
    /\ \A x \in F : /\ field_pow(x, 0) = One
                    /\ \A k \in Nat : field_pow(x, k + 1) = field_mul(x, field_pow(x, k))

LEMMA AddLaws ==
    ASSUME NEW F, Field(F)
    PROVE  /\ Zero \in F
           /\ \A x, y \in F : field_add(x, y) \in F
           /\ \A x \in F : field_add(x, Zero) = x /\ field_add(Zero, x) = x
           /\ \A x, y \in F : field_add(x, y) = field_add(y, x)
           /\ \A x, y, z \in F : field_add(x, field_add(y, z)) = field_add(field_add(x, y), z)
<1> DEFINE g == Plus(F)
<1>1. \A x, y \in F : g[<<x, y>>] = field_add(x, y)
  BY DEF Plus
<1>2. Monoid(F, g, Zero)
  BY DEF Field
<1> HIDE DEF g
<1>3. /\ Zero \in F
      /\ \A x, y \in F : g[<<x, y>>] \in F
      /\ \A x \in F : g[<<x, Zero>>] = x
      /\ \A x, y \in F : g[<<x, y>>] = g[<<y, x>>]
      /\ \A x, y, z \in F : g[<<x, g[<<y, z>>]>>] = g[<<g[<<x, y>>], z>>]
  BY <1>2 DEF Monoid
<1>4. ASSUME NEW x \in F, NEW y \in F
      PROVE  field_add(x, y) \in F
  <2>1. g[<<x, y>>] \in F
    BY ONLY <1>3
  <2> QED
    BY ONLY <1>1, <2>1
<1>5. ASSUME NEW x \in F
      PROVE  field_add(x, Zero) = x
  <2>1. g[<<x, Zero>>] = x /\ Zero \in F
    BY ONLY <1>3
  <2> QED
    BY ONLY <1>1, <2>1
<1>6. ASSUME NEW x \in F, NEW y \in F
      PROVE  field_add(x, y) = field_add(y, x)
  <2>1. g[<<x, y>>] = g[<<y, x>>] /\ g[<<x, y>>] = field_add(x, y) /\ g[<<y, x>>] = field_add(y, x)
    BY <1>1, <1>3
  <2>2. QED
    BY <2>1
<1>7. ASSUME NEW x \in F, NEW y \in F, NEW z \in F
      PROVE  field_add(x, field_add(y, z)) = field_add(field_add(x, y), z)
  <2>1. /\ field_add(y, z) \in F /\ field_add(x, y) \in F
        /\ g[<<y, z>>] = field_add(y, z) /\ g[<<x, y>>] = field_add(x, y)
    BY <1>1, <1>4
  <2>2. /\ g[<<x, field_add(y, z)>>] = field_add(x, field_add(y, z))
        /\ g[<<field_add(x, y), z>>] = field_add(field_add(x, y), z)
    BY <1>1, <2>1
  <2>3. g[<<x, g[<<y, z>>]>>] = g[<<g[<<x, y>>], z>>]
    <3>1. \A a, b, c \in F : g[<<a, g[<<b, c>>]>>] = g[<<g[<<a, b>>], c>>]
      BY ONLY <1>3
    <3> QED
      BY ONLY <3>1
  <2>4. QED
    BY <2>1, <2>2, <2>3
<1>8. \A x \in F : field_add(Zero, x) = x
  BY <1>3, <1>5, <1>6
<1>9. QED
  BY <1>3, <1>4, <1>5, <1>6, <1>7, <1>8

LEMMA MulLaws ==
    ASSUME NEW F, Field(F)
    PROVE  /\ One \in F
           /\ \A x, y \in F : field_mul(x, y) \in F
           /\ \A x \in F : field_mul(x, One) = x /\ field_mul(One, x) = x
           /\ \A x, y \in F : field_mul(x, y) = field_mul(y, x)
           /\ \A x, y, z \in F : field_mul(x, field_mul(y, z)) = field_mul(field_mul(x, y), z)
<1> DEFINE g == Times(F)
<1>1. \A x, y \in F : g[<<x, y>>] = field_mul(x, y)
  BY DEF Times
<1>2. Monoid(F, g, One)
  BY DEF Field
<1> HIDE DEF g
<1>3. /\ One \in F
      /\ \A x, y \in F : g[<<x, y>>] \in F
      /\ \A x \in F : g[<<x, One>>] = x
      /\ \A x, y \in F : g[<<x, y>>] = g[<<y, x>>]
      /\ \A x, y, z \in F : g[<<x, g[<<y, z>>]>>] = g[<<g[<<x, y>>], z>>]
  BY <1>2 DEF Monoid
<1>4. ASSUME NEW x \in F, NEW y \in F
      PROVE  field_mul(x, y) \in F
  <2>1. g[<<x, y>>] \in F
    BY ONLY <1>3
  <2> QED
    BY ONLY <1>1, <2>1
<1>5. ASSUME NEW x \in F
      PROVE  field_mul(x, One) = x
  <2>1. g[<<x, One>>] = x /\ One \in F
    BY ONLY <1>3
  <2> QED
    BY ONLY <1>1, <2>1
<1>6. ASSUME NEW x \in F, NEW y \in F
      PROVE  field_mul(x, y) = field_mul(y, x)
  <2>1. g[<<x, y>>] = g[<<y, x>>] /\ g[<<x, y>>] = field_mul(x, y) /\ g[<<y, x>>] = field_mul(y, x)
    BY <1>1, <1>3
  <2>2. QED
    BY <2>1
<1>7. ASSUME NEW x \in F, NEW y \in F, NEW z \in F
      PROVE  field_mul(x, field_mul(y, z)) = field_mul(field_mul(x, y), z)
  <2>1. /\ field_mul(y, z) \in F /\ field_mul(x, y) \in F
        /\ g[<<y, z>>] = field_mul(y, z) /\ g[<<x, y>>] = field_mul(x, y)
    BY <1>1, <1>4
  <2>2. /\ g[<<x, field_mul(y, z)>>] = field_mul(x, field_mul(y, z))
        /\ g[<<field_mul(x, y), z>>] = field_mul(field_mul(x, y), z)
    BY <1>1, <2>1
  <2>3. g[<<x, g[<<y, z>>]>>] = g[<<g[<<x, y>>], z>>]
    <3>1. \A a, b, c \in F : g[<<a, g[<<b, c>>]>>] = g[<<g[<<a, b>>], c>>]
      BY ONLY <1>3
    <3> QED
      BY ONLY <3>1
  <2>4. QED
    BY <2>1, <2>2, <2>3
<1>8. \A x \in F : field_mul(One, x) = x
  BY <1>3, <1>5, <1>6
<1>9. QED
  BY <1>3, <1>4, <1>5, <1>6, <1>7, <1>8

(* What follows from the laws: nothing but equals has a difference of Zero,  *)
(* Zero annihilates, and there are no other divisors of Zero.                *)
LEMMA ZeroLaws ==
    ASSUME NEW F, Field(F)
    PROVE  /\ \A x, y, z \in F : field_add(x, z) = field_add(y, z) => x = y
           /\ \A x \in F : field_mul(x, Zero) = Zero /\ field_mul(Zero, x) = Zero
           /\ \A x, y \in F : field_mul(x, y) = Zero => x = Zero \/ y = Zero
           /\ \A x, y \in F : field_sub(x, y) = Zero <=> x = y
           /\ \A x \in F : negated(x) \in F /\ field_add(negated(x), x) = Zero
           /\ \A x, y \in F : field_sub(x, y) = field_add(x, negated(y))
           /\ \A x, y \in F : field_mul(negated(x), y) = negated(field_mul(x, y))
<1>1. /\ Zero \in F
      /\ \A x, y \in F : field_sub(x, y) \in F /\ field_add(field_sub(x, y), y) = x
      /\ \A x \in F \ {Zero} : field_inverse(x) \in F /\ field_mul(x, field_inverse(x)) = One
      /\ \A x, y, z \in F :
            field_mul(x, field_add(y, z)) = field_add(field_mul(x, y), field_mul(x, z))
  BY AddLaws DEF Field
<1>2. \A x \in F : negated(x) \in F /\ field_add(negated(x), x) = Zero
  BY <1>1 DEF negated
<1>3. ASSUME NEW x \in F, NEW y \in F, NEW z \in F, field_add(x, z) = field_add(y, z)
      PROVE  x = y
  <2> DEFINE n == negated(z)
  <2>1. n \in F /\ field_add(z, n) = Zero
    BY <1>2, AddLaws, ZenonT(60)
  <2> HIDE DEF n
  <2>2. /\ field_add(x, field_add(z, n)) = field_add(field_add(x, z), n)
        /\ field_add(y, field_add(z, n)) = field_add(field_add(y, z), n)
    BY <2>1, AddLaws
  <2>3. field_add(x, Zero) = x /\ field_add(y, Zero) = y
    BY AddLaws
  <2>4. QED
    BY <1>3, <2>1, <2>2, <2>3
<1>4. ASSUME NEW x \in F
      PROVE  field_mul(x, Zero) = Zero /\ field_mul(Zero, x) = Zero
  <2> DEFINE p == field_mul(x, Zero)
  <2>1. p \in F /\ field_add(Zero, Zero) = Zero
    BY <1>1, AddLaws, MulLaws
  <2>2. p = field_add(p, p)
    BY <1>1, <2>1
  <2> HIDE DEF p
  <2>3. field_add(p, Zero) = field_add(Zero, p) /\ field_add(p, Zero) = p
    BY <1>1, <2>1, AddLaws
  <2>4. p = Zero
    <3>1. field_add(Zero, p) = field_add(p, p)
      BY <2>2, <2>3
    <3>2. QED
      BY <1>1, <1>3, <2>1, <3>1
  <2>5. QED
    BY <1>1, <2>4, MulLaws DEF p
<1>5. ASSUME NEW x \in F, NEW y \in F, field_mul(x, y) = Zero, x # Zero
      PROVE  y = Zero
  <2> DEFINE i == field_inverse(x)
  <2>1. i \in F /\ field_mul(x, i) = One
    BY <1>1, <1>5
  <2> HIDE DEF i
  <2>2. field_mul(i, field_mul(x, y)) = field_mul(field_mul(i, x), y)
    BY <2>1, MulLaws
  <2>3. field_mul(i, x) = One /\ field_mul(One, y) = y
    BY <2>1, MulLaws
  <2>4. QED
    BY <1>4, <1>5, <2>1, <2>2, <2>3
<1>6. ASSUME NEW x \in F, NEW y \in F
      PROVE  field_sub(x, y) = Zero <=> x = y
  <2>1. field_sub(x, y) \in F /\ field_add(field_sub(x, y), y) = x /\ field_add(Zero, y) = y
    BY <1>1, AddLaws
  <2>2. QED
    BY <1>1, <1>3, <2>1
<1>7. ASSUME NEW x \in F, NEW y \in F
      PROVE  field_sub(x, y) = field_add(x, negated(y))
  <2> DEFINE n == negated(y)
  <2>1. n \in F /\ field_add(n, y) = Zero
    BY <1>2
  <2> HIDE DEF n
  <2>2. field_add(field_add(x, n), y) = field_add(x, field_add(n, y))
    BY <2>1, AddLaws
  <2>3. field_add(field_add(x, n), y) = x
    BY <2>1, <2>2, AddLaws
  <2>4. field_add(x, n) \in F /\ field_sub(x, y) \in F /\ field_add(field_sub(x, y), y) = x
    BY <1>1, <2>1, AddLaws
  <2>5. field_sub(x, y) = field_add(x, n)
    BY <1>3, <2>3, <2>4
  <2>6. QED
    BY <2>5 DEF n
<1>8. ASSUME NEW x \in F, NEW y \in F
      PROVE  field_mul(negated(x), y) = negated(field_mul(x, y))
  <2> DEFINE n == negated(x)
             p == field_mul(x, y)
             np == negated(p)
  <2>1. n \in F /\ field_add(n, x) = Zero /\ p \in F
    BY <1>2, MulLaws
  <2>2. np \in F /\ field_add(np, p) = Zero
    BY <1>2, <2>1
  <2> HIDE DEF n, np
  <2>3. field_mul(y, field_add(n, x)) = field_add(field_mul(y, n), field_mul(y, x))
    BY <1>1, <2>1
  <2>4. field_mul(y, n) = field_mul(n, y) /\ field_mul(y, x) = p /\ field_mul(n, y) \in F
    BY <2>1, MulLaws
  <2>5. field_add(field_mul(n, y), p) = Zero
    BY <1>4, <2>1, <2>3, <2>4
  <2>6. field_mul(n, y) = np
    BY <1>3, <2>1, <2>2, <2>4, <2>5
  <2>7. QED
    BY <2>6 DEF n, np
<1>9. QED
  BY <1>2, <1>3, <1>4, <1>5, <1>6, <1>7, <1>8

(* Exponents add up.                                                         *)
LEMMA PowerLaws ==
    ASSUME NEW F, Field(F), NEW x \in F
    PROVE  /\ \A k \in Nat : field_pow(x, k) \in F
           /\ \A j, k \in Nat : field_mul(field_pow(x, j), field_pow(x, k)) = field_pow(x, j + k)
<1>1. /\ field_pow(x, 0) = One
      /\ \A k \in Nat : field_pow(x, k + 1) = field_mul(x, field_pow(x, k))
  BY DEF Field
<1>2. \A k \in Nat : field_pow(x, k) \in F
  <2> DEFINE T == {k \in Nat : field_pow(x, k) \in F}
  <2>1. 0 \in T
    BY <1>1, MulLaws
  <2>2. \A k \in Nat : k \in T => k + 1 \in T
    BY <1>1, MulLaws
  <2> HIDE DEF T
  <2>3. \A k \in Nat : k \in T
    BY <2>1, <2>2, SetInduction
  <2>4. QED
    BY <2>3 DEF T
<1>3. ASSUME NEW k \in Nat
      PROVE  \A j \in Nat : field_mul(field_pow(x, j), field_pow(x, k)) = field_pow(x, j + k)
  <2> DEFINE T == {j \in Nat : field_mul(field_pow(x, j), field_pow(x, k)) = field_pow(x, j + k)}
             p == field_pow(x, k)
  <2>1. 0 \in T
    <3>1. p \in F /\ field_mul(One, p) = p
      BY <1>2, MulLaws
    <3>2. QED
      BY <1>1, <3>1
  <2>2. ASSUME NEW j \in Nat, j \in T
        PROVE  j + 1 \in T
    <3>1. field_pow(x, j + 1) = field_mul(x, field_pow(x, j))
      BY <1>1
    <3>2. field_pow(x, j) \in F /\ p \in F
      BY <1>2
    <3>3. field_mul(field_mul(x, field_pow(x, j)), p) = field_mul(x, field_mul(field_pow(x, j), p))
      BY <3>2, MulLaws
    <3>4. field_mul(field_pow(x, j), p) = field_pow(x, j + k)
      BY <2>2
    <3>5. field_pow(x, (j + k) + 1) = field_mul(x, field_pow(x, j + k)) /\ (j + k) + 1 = (j + 1) + k
      BY <1>1
    <3>6. QED
      BY <3>1, <3>3, <3>4, <3>5
  <2> HIDE DEF T
  <2>3. \A j \in Nat : j \in T
    BY <2>1, <2>2, SetInduction
  <2>4. QED
    BY <2>3 DEF T
<1>4. QED
  BY <1>2, <1>3

(* A sum over the first naturals grows by a term at a time.                  *)
LEMMA SumUpTo ==
    ASSUME NEW F, Field(F), NEW f, NEW k \in Nat, \A i \in 0 .. k : f[i] \in F
    PROVE  /\ SumOver(f, {}) = Zero
           /\ SumOver(f, 0 .. k - 1) \in F
           /\ SumOver(f, 0 .. k) = field_add(SumOver(f, 0 .. k - 1), f[k])
<1> DEFINE S == 0 .. k
<1>1. IsFiniteSet(S) /\ \A i \in S : f[i] \in F
  BY FS_Interval
<1>2. Monoid(F, Plus(F), Zero)
  BY DEF Field
<1>3. /\ 0 .. k - 1 \in SUBSET S /\ {k} \in SUBSET S /\ k \in S
      /\ (0 .. k - 1) \cap {k} = {} /\ (0 .. k - 1) \cup {k} = S
  OBVIOUS
<1> HIDE DEF S
<1>4. /\ SumOver(f, {}) = Zero
      /\ \A s \in SUBSET S : SumOver(f, s) \in F
      /\ \A x \in S : SumOver(f, {x}) = f[x]
      /\ \A A, B \in SUBSET S : A \cap B = {} =>
            SumOver(f, A \cup B) = field_add(SumOver(f, A), SumOver(f, B))
  BY ONLY <1>1, <1>2, SumLaws
<1>5. SumOver(f, S) = field_add(SumOver(f, 0 .. k - 1), f[k])
  <2>1. \A A, B \in SUBSET S : A \cap B = {} =>
            SumOver(f, A \cup B) = field_add(SumOver(f, A), SumOver(f, B))
    BY ONLY <1>4
  <2>2. SumOver(f, (0 .. k - 1) \cup {k}) = field_add(SumOver(f, 0 .. k - 1), SumOver(f, {k}))
    BY ONLY <1>3, <2>1
  <2>3. SumOver(f, {k}) = f[k]
    BY ONLY <1>3, <1>4
  <2> QED
    BY ONLY <1>3, <2>2, <2>3
<1>6. QED
  BY <1>3, <1>4, <1>5 DEF S

LEMMA SumOfOne ==
    ASSUME NEW F, Field(F), NEW f, f[0] \in F
    PROVE  SumOver(f, {}) = Zero /\ SumOver(f, 0 .. 0) = f[0]
<1>1. PICK k \in Nat : k = 0
  OBVIOUS
<1>2. \A i \in 0 .. k : f[i] \in F
  BY <1>1
<1>3. /\ SumOver(f, {}) = Zero
      /\ SumOver(f, 0 .. k) = field_add(SumOver(f, 0 .. k - 1), f[k])
  BY ONLY <1>1, <1>2, SumUpTo, Field(F), ZenonT(60)
<1>4. field_add(Zero, f[0]) = f[0] /\ 0 .. 0 - 1 = {}
  BY AddLaws
<1>5. QED
  BY <1>1, <1>3, <1>4

LEMMA SumOfTwo ==
    ASSUME NEW F, Field(F), NEW f, f[0] \in F, f[1] \in F
    PROVE  SumOver(f, 0 .. 1) = field_add(f[0], f[1])
<1>1. PICK k \in Nat : k = 1
  OBVIOUS
<1>2. \A i \in 0 .. k : f[i] \in F
  BY <1>1
<1>3. SumOver(f, 0 .. k) = field_add(SumOver(f, 0 .. k - 1), f[k])
  BY ONLY k \in Nat, <1>2, SumUpTo, Field(F)
<1>4. QED
  BY <1>1, <1>3, SumOfOne

(* Powers of products and of powers.                                         *)
LEMMA PowerOfProduct ==
    ASSUME NEW F, Field(F), NEW x \in F, NEW y \in F
    PROVE  \A k \in Nat :
              field_pow(field_mul(x, y), k) = field_mul(field_pow(x, k), field_pow(y, k))
<1> DEFINE xy == field_mul(x, y)
           T == {k \in Nat : field_pow(xy, k) = field_mul(field_pow(x, k), field_pow(y, k))}
<1>1. \A a, b \in F : field_mul(a, b) \in F /\ field_mul(a, b) = field_mul(b, a)
  BY MulLaws
<1>2. \A a, b, c \in F : field_mul(a, field_mul(b, c)) = field_mul(field_mul(a, b), c)
  BY MulLaws
<1>3. xy \in F /\ One \in F /\ field_mul(One, One) = One
  BY MulLaws
<1>4. \A a \in F : /\ field_pow(a, 0) = One
                   /\ \A k \in Nat : /\ field_pow(a, k + 1) = field_mul(a, field_pow(a, k))
                                     /\ field_pow(a, k) \in F
  BY PowerLaws DEF Field
<1>5. 0 \in T
  BY <1>3, <1>4
<1>6. ASSUME NEW k \in Nat, k \in T
      PROVE  k + 1 \in T
  <2> DEFINE p == field_pow(x, k)
             q == field_pow(y, k)
  <2>1. p \in F /\ q \in F /\ field_pow(xy, k) = field_mul(p, q)
    BY <1>4, <1>6
  <2>2. /\ field_pow(xy, k + 1) = field_mul(xy, field_pow(xy, k))
        /\ field_pow(x, k + 1) = field_mul(x, p) /\ field_pow(y, k + 1) = field_mul(y, q)
    BY <1>3, <1>4
  <2> HIDE DEF p, q
  <2>3. field_mul(field_mul(x, y), field_mul(p, q)) = field_mul(field_mul(x, p), field_mul(y, q))
    <3>1. field_mul(field_mul(x, y), field_mul(p, q)) = field_mul(x, field_mul(y, field_mul(p, q)))
      BY <1>1, <1>2, <2>1
    <3>2. field_mul(y, field_mul(p, q)) = field_mul(p, field_mul(y, q))
      <4>1. /\ field_mul(y, field_mul(p, q)) = field_mul(field_mul(y, p), q)
            /\ field_mul(p, field_mul(y, q)) = field_mul(field_mul(p, y), q)
        BY <1>2, <2>1
      <4>2. field_mul(y, p) = field_mul(p, y)
        BY <1>1, <2>1
      <4>3. QED
        BY <4>1, <4>2
    <3>3. field_mul(x, field_mul(p, field_mul(y, q))) = field_mul(field_mul(x, p), field_mul(y, q))
      BY <1>1, <1>2, <2>1
    <3>4. QED
      BY <3>1, <3>2, <3>3
  <2>4. QED
    BY <2>1, <2>2, <2>3
<1> HIDE DEF T
<1>7. \A k \in Nat : k \in T
  BY <1>5, <1>6, SetInduction
<1>8. QED
  BY <1>7 DEF T

LEMMA PowerOfPower ==
    ASSUME NEW F, Field(F), NEW x \in F, NEW j \in Nat
    PROVE  \A k \in Nat : field_pow(field_pow(x, j), k) = field_pow(x, j * k)
<1> DEFINE T == {k \in Nat : field_pow(field_pow(x, j), k) = field_pow(x, j * k)}
           p == field_pow(x, j)
<1>1. p \in F
  BY PowerLaws
<1>2. 0 \in T
  <2>1. field_pow(p, 0) = One /\ field_pow(x, 0) = One
    BY <1>1 DEF Field
  <2>2. j * 0 = 0
    OBVIOUS
  <2>3. QED
    BY <2>1, <2>2
<1>3. ASSUME NEW k \in Nat, k \in T
      PROVE  k + 1 \in T
  <2>1. field_pow(p, k + 1) = field_mul(p, field_pow(p, k))
    BY <1>1 DEF Field
  <2>2. field_pow(p, k) = field_pow(x, j * k)
    BY <1>3
  <2>3. j * k \in Nat /\ j * (k + 1) = j + j * k
    OBVIOUS
  <2>4. field_mul(p, field_pow(x, j * k)) = field_pow(x, j + j * k)
    BY <2>3, PowerLaws
  <2>5. QED
    BY <2>1, <2>2, <2>3, <2>4
<1> HIDE DEF T
<1>4. \A k \in Nat : k \in T
  BY <1>2, <1>3, SetInduction
<1>5. QED
  BY <1>4 DEF T

LEMMA PowerOfOne ==
    ASSUME NEW F, Field(F)
    PROVE  \A k \in Nat : field_pow(One, k) = One
<1> DEFINE T == {k \in Nat : field_pow(One, k) = One}
<1>1. One \in F /\ field_mul(One, One) = One
  BY MulLaws
<1>2. 0 \in T /\ \A k \in Nat : k \in T => k + 1 \in T
  BY <1>1 DEF Field
<1> HIDE DEF T
<1>3. \A k \in Nat : k \in T
  BY <1>2, SetInduction
<1>4. QED
  BY <1>3 DEF T

(* The first power.                                                          *)
LEMMA PowerOfOneIsIt ==
    ASSUME NEW F, Field(F), NEW x \in F
    PROVE  field_pow(x, 1) = x
<1>1. field_pow(x, 0) = One /\ field_pow(x, 0 + 1) = field_mul(x, field_pow(x, 0))
  BY DEF Field
<1>2. field_mul(x, One) = x
  BY MulLaws
<1> QED
  BY <1>1, <1>2

(* (y - 1) (1 + y + ... + y^(n-1)) = y^n - 1.                                *)
LEMMA GeometricSum ==
    ASSUME NEW F, Field(F), NEW y \in F
    PROVE  \A n \in Nat :
              LET f == [x \in Nat |-> field_pow(y, x)]
              IN  /\ SumOver(f, 0 .. n - 1) \in F
                  /\ field_mul(field_sub(y, One), SumOver(f, 0 .. n - 1))
                     = field_sub(field_pow(y, n), One)
<1> DEFINE f == [x \in Nat |-> field_pow(y, x)]
           G(n) == SumOver(f, 0 .. n - 1)
           less == field_sub(y, One)
           T == {n \in Nat : G(n) \in F
                             /\ field_mul(less, G(n)) = field_sub(field_pow(y, n), One)}
<1>1. /\ One \in F /\ less \in F
      /\ \A k \in Nat : f[k] = field_pow(y, k) /\ f[k] \in F
  BY MulLaws, PowerLaws DEF Field
<1> HIDE DEF f
<1>2. ASSUME NEW k \in Nat
      PROVE  G(0) = Zero /\ G(k) \in F /\ G(k + 1) = field_add(G(k), f[k])
  <2>1. \A i \in 0 .. k : f[i] \in F
    BY <1>1
  <2>2. /\ SumOver(f, {}) = Zero
        /\ SumOver(f, 0 .. k - 1) \in F
        /\ SumOver(f, 0 .. k) = field_add(SumOver(f, 0 .. k - 1), f[k])
    BY ONLY Field(F), k \in Nat, <2>1, SumUpTo
  <2>3. 0 .. 0 - 1 = {} /\ (k + 1) - 1 = k
    OBVIOUS
  <2>4. QED
    BY <2>2, <2>3
<1>3. 0 \in T
  <2>1. field_pow(y, 0) = One
    BY DEF Field
  <2>2. field_sub(One, One) = Zero /\ field_mul(less, Zero) = Zero
    BY <1>1, ZeroLaws
  <2>3. G(0) = Zero /\ G(0) \in F
    BY <1>2
  <2>4. QED
    BY <2>1, <2>2, <2>3
<1>4. ASSUME NEW k \in Nat, k \in T
      PROVE  k + 1 \in T
  <2> DEFINE p == field_pow(y, k)
             yp == field_mul(y, p)
             n1 == negated(One)
             np == negated(p)
  <2>1. /\ p \in F /\ yp \in F /\ n1 \in F /\ np \in F
        /\ field_pow(y, k + 1) = yp /\ f[k] = p
        /\ field_add(n1, One) = Zero /\ field_add(np, p) = Zero
        /\ less = field_add(y, n1)
    <3>1. p \in F /\ field_pow(y, k + 1) = yp /\ f[k] = p
      BY <1>1 DEF Field
    <3>2. yp \in F
      BY <3>1, MulLaws
    <3>3. QED
      BY <1>1, <3>1, <3>2, ZeroLaws
  <2>2. field_mul(less, p) = field_add(yp, np)
    <3>1. field_mul(less, p) = field_mul(p, less)
      BY <1>1, <2>1, MulLaws
    <3>2. field_mul(p, field_add(y, n1)) = field_add(field_mul(p, y), field_mul(p, n1))
      BY <2>1 DEF Field
    <3>3. field_mul(p, y) = yp
      BY <2>1, MulLaws
    <3>4. field_mul(p, n1) = np
      <4>1. field_mul(p, n1) = field_mul(n1, p)
        BY <2>1, MulLaws
      <4>2. field_mul(n1, p) = negated(field_mul(One, p))
        BY <1>1, <2>1, ZeroLaws
      <4>3. field_mul(One, p) = p
        BY <2>1, MulLaws
      <4>4. QED
        BY <4>1, <4>2, <4>3
    <3>5. QED
      BY <2>1, <3>1, <3>2, <3>3, <3>4
  <2>3. field_mul(less, G(k)) = field_add(p, n1)
    BY <1>1, <1>4, <2>1, ZeroLaws
  <2>4. G(k) \in F /\ G(k + 1) = field_add(G(k), p) /\ G(k + 1) \in F
    BY <1>2, <2>1
  <2>5. field_mul(less, G(k + 1)) = field_add(field_add(p, n1), field_add(yp, np))
    <3>1. field_mul(less, field_add(G(k), p)) = field_add(field_mul(less, G(k)), field_mul(less, p))
      BY <1>1, <2>1, <2>4 DEF Field
    <3>2. QED
      BY <2>2, <2>3, <2>4, <3>1
  <2>6. field_sub(yp, One) = field_add(yp, n1)
    BY <1>1, <2>1, ZeroLaws
  <2> HIDE DEF p, yp, n1, np, less
  <2>7. field_add(field_add(p, n1), field_add(yp, np)) = field_add(yp, n1)
    <3>1. \A a, b \in F : field_add(a, b) \in F /\ field_add(a, b) = field_add(b, a)
      BY AddLaws
    <3>2. \A a, b, c \in F : field_add(a, field_add(b, c)) = field_add(field_add(a, b), c)
      BY AddLaws
    <3>3. field_add(field_add(p, n1), field_add(yp, np))
          = field_add(field_add(n1, p), field_add(np, yp))
      BY <2>1, <3>1
    <3>4. field_add(field_add(n1, p), field_add(np, yp))
          = field_add(n1, field_add(p, field_add(np, yp)))
      BY <2>1, <3>1, <3>2
    <3>5. field_add(p, field_add(np, yp)) = field_add(field_add(p, np), yp)
      BY <2>1, <3>2
    <3>6. field_add(p, np) = Zero
      BY <2>1, <3>1
    <3>7. field_add(Zero, yp) = yp
      BY <2>1, AddLaws
    <3>8. field_add(n1, yp) = field_add(yp, n1)
      BY <2>1, <3>1
    <3>9. QED
      BY <3>3, <3>4, <3>5, <3>6, <3>7, <3>8
  <2>8. QED
    BY <2>1, <2>4, <2>5, <2>6, <2>7
<1> HIDE DEF T
<1>5. \A n \in Nat : n \in T
  BY <1>3, <1>4, SetInduction
<1>6. QED
  BY <1>5 DEF T, f

-----------------------------------------------------------------------------
(* The threads of evaluate.                                                  *)

(* The shares are whole, one after the other, and all within the first n.    *)
LEMMA SharesFit ==
    ASSUME NEW n \in Nat, NEW k \in Nat, k < compute_num_threads
    PROVE  /\ n \div compute_num_threads \in Nat
           /\ k * (n \div compute_num_threads) \in Nat
           /\ (k + 1) * (n \div compute_num_threads)
              = k * (n \div compute_num_threads) + n \div compute_num_threads
           /\ (k + 1) * (n \div compute_num_threads) <= n
<1> DEFINE N == compute_num_threads
           q == n \div N
<1>1. N \in Nat \ {0} /\ k < N
  BY ThreadsAssumption
<1> HIDE DEF N
<1>2. q \in Nat /\ N * q <= n
  BY ONLY <1>1, n \in Nat
<1> HIDE DEF q
<1>3. k * q \in Nat /\ (k + 1) * q = k * q + q
  BY ONLY <1>2, k \in Nat
<1>4. (k + 1) * q <= N * q
  BY ONLY <1>1, <1>2, k \in Nat
<1>5. (k + 1) * q \in Nat /\ N * q \in Nat
  BY ONLY <1>1, <1>2, k \in Nat
<1>6. (k + 1) * q <= n
  BY ONLY <1>2, <1>4, <1>5, n \in Nat
<1>7. QED
  BY <1>2, <1>3, <1>6 DEF N, q

(* Whatever the number of threads, and whatever is left over when it does    *)
(* not divide n, evaluate gives the value of the first n coefficients: the   *)
(* ranges of the first k threads are what is below the k-th offset, and the  *)
(* last thread has the rest.                                                 *)
LEMMA EvaluateIsTheSum ==
    ASSUME NEW F, Field(F), NEW coeffs, \A i \in DOMAIN coeffs : coeffs[i] \in F,
           NEW z \in F, NEW n \in Nat
    PROVE  evaluate(coeffs, z, n) =
           field_sum([i \in DOMAIN coeffs \cap 0 .. n - 1 |->
                         field_mul(coeffs[i], field_pow(z, i))])
<1> DEFINE N == compute_num_threads
           q == n \div N
           S == DOMAIN coeffs \cap 0 .. n - 1
           f == [i \in S |-> field_mul(coeffs[i], field_pow(z, i))]
           Part(t) == thread_range(n, t) \cap DOMAIN coeffs
           Share(t) == field_sum([i \in Part(t) |->
                           field_mul(coeffs[i],
                                     field_mul(field_pow(z, t * q), field_pow(z, i - t * q)))])
           shares == [t \in 0 .. N - 1 |-> Share(t)]
           Before(k) == S \cap 0 .. (IF k = N THEN n ELSE k * q) - 1
<1>1. N \in Nat \ {0}
  BY ThreadsAssumption
<1>2. /\ Monoid(F, Plus(F), Zero)
      /\ \A i \in S : f[i] \in F
  BY MulLaws, PowerLaws DEF Field
<1>3. IsFiniteSet(S) /\ IsFiniteSet(0 .. N - 1)
  <2>1. IsFiniteSet(0 .. n - 1) /\ IsFiniteSet(0 .. N - 1)
    BY <1>1, FS_Interval
  <2>2. QED
    BY <2>1, FS_Subset
<1>4. /\ SumOver(f, {}) = Zero
      /\ \A s \in SUBSET S : SumOver(f, s) \in F
      /\ \A A, B \in SUBSET S : A \cap B = {} =>
            SumOver(f, A \cup B) = field_add(SumOver(f, A), SumOver(f, B))
  BY <1>2, <1>3, SumLaws
<1>5. ASSUME NEW t \in 0 .. N - 1
      PROVE  /\ Part(t) \in SUBSET S
             /\ Before(t) \in SUBSET S
             /\ Before(t) \cap Part(t) = {}
             /\ Before(t + 1) = Before(t) \cup Part(t)
             /\ \A i \in Part(t) : t * q \in Nat /\ i \in Nat /\ i - t * q \in Nat
  <2>1. /\ q \in Nat /\ t * q \in Nat
        /\ (t + 1) * q = t * q + q /\ (t + 1) * q <= n
    <3>1. t \in Nat /\ t < compute_num_threads
      BY <1>1
    <3>2. QED
      BY <3>1, SharesFit
  <2>2. thread_range(n, t) = t * q .. IF t = N - 1 THEN n - 1 ELSE t * q + q - 1
    BY DEF thread_range
  <2> DEFINE o == t * q
  <2>3. t # N /\ Before(t) = S \cap 0 .. o - 1
    BY <1>1
  <2>4. Before(t + 1) = S \cap 0 .. (IF t = N - 1 THEN n ELSE o + q) - 1
    BY <1>1, <2>1
  <2> HIDE DEF o, N, q, Before
  <2>5. o \in Nat /\ q \in Nat /\ o + q <= n
    BY <2>1 DEF o
  <2>6. Part(t) = DOMAIN coeffs \cap (o .. IF t = N - 1 THEN n - 1 ELSE o + q - 1)
    BY <2>2 DEF o
  <2>7. QED
    BY <2>3, <2>4, <2>5, <2>6 DEF o
<1>6. ASSUME NEW t \in 0 .. N - 1
      PROVE  Share(t) = SumOver(f, Part(t))
  <2>1. \A i \in Part(t) :
           f[i] = field_mul(coeffs[i], field_mul(field_pow(z, t * q), field_pow(z, i - t * q)))
    <3>1. ASSUME NEW i \in Part(t)
          PROVE  field_mul(field_pow(z, t * q), field_pow(z, i - t * q)) = field_pow(z, i)
      <4>1. t * q \in Nat /\ i \in Nat /\ i - t * q \in Nat
        BY <1>5
      <4> DEFINE o == t * q
      <4> HIDE DEF o
      <4>2. o \in Nat /\ i - o \in Nat /\ o + (i - o) = i
        BY <4>1 DEF o
      <4>3. field_mul(field_pow(z, o), field_pow(z, i - o)) = field_pow(z, o + (i - o))
        BY <4>2, PowerLaws
      <4>4. QED
        BY <4>2, <4>3 DEF o
    <3>2. QED
      BY <1>5, <3>1
  <2>2. QED
    BY <2>1 DEF SumOver
<1> HIDE DEF Part, Share, f, Before
<1>7. /\ \A t \in 0 .. N - 1 : shares[t] = SumOver(f, Part(t)) /\ shares[t] \in F
      /\ SumOver(shares, {}) = Zero
      /\ \A s \in SUBSET (0 .. N - 1) : SumOver(shares, s) \in F
      /\ \A x \in 0 .. N - 1 : SumOver(shares, {x}) = shares[x]
      /\ \A A, B \in SUBSET (0 .. N - 1) : A \cap B = {} =>
            SumOver(shares, A \cup B) = field_add(SumOver(shares, A), SumOver(shares, B))
  <2>1. \A t \in 0 .. N - 1 : shares[t] = SumOver(f, Part(t)) /\ shares[t] \in F
    BY <1>4, <1>5, <1>6
  <2> DEFINE threads == 0 .. N - 1
  <2>2. IsFiniteSet(threads) /\ \A t \in threads : shares[t] \in F
    BY <1>3, <2>1
  <2> HIDE DEF shares, threads
  <2>3. /\ SumOver(shares, {}) = Zero
        /\ \A s \in SUBSET threads : SumOver(shares, s) \in F
        /\ \A x \in threads : SumOver(shares, {x}) = shares[x]
        /\ \A A, B \in SUBSET threads : A \cap B = {} =>
              SumOver(shares, A \cup B) = field_add(SumOver(shares, A), SumOver(shares, B))
    BY <1>2, <2>2, SumLaws
  <2>4. QED
    BY <2>1, <2>3 DEF threads
<1> HIDE DEF shares
<1> DEFINE T == {k \in Nat : k <= N => SumOver(shares, 0 .. k - 1) = SumOver(f, Before(k))}
<1>8. 0 \in T
  <2>1. Before(0) = {} /\ 0 .. 0 - 1 = {}
    <3>1. Before(0) = S \cap 0 .. 0 * q - 1
      BY <1>1 DEF Before
    <3>2. q \in Nat
      <4>1. 0 < compute_num_threads
        BY <1>1
      <4>2. QED
        BY <4>1, SharesFit, 0 \in Nat
    <3>3. QED
      BY <3>1, <3>2
  <2>2. QED
    BY <1>4, <1>7, <2>1
<1>9. ASSUME NEW k \in Nat, k \in T
      PROVE  k + 1 \in T
  <2> SUFFICES ASSUME k + 1 <= N
               PROVE  SumOver(shares, 0 .. (k + 1) - 1) = SumOver(f, Before(k + 1))
    OBVIOUS
  <2>1. k \in 0 .. N - 1
    BY <1>1
  <2>2. /\ 0 .. (k + 1) - 1 = (0 .. k - 1) \cup {k} /\ (0 .. k - 1) \cap {k} = {}
        /\ 0 .. k - 1 \in SUBSET (0 .. N - 1) /\ {k} \in SUBSET (0 .. N - 1)
    BY <1>1, <2>1
  <2>3. SumOver(shares, 0 .. (k + 1) - 1)
        = field_add(SumOver(shares, 0 .. k - 1), SumOver(shares, {k}))
    BY <1>7, <2>2
  <2>4. SumOver(shares, {k}) = SumOver(f, Part(k))
    BY <1>7, <2>1
  <2>5. SumOver(shares, 0 .. k - 1) = SumOver(f, Before(k))
    BY <1>1, <1>9, <2>1
  <2>6. SumOver(f, Before(k + 1)) = field_add(SumOver(f, Before(k)), SumOver(f, Part(k)))
    BY <1>4, <1>5, <2>1
  <2>7. QED
    BY <2>3, <2>4, <2>5, <2>6
<1> HIDE DEF T
<1>10. N \in T
  BY <1>1, <1>8, <1>9, SetInduction
<1>11. SumOver(shares, 0 .. N - 1) = SumOver(f, S)
  <2>1. Before(N) = S
    BY DEF Before
  <2>2. \A k \in T : k <= N => SumOver(shares, 0 .. k - 1) = SumOver(f, Before(k))
    BY DEF T
  <2>3. N <= N
    BY <1>1
  <2> HIDE DEF N, S
  <2>4. QED
    BY <1>10, <2>1, <2>2, <2>3
<1>12. evaluate(coeffs, z, n) = SumOver(shares, 0 .. N - 1)
  BY DEF evaluate, SumOver, shares, Share, Part
<1>13. QED
  BY <1>11, <1>12 DEF SumOver, f

-----------------------------------------------------------------------------
(* The products of linear factors that do not panic: of one, which makes no  *)
(* pass, and of two, which makes one.                                        *)

(* The passes of a fold over no index, and over one.                         *)
LEMMA IndicesAre ==
    /\ DOMAIN Indices(0) = {}
    /\ DOMAIN Indices(1) = {1} /\ Indices(1)[1] = 0
  BY DEF Indices

LEMMA SubsetsOfOne ==
    /\ Max({1}) = 1 /\ {1} \ {Max({1})} = {}
    /\ \A s \in SUBSET {1} : s = {} \/ s = {1}
<1>1. Max({1}) = 1
  BY DEF Max
<1>2. QED
  BY <1>1

LEMMA ProductOfOne ==
    ASSUME NEW roots
    PROVE  compute_linear_polynomial_product(roots, 1) =
           [Array(2) EXCEPT ![1] = One, ![0] = negated(compute_sum(roots, 0, 1))]
<1> DEFINE n == 1
           Pass(state, i) ==
            LET Step(s, j) ==
                    LET value == field_mul(roots[j], compute_sum(s.scratch, j + 1, n - 1 - i - j))
                    IN  [scratch |-> [s.scratch EXCEPT ![j] = value],
                         temp |-> field_add(s.temp, value)]
                swept == FoldLeft(Step, [scratch |-> state.scratch, temp |-> Zero],
                                  Indices(n - 1 - i))
            IN  [scratch |-> swept.scratch, constant |-> negated(state.constant),
                 dest |-> [state.dest EXCEPT ![n - 2 - i] =
                              field_mul(swept.temp, state.constant)]]
           start == [scratch |-> roots, constant |-> One,
                  dest |-> [Array(n + 1) EXCEPT ![n] = One,
                               ![n - 1] = negated(compute_sum(roots, 0, n))]]
           Rec(k) == k = [s \in SUBSET DOMAIN Indices(n - 1) |->
                             IF s = {} THEN start
                             ELSE Pass(k[s \ {Max(s)}], Indices(n - 1)[Max(s)])]
<1>1. compute_linear_polynomial_product(roots, 1) = (CHOOSE k : Rec(k))[DOMAIN Indices(n - 1)].dest
  BY DEF compute_linear_polynomial_product, FoldLeft, MapThenFoldSet
<1>2. DOMAIN Indices(n - 1) = {}
  BY IndicesAre
<1> HIDE DEF start, Pass
<1>3. Rec([s \in SUBSET {} |-> start])
  BY <1>2
<1>4. \A k : Rec(k) => k[{}] = start
  BY <1>2
<1> HIDE DEF Rec
<1>5. compute_linear_polynomial_product(roots, 1) = start.dest
  BY <1>1, <1>2, <1>3, <1>4
<1>6. QED
  BY <1>5 DEF start

LEMMA ProductOfTwo ==
    ASSUME NEW roots, DOMAIN roots = {0, 1}
    PROVE  compute_linear_polynomial_product(roots, 2) =
           [Array(3) EXCEPT ![2] = One, ![1] = negated(compute_sum(roots, 0, 2)),
                            ![0] = field_mul(field_add(Zero, field_mul(roots[0], compute_sum(roots, 1, 1))), One)]
<1> DEFINE n == 2
           Step(s, i, j) ==
               LET value == field_mul(roots[j], compute_sum(s.scratch, j + 1, n - 1 - i - j))
               IN  [scratch |-> [s.scratch EXCEPT ![j] = value],
                    temp |-> field_add(s.temp, value)]
           Pass(state, i) ==
            LET St(s, j) == Step(s, i, j)
                swept == FoldLeft(St, [scratch |-> state.scratch, temp |-> Zero],
                                  Indices(n - 1 - i))
            IN  [scratch |-> swept.scratch, constant |-> negated(state.constant),
                 dest |-> [state.dest EXCEPT ![n - 2 - i] =
                              field_mul(swept.temp, state.constant)]]
           start == [scratch |-> roots, constant |-> One,
                  dest |-> [Array(n + 1) EXCEPT ![n] = One,
                               ![n - 1] = negated(compute_sum(roots, 0, n))]]
           Rec(k) == k = [s \in SUBSET DOMAIN Indices(n - 1) |->
                             IF s = {} THEN start
                             ELSE Pass(k[s \ {Max(s)}], Indices(n - 1)[Max(s)])]
<1>1. compute_linear_polynomial_product(roots, 2) = (CHOOSE k : Rec(k))[DOMAIN Indices(n - 1)].dest
  BY DEF compute_linear_polynomial_product, FoldLeft, MapThenFoldSet
<1>2. DOMAIN Indices(n - 1) = {1} /\ Indices(n - 1)[1] = 0
  BY IndicesAre
<1> DEFINE first == [scratch |-> roots, temp |-> Zero]
           Inner(k) == k = [s \in SUBSET DOMAIN Indices(1) |->
                               IF s = {} THEN first
                               ELSE Step(k[s \ {Max(s)}], 0, Indices(1)[Max(s)])]
<1>3. Pass(start, 0).dest = [start.dest EXCEPT ![0] =
                                field_mul((CHOOSE k : Inner(k))[{1}].temp, start.constant)]
  <2> DEFINE Entries(t) == Indices(t)
             InnerOf(k, t) == k = [s \in SUBSET DOMAIN Entries(t) |->
                                     IF s = {} THEN first
                                     ELSE Step(k[s \ {Max(s)}], 0, Entries(t)[Max(s)])]
  <2>1. Pass(start, 0).dest = [start.dest EXCEPT ![n - 2 - 0] = field_mul(
            (CHOOSE k : InnerOf(k, n - 1 - 0))[DOMAIN Entries(n - 1 - 0)].temp, start.constant)]
    <3> HIDE DEF Step
    <3>1. QED
      BY DEF FoldLeft, MapThenFoldSet
  <2>2. n - 2 - 0 = 0 /\ n - 1 - 0 = 1
    OBVIOUS
  <2> HIDE DEF Step, first, start, Pass
  <2>3. (CHOOSE k : InnerOf(k, n - 1 - 0))[DOMAIN Entries(n - 1 - 0)] = (CHOOSE k : Inner(k))[{1}]
    BY <2>2, IndicesAre
  <2>4. QED
    BY <2>1, <2>2, <2>3
<1> HIDE DEF start, Pass
<1>4. compute_linear_polynomial_product(roots, 2) = Pass(start, 0).dest
  <2> DEFINE k0 == [s \in SUBSET {1} |-> IF s = {} THEN start ELSE Pass(start, 0)]
  <2>1. Rec(k0)
    <3>1. k0[{}] = start
      OBVIOUS
    <3>2. \A s \in SUBSET {1} :
             s # {} => Pass(start, 0) = Pass(k0[s \ {Max(s)}], Indices(n - 1)[Max(s)])
      BY <1>2, <3>1, SubsetsOfOne
    <3>3. QED
      BY <1>2, <3>2
  <2>2. ASSUME NEW k, Rec(k)
        PROVE  k[{1}] = Pass(start, 0)
    <3>1. k[{}] = start
      BY <1>2, <2>2
    <3>2. k[{1}] = Pass(k[{1} \ {Max({1})}], Indices(n - 1)[Max({1})])
      BY <1>2, <2>2
    <3>3. QED
      BY <1>2, <3>1, <3>2, SubsetsOfOne
  <2> HIDE DEF Rec
  <2>3. QED
    BY <1>1, <1>2, <2>1, <2>2
<1>5. (CHOOSE k : Inner(k))[{1}] = Step(first, 0, 0)
  <2> HIDE DEF Step, first
  <2> DEFINE k0 == [s \in SUBSET {1} |-> IF s = {} THEN first ELSE Step(first, 0, 0)]
  <2>1. Inner(k0)
    <3>1. k0[{}] = first
      OBVIOUS
    <3>2. \A s \in SUBSET {1} :
             s # {} => Step(first, 0, 0) = Step(k0[s \ {Max(s)}], 0, Indices(1)[Max(s)])
      BY IndicesAre, <3>1, SubsetsOfOne
    <3>3. QED
      BY IndicesAre, <3>2
  <2>2. ASSUME NEW k, Inner(k)
        PROVE  k[{1}] = Step(first, 0, 0)
    <3>1. k[{}] = first
      BY IndicesAre, <2>2
    <3>2. k[{1}] = Step(k[{1} \ {Max({1})}], 0, Indices(1)[Max({1})])
      BY IndicesAre, <2>2
    <3>3. QED
      BY IndicesAre, <3>1, <3>2, SubsetsOfOne
  <2> HIDE DEF Inner
  <2>3. QED
    BY <2>1, <2>2
<1> HIDE DEF Inner
<1>6. (CHOOSE k : Inner(k))[{1}].temp
      = field_add(Zero, field_mul(roots[0], compute_sum(roots, 1, 1)))
  BY <1>5
<1>7. Pass(start, 0).dest = [start.dest EXCEPT ![0] = field_mul(
          field_add(Zero, field_mul(roots[0], compute_sum(roots, 1, 1))), start.constant)]
  BY <1>3, <1>6
<1>8. QED
  BY <1>4, <1>7 DEF start

-----------------------------------------------------------------------------
(* Combined and moved terms; the roots of unity, and interpolation on them.  *)

(* Term by term, the fold of two functions is the sum of their folds.        *)
LEMMA FoldCombines ==
    ASSUME NEW F, NEW plus, NEW unit, NEW S, NEW f, NEW g, NEW b, NEW h, NEW k, NEW l,
           Folds(F, plus, unit, S, f, h), Folds(F, plus, unit, S, g, k),
           Folds(F, plus, unit, S, b, l), \A i \in S : b[i] = plus[<<f[i], g[i]>>]
    PROVE  \A s \in SUBSET S : l[s] = plus[<<h[s], k[s]>>]
<1> DEFINE T == {s \in SUBSET S : l[s] = plus[<<h[s], k[s]>>]}
<1>1. /\ h[{}] = unit
      /\ \A s \in SUBSET S : /\ h[s] \in F
                             /\ \A x \in s : h[s] = plus[<<f[x], h[s \ {x}]>>]
  BY FoldRemoves
<1>2. /\ k[{}] = unit
      /\ \A s \in SUBSET S : /\ k[s] \in F
                             /\ \A x \in s : k[s] = plus[<<g[x], k[s \ {x}]>>]
  BY FoldRemoves
<1>3. /\ l[{}] = unit
      /\ \A s \in SUBSET S : /\ l[s] \in F
                             /\ \A x \in s : l[s] = plus[<<b[x], l[s \ {x}]>>]
  BY FoldRemoves, SMTT(60)
<1>4. Monoid(F, plus, unit) /\ IsFiniteSet(S) /\ \A i \in S : f[i] \in F /\ g[i] \in F
  BY DEF Folds
<1>5. {} \in T
  BY <1>1, <1>2, <1>3, <1>4 DEF Monoid
<1>6. ASSUME NEW s \in SUBSET S, NEW x \in S \ s, s \in T
      PROVE  s \cup {x} \in T
  <2> DEFINE u == s \cup {x}
  <2>1. u \in SUBSET S /\ x \in u /\ u \ {x} = s
    OBVIOUS
  <2> HIDE DEF u
  <2>2. /\ h[u] = plus[<<f[x], h[s]>>] /\ k[u] = plus[<<g[x], k[s]>>]
        /\ l[u] = plus[<<plus[<<f[x], g[x]>>], l[s]>>] /\ l[s] = plus[<<h[s], k[s]>>]
    <3>1. h[u] = plus[<<f[x], h[s]>>]
      BY <1>1, <2>1
    <3>2. k[u] = plus[<<g[x], k[s]>>]
      BY <1>2, <2>1
    <3>3. l[u] = plus[<<b[x], l[s]>>]
      BY <1>3, <2>1
    <3>4. b[x] = plus[<<f[x], g[x]>>]
      OBVIOUS
    <3>5. QED
      BY <1>6, <3>1, <3>2, <3>3, <3>4
  <2>3. f[x] \in F /\ g[x] \in F /\ h[s] \in F /\ k[s] \in F
    BY <1>1, <1>2, <1>4
  <2>4. ASSUME NEW p \in F, NEW q \in F, NEW r \in F, NEW t \in F
        PROVE  plus[<<plus[<<p, q>>], plus[<<r, t>>]>>] = plus[<<plus[<<p, r>>], plus[<<q, t>>]>>]
    <3>1. /\ \A x1, y1 \in F : plus[<<x1, y1>>] \in F /\ plus[<<x1, y1>>] = plus[<<y1, x1>>]
          /\ \A x1, y1, z1 \in F :
                plus[<<x1, plus[<<y1, z1>>]>>] = plus[<<plus[<<x1, y1>>], z1>>]
      BY <1>4 DEF Monoid
    <3>a. plus[<<r, t>>] \in F /\ plus[<<q, t>>] \in F
      BY <3>1
    <3>2. plus[<<plus[<<p, q>>], plus[<<r, t>>]>>] = plus[<<p, plus[<<q, plus[<<r, t>>]>>]>>]
      BY <3>1, <3>a
    <3>3. plus[<<q, plus[<<r, t>>]>>] = plus[<<r, plus[<<q, t>>]>>]
      <4>1. /\ plus[<<q, plus[<<r, t>>]>>] = plus[<<plus[<<q, r>>], t>>]
            /\ plus[<<r, plus[<<q, t>>]>>] = plus[<<plus[<<r, q>>], t>>]
            /\ plus[<<q, r>>] = plus[<<r, q>>]
        BY <3>1
      <4>2. QED
        BY <4>1
    <3>4. plus[<<p, plus[<<r, plus[<<q, t>>]>>]>>] = plus[<<plus[<<p, r>>], plus[<<q, t>>]>>]
      BY <3>1, <3>a
    <3>5. QED
      BY <3>2, <3>3, <3>4
  <2>5. l[u] = plus[<<h[u], k[u]>>]
    BY <2>2, <2>3, <2>4
  <2>6. QED
    BY <2>1, <2>5 DEF u
<1> HIDE DEF T
<1>7. \A s \in SUBSET S : s \in T
  BY <1>4, <1>5, <1>6, SubsetInduction
<1>8. QED
  BY <1>7 DEF T

(* Where the indices are moved apart, the fold stays the same.               *)
LEMMA FoldMoves ==
    ASSUME NEW F, NEW plus, NEW unit, NEW S, NEW R, NEW f, NEW b, NEW g, NEW h, NEW k,
           Folds(F, plus, unit, R, f, h), Folds(F, plus, unit, S, g, k),
           \A i \in S : b[i] \in R /\ g[i] = f[b[i]],
           \A i, j \in S : b[i] = b[j] => i = j
    PROVE  \A s \in SUBSET S : k[s] = h[{b[i] : i \in s}]
<1> DEFINE Image(s) == {b[i] : i \in s}
           T == {s \in SUBSET S : k[s] = h[Image(s)]}
<1>1. /\ h[{}] = unit
      /\ \A s \in SUBSET R : /\ h[s] \in F
                             /\ \A x \in s : h[s] = plus[<<f[x], h[s \ {x}]>>]
  BY FoldRemoves
<1>2. /\ k[{}] = unit
      /\ \A s \in SUBSET S : /\ k[s] \in F
                             /\ \A x \in s : k[s] = plus[<<g[x], k[s \ {x}]>>]
  BY FoldRemoves
<1>3. IsFiniteSet(S)
  BY DEF Folds
<1>4. {} \in T
  <2>1. Image({}) = {}
    OBVIOUS
  <2>2. QED
    BY <1>1, <1>2, <2>1
<1>5. ASSUME NEW s \in SUBSET S, NEW x \in S \ s, s \in T
      PROVE  s \cup {x} \in T
  <2> DEFINE u == s \cup {x}
  <2>1. u \in SUBSET S /\ x \in u /\ u \ {x} = s
    OBVIOUS
  <2>2. Image(u) \in SUBSET R /\ b[x] \in Image(u) /\ Image(u) \ {b[x]} = Image(s)
    OBVIOUS
  <2> HIDE DEF u, Image
  <2>3. k[u] = plus[<<g[x], k[s]>>] /\ h[Image(u)] = plus[<<f[b[x]], h[Image(s)]>>]
    <3>1. k[u] = plus[<<g[x], k[u \ {x}]>>]
      BY <1>2, <2>1
    <3>2. h[Image(u)] = plus[<<f[b[x]], h[Image(u) \ {b[x]}]>>]
      BY <1>1, <2>2
    <3>3. QED
      BY <2>1, <2>2, <3>1, <3>2
  <2>4. g[x] = f[b[x]] /\ k[s] = h[Image(s)]
    BY <1>5
  <2>5. QED
    BY <2>1, <2>3, <2>4 DEF u
<1> HIDE DEF T
<1>6. \A s \in SUBSET S : s \in T
  BY <1>3, <1>4, <1>5, SubsetInduction
<1>7. QED
  BY <1>6 DEF T

\* The values of f over S are in F, and finitely many.
Terms(F, f, S) == IsFiniteSet(S) /\ \A i \in S : f[i] \in F

SumsSplit(F, f, S) ==
    /\ SumOver(f, {}) = Zero
    /\ \A s \in SUBSET S : SumOver(f, s) \in F
    /\ \A x \in S : SumOver(f, {x}) = f[x]
    /\ \A A, B \in SUBSET S : A \cap B = {} =>
          SumOver(f, A \cup B) = field_add(SumOver(f, A), SumOver(f, B))

ProductsSplit(F, f, S) ==
    /\ ProductOver(f, {}) = One
    /\ \A s \in SUBSET S : ProductOver(f, s) \in F
    /\ \A x \in S : ProductOver(f, {x}) = f[x]
    /\ \A A, B \in SUBSET S : A \cap B = {} =>
          ProductOver(f, A \cup B) = field_mul(ProductOver(f, A), ProductOver(f, B))

\* b is the sum, or the product, of f and g, term by term.
AddsTerms(f, g, b, S) == \A i \in S : b[i] = field_add(f[i], g[i])
MultipliesTerms(f, g, b, S) == \A i \in S : b[i] = field_mul(f[i], g[i])

\* g over S is f over R, to which b moves the indices.
Moved(f, g, b, S, R) ==
    /\ R = {b[i] : i \in S}
    /\ \A i \in S : g[i] = f[b[i]]
    /\ \A i, j \in S : b[i] = b[j] => i = j

(* Sums and products of terms split however the indices are divided.         *)
LEMMA TermsSplit ==
    ASSUME NEW F, Field(F), NEW f, NEW S, Terms(F, f, S)
    PROVE  SumsSplit(F, f, S) /\ ProductsSplit(F, f, S)
<1>1. /\ Monoid(F, Plus(F), Zero) /\ Monoid(F, Times(F), One) /\ IsFiniteSet(S)
      /\ \A i \in S : f[i] \in F
  BY DEF Field, Terms
<1>2. /\ SumOver(f, {}) = Zero
      /\ \A s \in SUBSET S : SumOver(f, s) \in F
      /\ \A x \in S : SumOver(f, {x}) = f[x]
      /\ \A A, B \in SUBSET S : A \cap B = {} =>
            SumOver(f, A \cup B) = field_add(SumOver(f, A), SumOver(f, B))
  BY ONLY <1>1, SumLaws
<1>3. /\ ProductOver(f, {}) = One
      /\ \A s \in SUBSET S : ProductOver(f, s) \in F
      /\ \A x \in S : ProductOver(f, {x}) = f[x]
      /\ \A A, B \in SUBSET S : A \cap B = {} =>
            ProductOver(f, A \cup B) = field_mul(ProductOver(f, A), ProductOver(f, B))
  BY ONLY <1>1, ProductLaws
<1>4. SumsSplit(F, f, S)
  BY <1>2 DEF SumsSplit
<1>5. ProductsSplit(F, f, S)
  BY <1>3 DEF ProductsSplit
<1>6. QED
  BY <1>4, <1>5

(* The indices that finitely many are moved to.                              *)
LEMMA ImageFinite ==
    ASSUME NEW S, IsFiniteSet(S), NEW b, NEW R, R = {b[i] : i \in S}
    PROVE  IsFiniteSet(R)
<1> DEFINE c == [i \in S |-> b[i]]
<1>1. c \in Surjection(S, R)
  BY DEF Surjection
<1>2. QED
  BY <1>1, FS_Surjection

(* Sums and products of combined terms.                                      *)
LEMMA SumsCombine ==
    ASSUME NEW F, Field(F), NEW f, NEW g, NEW b, NEW S,
           Terms(F, f, S), Terms(F, g, S), AddsTerms(f, g, b, S)
    PROVE  SumOver(b, S) = field_add(SumOver(f, S), SumOver(g, S))
<1>0. \A x, y \in F : Plus(F)[<<x, y>>] = field_add(x, y) /\ field_add(x, y) \in F
  BY AddLaws DEF Plus
<1>1. /\ Monoid(F, Plus(F), Zero) /\ IsFiniteSet(S)
      /\ \A i \in S : f[i] \in F /\ g[i] \in F /\ b[i] = field_add(f[i], g[i])
  BY DEF Field, Terms, AddsTerms
<1>2. PICK h : Folds(F, Plus(F), Zero, S, f, h)
  BY <1>1, FoldExists DEF Folds
<1>3. PICK k : Folds(F, Plus(F), Zero, S, g, k)
  BY <1>1, FoldExists DEF Folds
<1>4. PICK l : Folds(F, Plus(F), Zero, S, b, l)
  <2>1. \A i \in S : b[i] \in F
    BY <1>0, <1>1
  <2>2. QED
    BY <1>1, <2>1, FoldExists DEF Folds
<1>5. SumOver(f, S) = h[S] /\ SumOver(g, S) = k[S] /\ SumOver(b, S) = l[S]
  BY <1>2, <1>3, <1>4, SumIsFold DEF SumOver
<1>6. \A i \in S : b[i] = Plus(F)[<<f[i], g[i]>>]
  BY <1>0, <1>1
<1>7. l[S] = Plus(F)[<<h[S], k[S]>>]
  BY <1>2, <1>3, <1>4, <1>6, FoldCombines
<1>8. h[S] \in F /\ k[S] \in F
  BY <1>2, <1>3, FoldRemoves
<1>9. QED
  BY <1>0, <1>5, <1>7, <1>8

LEMMA ProductsCombine ==
    ASSUME NEW F, Field(F), NEW f, NEW g, NEW b, NEW S,
           Terms(F, f, S), Terms(F, g, S), MultipliesTerms(f, g, b, S)
    PROVE  ProductOver(b, S) = field_mul(ProductOver(f, S), ProductOver(g, S))
<1>0. \A x, y \in F : Times(F)[<<x, y>>] = field_mul(x, y) /\ field_mul(x, y) \in F
  BY MulLaws DEF Times
<1>1. /\ Monoid(F, Times(F), One) /\ IsFiniteSet(S)
      /\ \A i \in S : f[i] \in F /\ g[i] \in F /\ b[i] = field_mul(f[i], g[i])
  BY DEF Field, Terms, MultipliesTerms
<1>2. PICK h : Folds(F, Times(F), One, S, f, h)
  BY <1>1, FoldExists DEF Folds
<1>3. PICK k : Folds(F, Times(F), One, S, g, k)
  BY <1>1, FoldExists DEF Folds
<1>4. PICK l : Folds(F, Times(F), One, S, b, l)
  <2>1. \A i \in S : b[i] \in F
    BY <1>0, <1>1
  <2>2. QED
    BY <1>1, <2>1, FoldExists DEF Folds
<1>5. ProductOver(f, S) = h[S] /\ ProductOver(g, S) = k[S] /\ ProductOver(b, S) = l[S]
  BY <1>2, <1>3, <1>4, ProductIsFold DEF ProductOver
<1>6. \A i \in S : b[i] = Times(F)[<<f[i], g[i]>>]
  BY <1>0, <1>1
<1>7. l[S] = Times(F)[<<h[S], k[S]>>]
  BY <1>2, <1>3, <1>4, <1>6, FoldCombines
<1>8. h[S] \in F /\ k[S] \in F
  BY <1>2, <1>3, FoldRemoves
<1>9. QED
  BY <1>0, <1>5, <1>7, <1>8

(* Sums and products over moved indices.                                     *)
LEMMA SumsMove ==
    ASSUME NEW F, Field(F), NEW f, NEW g, NEW b, NEW S, NEW R,
           Terms(F, g, S), Moved(f, g, b, S, R)
    PROVE  SumOver(g, S) = SumOver(f, R)
<1>1. /\ Monoid(F, Plus(F), Zero) /\ IsFiniteSet(S)
      /\ \A i \in S : g[i] \in F /\ g[i] = f[b[i]]
      /\ R = {b[i] : i \in S} /\ \A i, j \in S : b[i] = b[j] => i = j
  BY DEF Field, Terms, Moved
<1>2. IsFiniteSet(R) /\ (\A r \in R : f[r] \in F) /\ \A i \in S : b[i] \in R
  BY <1>1, ImageFinite
<1>3. PICK h : Folds(F, Plus(F), Zero, R, f, h)
  BY <1>1, <1>2, FoldExists DEF Folds
<1>4. PICK k : Folds(F, Plus(F), Zero, S, g, k)
  BY <1>1, FoldExists DEF Folds
<1>5. SumOver(f, R) = h[R] /\ SumOver(g, S) = k[S]
  BY <1>3, <1>4, SumIsFold DEF SumOver
<1>6. k[S] = h[{b[i] : i \in S}]
  BY <1>1, <1>2, <1>3, <1>4, FoldMoves
<1>7. QED
  BY <1>1, <1>5, <1>6

LEMMA ProductsMove ==
    ASSUME NEW F, Field(F), NEW f, NEW g, NEW b, NEW S, NEW R,
           Terms(F, g, S), Moved(f, g, b, S, R)
    PROVE  ProductOver(g, S) = ProductOver(f, R)
<1>1. /\ Monoid(F, Times(F), One) /\ IsFiniteSet(S)
      /\ \A i \in S : g[i] \in F /\ g[i] = f[b[i]]
      /\ R = {b[i] : i \in S} /\ \A i, j \in S : b[i] = b[j] => i = j
  BY DEF Field, Terms, Moved
<1>2. IsFiniteSet(R) /\ (\A r \in R : f[r] \in F) /\ \A i \in S : b[i] \in R
  BY <1>1, ImageFinite
<1>3. PICK h : Folds(F, Times(F), One, R, f, h)
  BY <1>1, <1>2, FoldExists DEF Folds
<1>4. PICK k : Folds(F, Times(F), One, S, g, k)
  BY <1>1, FoldExists DEF Folds
<1>5. ProductOver(f, R) = h[R] /\ ProductOver(g, S) = k[S]
  BY <1>3, <1>4, ProductIsFold DEF ProductOver
<1>6. k[S] = h[{b[i] : i \in S}]
  BY <1>1, <1>2, <1>3, <1>4, FoldMoves
<1>7. QED
  BY <1>1, <1>5, <1>6

(* Differences and opposites.                                                *)
LEMMA SubLaws ==
    ASSUME NEW F, Field(F)
    PROVE  /\ \A x \in F : negated(negated(x)) = x
           /\ \A x, y \in F : negated(field_add(x, y)) = field_add(negated(x), negated(y))
           /\ \A x, y \in F : field_mul(x, negated(y)) = negated(field_mul(x, y))
           /\ \A x, y \in F : field_sub(x, negated(y)) = field_add(x, y)
           /\ \A x, y \in F : negated(field_sub(x, y)) = field_sub(y, x)
           /\ \A x, y, z \in F : field_mul(x, field_sub(y, z))
                                 = field_sub(field_mul(x, y), field_mul(x, z))
           /\ \A x, y, z \in F : field_mul(field_sub(y, z), x)
                                 = field_sub(field_mul(y, x), field_mul(z, x))
<1>1. /\ \A x, y, z \in F : field_add(x, z) = field_add(y, z) => x = y
      /\ \A x \in F : negated(x) \in F /\ field_add(negated(x), x) = Zero
      /\ \A x, y \in F : field_sub(x, y) = field_add(x, negated(y))
      /\ \A x, y \in F : field_mul(negated(x), y) = negated(field_mul(x, y))
  BY ZeroLaws
<1>2. /\ Zero \in F
      /\ \A x, y \in F : field_add(x, y) \in F /\ field_add(x, y) = field_add(y, x)
  BY AddLaws
<1>3. \A x, y, z \in F : field_add(x, field_add(y, z)) = field_add(field_add(x, y), z)
  BY AddLaws
<1>4. \A x, y \in F : field_mul(x, y) \in F /\ field_mul(x, y) = field_mul(y, x)
  BY MulLaws
<1>5. \A x, y, z \in F : field_mul(x, field_add(y, z)) = field_add(field_mul(x, y), field_mul(x, z))
  BY DEF Field
<1>a. \A x \in F : field_add(x, Zero) = x /\ field_add(Zero, x) = x
  BY AddLaws
<1>6. ASSUME NEW x \in F
      PROVE  negated(negated(x)) = x
  <2>1. /\ negated(x) \in F /\ negated(negated(x)) \in F
        /\ field_add(negated(negated(x)), negated(x)) = Zero
        /\ field_add(negated(x), x) = Zero
    BY <1>1
  <2>2. field_add(x, negated(x)) = Zero
    BY <1>2, <2>1
  <2>3. QED
    BY <1>1, <2>1, <2>2
<1>7. ASSUME NEW x \in F, NEW y \in F
      PROVE  negated(field_add(x, y)) = field_add(negated(x), negated(y))
  <2> DEFINE nx == negated(x)
             ny == negated(y)
             xy == field_add(x, y)
             n == negated(xy)
  <2>1. nx \in F /\ ny \in F /\ xy \in F /\ n \in F
        /\ field_add(nx, x) = Zero /\ field_add(ny, y) = Zero /\ field_add(n, xy) = Zero
    BY <1>1, <1>2
  <2> HIDE DEF nx, ny, n
  <2>2. field_add(field_add(nx, ny), field_add(x, y)) = Zero
    <3>1. field_add(field_add(nx, ny), field_add(x, y)) = field_add(nx, field_add(ny, field_add(y, x)))
      BY <1>2, <1>3, <2>1
    <3>2. field_add(ny, field_add(y, x)) = field_add(field_add(ny, y), x)
      BY <1>3, <2>1
    <3>3. QED
      BY <1>a, <2>1, <3>1, <3>2
  <2>3. field_add(nx, ny) \in F
    BY <1>2, <2>1
  <2>4. field_add(nx, ny) = n
    BY <1>1, <2>1, <2>2, <2>3
  <2>5. QED
    BY <2>4 DEF nx, ny, n
<1>8. ASSUME NEW x \in F, NEW y \in F
      PROVE  field_mul(x, negated(y)) = negated(field_mul(x, y))
  BY <1>1, <1>4
<1>9. ASSUME NEW x \in F, NEW y \in F
      PROVE  field_sub(x, negated(y)) = field_add(x, y)
  BY <1>1, <1>6
<1>10. ASSUME NEW x \in F, NEW y \in F
       PROVE  negated(field_sub(x, y)) = field_sub(y, x)
  <2>1. negated(y) \in F /\ negated(x) \in F
    BY <1>1
  <2>2. negated(field_add(x, negated(y))) = field_add(negated(x), y)
    BY <1>6, <1>7, <2>1
  <2>3. field_add(negated(x), y) = field_add(y, negated(x))
    BY <1>2, <2>1
  <2>4. QED
    BY <1>1, <2>2, <2>3
<1>11. ASSUME NEW x \in F, NEW y \in F, NEW z \in F
       PROVE  field_mul(x, field_sub(y, z)) = field_sub(field_mul(x, y), field_mul(x, z))
  <2>1. negated(z) \in F /\ field_mul(x, y) \in F /\ field_mul(x, z) \in F
    BY <1>1, <1>4
  <2>2. field_mul(x, field_add(y, negated(z)))
        = field_add(field_mul(x, y), negated(field_mul(x, z)))
    BY <1>5, <1>8, <2>1
  <2>3. QED
    BY <1>1, <2>1, <2>2
<1>12. ASSUME NEW x \in F, NEW y \in F, NEW z \in F
       PROVE  field_mul(field_sub(y, z), x) = field_sub(field_mul(y, x), field_mul(z, x))
  <2>1. field_sub(y, z) \in F
    BY DEF Field
  <2>2. QED
    BY <1>4, <1>11, <2>1
<1>13. QED
  BY <1>6, <1>7, <1>8, <1>9, <1>10, <1>11, <1>12

(* (x - a) (x + a), and the difference of the two factors.                   *)
LEMMA Conjugates ==
    ASSUME NEW F, Field(F), NEW x \in F, NEW a \in F
    PROVE  /\ field_mul(field_sub(x, a), field_add(x, a)) = field_sub(field_mul(x, x), field_mul(a, a))
           /\ field_sub(field_add(x, a), field_sub(x, a)) = field_add(a, a)
<1> DEFINE n == negated(a)
           xx == field_mul(x, x)
           xa == field_mul(x, a)
           aa == field_mul(a, a)
<1>1. /\ n \in F /\ xx \in F /\ xa \in F /\ aa \in F
      /\ negated(xa) \in F /\ negated(aa) \in F
      /\ field_add(x, a) \in F /\ field_sub(x, a) \in F
  BY AddLaws, MulLaws, ZeroLaws DEF Field
<1>2. \A p, q \in F : field_add(p, q) \in F /\ field_add(p, q) = field_add(q, p)
  BY AddLaws
<1>3. \A p, q, r \in F : field_add(p, field_add(q, r)) = field_add(field_add(p, q), r)
  BY AddLaws
<1>4. \A p \in F : field_add(p, Zero) = p /\ field_add(Zero, p) = p
                   /\ field_add(negated(p), p) = Zero /\ field_add(p, negated(p)) = Zero
  <2>1. \A p \in F : negated(p) \in F /\ field_add(negated(p), p) = Zero
    BY ZeroLaws
  <2>2. \A p \in F : field_add(p, Zero) = p /\ field_add(Zero, p) = p
    BY AddLaws
  <2>3. \A p \in F : field_add(p, negated(p)) = field_add(negated(p), p)
    BY <1>2, <2>1
  <2>4. QED
    BY <2>1, <2>2, <2>3
<1>5. field_mul(field_sub(x, a), field_add(x, a)) = field_sub(xx, aa)
  <2>1. field_mul(field_sub(x, a), field_add(x, a))
        = field_sub(field_mul(x, field_add(x, a)), field_mul(a, field_add(x, a)))
    BY <1>1, SubLaws
  <2>2. field_mul(x, field_add(x, a)) = field_add(xx, xa)
    BY DEF Field
  <2>3. field_mul(a, field_add(x, a)) = field_add(xa, aa)
    <3>1. field_mul(a, field_add(x, a)) = field_add(field_mul(a, x), aa)
      BY DEF Field
    <3>2. field_mul(a, x) = xa
      BY MulLaws
    <3>3. QED
      BY <3>1, <3>2
  <2>4. field_sub(field_add(xx, xa), field_add(xa, aa))
        = field_add(field_add(xx, xa), field_add(negated(xa), negated(aa)))
    <3>1. field_add(xa, aa) \in F /\ field_add(xx, xa) \in F
      BY <1>1, <1>2
    <3>2. negated(field_add(xa, aa)) = field_add(negated(xa), negated(aa))
      BY <1>1, SubLaws
    <3>3. QED
      BY <3>1, <3>2, ZeroLaws
  <2> HIDE DEF xx, xa, aa
  <2>5. field_add(field_add(xx, xa), field_add(negated(xa), negated(aa)))
        = field_add(xx, negated(aa))
    <3>1. field_add(field_add(xx, xa), field_add(negated(xa), negated(aa)))
          = field_add(xx, field_add(xa, field_add(negated(xa), negated(aa))))
      BY <1>1, <1>2, <1>3
    <3>2. field_add(xa, field_add(negated(xa), negated(aa))) = negated(aa)
      BY <1>1, <1>3, <1>4
    <3>3. QED
      BY <3>1, <3>2
  <2>6. field_sub(xx, aa) = field_add(xx, negated(aa))
    BY <1>1, ZeroLaws
  <2>7. QED
    BY <2>1, <2>2, <2>3, <2>4, <2>5, <2>6
<1>6. field_sub(field_add(x, a), field_sub(x, a)) = field_add(a, a)
  <2>1. field_sub(field_add(x, a), field_sub(x, a))
        = field_add(field_add(x, a), negated(field_sub(x, a)))
    BY <1>1, ZeroLaws
  <2>2. negated(field_sub(x, a)) = field_sub(a, x) /\ field_sub(a, x) = field_add(a, negated(x))
    BY SubLaws, ZeroLaws
  <2>3. negated(x) \in F
    BY ZeroLaws
  <2>4. field_add(field_add(x, a), field_add(a, negated(x))) = field_add(a, a)
    <3>1. field_add(field_add(x, a), field_add(a, negated(x)))
          = field_add(field_add(a, x), field_add(negated(x), a))
      BY <1>2, <2>3
    <3>2. field_add(field_add(a, x), field_add(negated(x), a))
          = field_add(a, field_add(x, field_add(negated(x), a)))
      BY <1>2, <1>3, <2>3
    <3>3. field_add(x, field_add(negated(x), a)) = a
      BY <1>3, <1>4, <2>3
    <3>4. QED
      BY <3>1, <3>2, <3>3
  <2>5. QED
    BY <2>1, <2>2, <2>4
<1>7. QED
  BY <1>5, <1>6

(* A factor common to all terms of a sum.                                    *)
LEMMA SumScaled ==
    ASSUME NEW F, Field(F), NEW c \in F, NEW f, NEW g, NEW S, Terms(F, f, S),
           \A i \in S : g[i] = field_mul(c, f[i])
    PROVE  SumOver(g, S) = field_mul(c, SumOver(f, S))
<1> DEFINE T == {s \in SUBSET S : SumOver(g, s) = field_mul(c, SumOver(f, s))}
<1>1. IsFiniteSet(S) /\ Terms(F, g, S)
  <2>1. \A x, y \in F : field_mul(x, y) \in F
    BY MulLaws
  <2>2. IsFiniteSet(S) /\ \A i \in S : f[i] \in F
    BY DEF Terms
  <2>3. \A i \in S : g[i] \in F
    BY <2>1, <2>2
  <2>4. QED
    BY <2>2, <2>3 DEF Terms
<1>2. SumsSplit(F, f, S) /\ SumsSplit(F, g, S)
  BY <1>1, TermsSplit
<1>3. {} \in T
  BY <1>2, ZeroLaws DEF SumsSplit
<1>4. ASSUME NEW s \in SUBSET S, NEW x \in S \ s, s \in T
      PROVE  s \cup {x} \in T
  <2>1. s \cap {x} = {} /\ {x} \in SUBSET S
    OBVIOUS
  <2>2. SumOver(f, s \cup {x}) = field_add(SumOver(f, s), f[x])
    BY <1>2, <2>1 DEF SumsSplit
  <2>3. SumOver(g, s \cup {x}) = field_add(SumOver(g, s), g[x])
    BY <1>2, <2>1 DEF SumsSplit
  <2>4. g[x] = field_mul(c, f[x]) /\ SumOver(g, s) = field_mul(c, SumOver(f, s))
        /\ f[x] \in F /\ SumOver(f, s) \in F
    BY <1>2, <1>4 DEF SumsSplit, Terms
  <2>5. field_mul(c, field_add(SumOver(f, s), f[x]))
        = field_add(field_mul(c, SumOver(f, s)), field_mul(c, f[x]))
    BY <2>4 DEF Field
  <2>6. QED
    BY <2>2, <2>3, <2>4, <2>5
<1> HIDE DEF T
<1>5. \A s \in SUBSET S : s \in T
  BY <1>1, <1>3, <1>4, SubsetInduction
<1>6. QED
  BY <1>5 DEF T

\* The factors X - w^j of X^n - 1, at x.
Factors(w, x) == [j \in Nat |-> field_sub(x, field_pow(w, j))]
\* The product of all but one of n.
Others(w, x, n, i) == ProductOver(Factors(w, x), (0 .. n - 1) \ {i})

\* n as an element.
Ones(n) == field_sum([j \in 1 .. n |-> One])

\* The least set that has 1 and doubles.
PowerOfTwo(n) ==
    n \in Nat /\ \A T \in SUBSET Nat : 1 \in T /\ (\A k \in T : 2 * k \in T) => n \in T

\* A root of unity of the order n, one or even.
RootOf(w, n) ==
    /\ n = 1 => w = One
    /\ \A m \in Nat : n = 2 * m => field_pow(w, m) = negated(One)

(* The powers and factors of a root, half of the order further on.           *)
LEMMA HalfTurn ==
    ASSUME NEW F, Field(F), NEW w \in F, NEW x \in F, NEW m \in Nat,
           field_pow(w, m) = negated(One), NEW j \in Nat
    PROVE  LET p == field_pow(w, j)
           IN  /\ p \in F /\ field_pow(w, j + m) = negated(p)
               /\ Factors(w, x)[j] = field_sub(x, p)
               /\ Factors(w, x)[j + m] = field_add(x, p)
               /\ field_mul(p, p) = field_pow(field_mul(w, w), j)
               /\ Factors(field_mul(w, w), field_mul(x, x))[j]
                  = field_mul(Factors(w, x)[j], Factors(w, x)[j + m])
<1> DEFINE p == field_pow(w, j)
<1>1. p \in F /\ One \in F /\ negated(One) \in F
  BY PowerLaws, MulLaws, ZeroLaws
<1>2. field_pow(w, j + m) = negated(p)
  <2>1. field_mul(p, negated(One)) = field_pow(w, j + m)
    BY PowerLaws
  <2>2. field_mul(p, negated(One)) = negated(field_mul(p, One))
    BY <1>1, SubLaws
  <2>3. field_mul(p, One) = p
    BY <1>1, MulLaws
  <2>4. QED
    BY <2>1, <2>2, <2>3
<1>3. /\ Factors(w, x)[j] = field_sub(x, p)
      /\ Factors(w, x)[j + m] = field_sub(x, negated(p))
  <2>1. j + m \in Nat
    OBVIOUS
  <2>2. QED
    BY <1>2, <2>1 DEF Factors
<1>4. field_sub(x, negated(p)) = field_add(x, p)
  BY <1>1, SubLaws
<1>5. field_mul(p, p) = field_pow(field_mul(w, w), j)
  BY PowerOfProduct
<1>6. Factors(field_mul(w, w), field_mul(x, x))[j] = field_sub(field_mul(x, x), field_mul(p, p))
  BY <1>5 DEF Factors
<1>7. field_mul(field_sub(x, p), field_add(x, p)) = field_sub(field_mul(x, x), field_mul(p, p))
  BY <1>1, Conjugates
<1>8. QED
  BY <1>1, <1>2, <1>3, <1>4, <1>5, <1>6, <1>7

(* The factors are elements, and so are their products.                      *)
LEMMA FactorsIn ==
    ASSUME NEW F, Field(F), NEW w \in F, NEW x \in F
    PROVE  \A j \in Nat : Factors(w, x)[j] \in F
<1>1. \A j \in Nat : field_pow(w, j) \in F
  BY PowerLaws
<1>2. QED
  BY <1>1 DEF Factors, Field

LEMMA FactorsTerms ==
    ASSUME NEW F, Field(F), NEW w \in F, NEW x \in F, NEW n \in Nat, NEW s \in SUBSET (0 .. n - 1)
    PROVE  Terms(F, Factors(w, x), s)
<1> DEFINE f == Factors(w, x)
<1>1. \A j \in Nat : f[j] \in F
  BY FactorsIn
<1>2. IsFiniteSet(0 .. n - 1)
  BY FS_Interval
<1>3. IsFiniteSet(s)
  BY <1>2, FS_Subset
<1>4. \A j \in s : j \in Nat
  OBVIOUS
<1> HIDE DEF f
<1>5. Terms(F, f, s)
  BY <1>1, <1>3, <1>4 DEF Terms
<1>6. QED
  BY <1>5 DEF f

Shifted(A, m) == {j + m : j \in A}

(* Factors whose indices are half the order apart make one of the squares.   *)
LEMMA FactorsPair ==
    ASSUME NEW F, Field(F), NEW w \in F, NEW x \in F, NEW m \in Nat,
           field_pow(w, m) = negated(One), NEW A \in SUBSET (0 .. m - 1), NEW B, B = Shifted(A, m)
    PROVE  /\ ProductOver(Factors(w, x), A \cup B)
              = ProductOver(Factors(field_mul(w, w), field_mul(x, x)), A)
           /\ ProductOver(Factors(w, x), A \cup B) \in F
<1> DEFINE f == Factors(w, x)
           b == [j \in A |-> j + m]
           g == [j \in A |-> f[j + m]]
           q == Factors(field_mul(w, w), field_mul(x, x))
           C == A \cup B
           N == 2 * m
<1>0. B = {j + m : j \in A}
  BY DEF Shifted
<1>1. \A j \in A : j \in Nat /\ j + m \in Nat
  OBVIOUS
<1>2. \A j \in A : q[j] = field_mul(f[j], f[j + m])
  BY <1>1, HalfTurn
<1>3. Terms(F, f, A) /\ Terms(F, f, C)
  <2>1. \A k \in C : k \in 0 .. N - 1
    BY <1>0
  <2>2. N \in Nat /\ A \in SUBSET (0 .. N - 1)
    OBVIOUS
  <2> HIDE DEF C, N
  <2>3. C \in SUBSET (0 .. N - 1)
    BY <2>1
  <2>4. QED
    BY <2>2, <2>3, FactorsTerms
<1>4. \A j \in Nat : f[j] \in F
  BY FactorsIn
<1> HIDE DEF f, q
<1>5. Terms(F, g, A) /\ MultipliesTerms(f, g, q, A)
  <2>1. \A j \in A : g[j] = f[j + m]
    OBVIOUS
  <2> HIDE DEF g
  <2>2. QED
    BY <1>1, <1>2, <1>3, <1>4, <2>1 DEF Terms, MultipliesTerms
<1>6. Moved(f, g, b, A, B)
  <2>1. B = {b[i] : i \in A}
    BY <1>0
  <2>2. \A i \in A : g[i] = f[b[i]]
    OBVIOUS
  <2>3. \A i, j \in A : b[i] = b[j] => i = j
    OBVIOUS
  <2>4. QED
    BY ONLY <2>1, <2>2, <2>3 DEF Moved
<1>7. A \cap B = {} /\ A \in SUBSET C /\ B \in SUBSET C /\ C \in SUBSET C
  BY <1>0
<1> HIDE DEF g, b, C
<1>8. ProductOver(q, A) = field_mul(ProductOver(f, A), ProductOver(g, A))
  BY <1>3, <1>5, ProductsCombine
<1>9. ProductOver(g, A) = ProductOver(f, B)
  BY <1>5, <1>6, ProductsMove
<1>10. ProductsSplit(F, f, C)
  BY <1>3, TermsSplit
<1>11. ProductOver(f, A \cup B) = field_mul(ProductOver(f, A), ProductOver(f, B))
  BY <1>7, <1>10 DEF ProductsSplit
<1>12. ProductOver(f, C) \in F
  BY <1>7, <1>10 DEF ProductsSplit
<1>13. QED
  BY <1>8, <1>9, <1>11, <1>12 DEF f, q, C

(* All but one of the factors of twice as many.                              *)
LEMMA OthersPair ==
    ASSUME NEW F, Field(F), NEW w \in F, NEW x \in F, NEW m \in Nat,
           field_pow(w, m) = negated(One), NEW i \in 0 .. m - 1
    PROVE  LET rest == Others(field_mul(w, w), field_mul(x, x), m, i)
               p == field_pow(w, i)
           IN  /\ rest \in F
               /\ Others(w, x, 2 * m, i) = field_mul(field_add(x, p), rest)
               /\ Others(w, x, 2 * m, i + m) = field_mul(field_sub(x, p), rest)
<1> DEFINE A == (0 .. m - 1) \ {i}
           B == {j + m : j \in A}
           C == A \cup B
           f == Factors(w, x)
           rest == Others(field_mul(w, w), field_mul(x, x), m, i)
           S == 0 .. 2 * m - 1
<1>1. ProductOver(f, C) = rest /\ rest \in F
  <2>1. A \in SUBSET (0 .. m - 1)
    OBVIOUS
  <2> HIDE DEF A, B, f
  <2>a. B = Shifted(A, m)
    BY DEF B, Shifted
  <2>2. /\ ProductOver(f, C) = ProductOver(Factors(field_mul(w, w), field_mul(x, x)), A)
        /\ ProductOver(f, C) \in F
    <3>1. /\ ProductOver(Factors(w, x), A \cup B)
             = ProductOver(Factors(field_mul(w, w), field_mul(x, x)), A)
          /\ ProductOver(Factors(w, x), A \cup B) \in F
      BY ONLY Field(F), w \in F, x \in F, m \in Nat, field_pow(w, m) = negated(One), <2>1, <2>a,
              FactorsPair
    <3>2. QED
      BY <3>1 DEF f
  <2>3. QED
    BY <2>2 DEF Others, A
<1>2. /\ S \ {i} = C \cup {i + m} /\ S \ {i + m} = C \cup {i}
      /\ C \cap {i + m} = {} /\ C \cap {i} = {}
  <2>1. \A k \in S : k \in 0 .. m - 1 \/ k - m \in 0 .. m - 1
    OBVIOUS
  <2>2. \A k \in C : k \in S /\ k # i /\ k # i + m
    OBVIOUS
  <2>3. ASSUME NEW k \in S, k # i, k # i + m
        PROVE  k \in C
    <3>1. CASE k \in 0 .. m - 1
      BY <2>3, <3>1
    <3>2. CASE k - m \in 0 .. m - 1
      <4>1. k - m \in A
        BY <2>3, <3>2
      <4>2. (k - m) + m = k
        OBVIOUS
      <4>3. QED
        BY <4>1, <4>2
    <3>3. QED
      BY <2>1, <3>1, <3>2
  <2>4. i \in S /\ i + m \in S /\ i # i + m
    OBVIOUS
  <2> HIDE DEF C
  <2>5. QED
    BY <2>2, <2>3, <2>4
<1>3. i \in S /\ i + m \in S
  OBVIOUS
<1>4. Terms(F, f, S)
  <2>1. 2 * m \in Nat /\ S \in SUBSET (0 .. 2 * m - 1)
    OBVIOUS
  <2> HIDE DEF f, S
  <2>2. QED
    BY <2>1, FactorsTerms DEF f
<1> HIDE DEF C, S, f, rest
<1>5. /\ C \in SUBSET S /\ {i} \in SUBSET S /\ {i + m} \in SUBSET S
  BY <1>2, <1>3
<1>6. ProductsSplit(F, f, S)
  BY <1>4, TermsSplit
<1>7. /\ ProductOver(f, S \ {i}) = field_mul(rest, f[i + m])
      /\ ProductOver(f, S \ {i + m}) = field_mul(rest, f[i])
  BY <1>1, <1>2, <1>3, <1>5, <1>6 DEF ProductsSplit
<1>8. f[i] = field_sub(x, field_pow(w, i)) /\ f[i + m] = field_add(x, field_pow(w, i))
  BY HalfTurn DEF f
<1>9. f[i] \in F /\ f[i + m] \in F
  BY <1>3, <1>4 DEF Terms
<1>10. field_mul(rest, f[i]) = field_mul(f[i], rest)
       /\ field_mul(rest, f[i + m]) = field_mul(f[i + m], rest)
  <2>1. \A y, z \in F : field_mul(y, z) = field_mul(z, y)
    BY MulLaws
  <2> QED
    BY ONLY <1>1, <1>9, <2>1
<1>11. QED
  BY <1>1, <1>7, <1>8, <1>10 DEF Others, S, f, rest

Weighted(w, x, n) == [i \in Nat |-> field_mul(field_pow(w, i), Others(w, x, n, i))]

(* All factors are the one and the others.                                   *)
LEMMA OthersIn ==
    ASSUME NEW F, Field(F), NEW w \in F, NEW x \in F, NEW n \in Nat
    PROVE  /\ \A i \in 0 .. n - 1 : /\ Others(w, x, n, i) \in F
                                    /\ field_mul(Factors(w, x)[i], Others(w, x, n, i))
                                       = ProductOver(Factors(w, x), 0 .. n - 1)
           /\ ProductOver(Factors(w, x), 0 .. n - 1) \in F
           /\ Terms(F, Weighted(w, x, n), 0 .. n - 1)
<1> DEFINE f == Factors(w, x)
           S == 0 .. n - 1
<1>1. \A i \in S : i \in Nat
  OBVIOUS
<1> HIDE DEF f, S
<1>2. Terms(F, f, S)
  BY FactorsTerms DEF f, S
<1>3. ProductsSplit(F, f, S)
  BY <1>2, TermsSplit
<1>4. ASSUME NEW i \in S
      PROVE  ProductOver(f, S \ {i}) \in F
             /\ field_mul(f[i], ProductOver(f, S \ {i})) = ProductOver(f, S)
  <2>1. S \ {i} \in SUBSET S /\ {i} \in SUBSET S /\ {i} \cap (S \ {i}) = {}
        /\ {i} \cup (S \ {i}) = S
    OBVIOUS
  <2>2. QED
    BY <1>3, <2>1 DEF ProductsSplit
<1>5. ProductOver(f, S) \in F
  BY <1>3 DEF ProductsSplit
<1>6. IsFiniteSet(S)
  BY FS_Interval DEF S
<1>7. ASSUME NEW i \in S
      PROVE  Weighted(w, x, n)[i] \in F
  <2>1. field_pow(w, i) \in F
    BY <1>1, PowerLaws
  <2>2. Others(w, x, n, i) \in F
    BY <1>4 DEF Others, f, S
  <2>3. field_mul(field_pow(w, i), Others(w, x, n, i)) \in F
    BY <2>1, <2>2, MulLaws
  <2>4. QED
    BY <1>1, <2>3 DEF Weighted
<1>8. QED
  BY <1>4, <1>5, <1>6, <1>7 DEF Others, Terms, f, S

(* Twice as many ones.                                                       *)
LEMMA OnesDouble ==
    ASSUME NEW F, Field(F)
    PROVE  /\ Ones(1) = One
           /\ \A n \in Nat : Ones(n) \in F /\ Ones(2 * n) = field_add(Ones(n), Ones(n))
<1> DEFINE f == [j \in Nat |-> One]
<1>0. One \in F
  BY MulLaws
<1>1. ASSUME NEW n \in Nat
      PROVE  Ones(n) = SumOver(f, 1 .. n) /\ Terms(F, f, 1 .. n)
  <2>1. IsFiniteSet(1 .. n)
    BY FS_Interval
  <2>2. [j \in 1 .. n |-> f[j]] = [j \in 1 .. n |-> One]
    OBVIOUS
  <2>3. \A j \in 1 .. n : f[j] = One
    OBVIOUS
  <2> HIDE DEF f
  <2>4. QED
    BY <1>0, <2>1, <2>2, <2>3 DEF Ones, SumOver, Terms
<1>2. Ones(1) = One
  <2>1. SumsSplit(F, f, 1 .. 1) /\ Ones(1) = SumOver(f, 1 .. 1)
    BY <1>1, TermsSplit
  <2>2. 1 .. 1 = {1} /\ 1 \in 1 .. 1 /\ f[1] = One
    OBVIOUS
  <2> HIDE DEF f
  <2>3. QED
    BY <2>1, <2>2 DEF SumsSplit
<1>3. ASSUME NEW n \in Nat
      PROVE  Ones(n) \in F /\ Ones(2 * n) = field_add(Ones(n), Ones(n))
  <2> DEFINE A == 1 .. n
             B == n + 1 .. 2 * n
             S == 1 .. 2 * n
             b == [j \in A |-> j + n]
             N == 2 * n
  <2>1. A \in SUBSET S /\ B \in SUBSET S /\ A \cap B = {} /\ A \cup B = S /\ N \in Nat
    OBVIOUS
  <2>2. Moved(f, f, b, A, B)
    <3>1. B = {b[j] : j \in A}
      <4>1. \A k \in B : k - n \in A /\ k = b[k - n]
        OBVIOUS
      <4>2. \A j \in A : b[j] \in B
        OBVIOUS
      <4> HIDE DEF A, B, b
      <4>3. QED
        BY <4>1, <4>2
    <3>2. \A i \in A : f[i] = f[b[i]]
      OBVIOUS
    <3>3. \A i, j \in A : b[i] = b[j] => i = j
      OBVIOUS
    <3>4. QED
      BY ONLY <3>1, <3>2, <3>3 DEF Moved
  <2> HIDE DEF f, b
  <2>3. /\ Ones(n) = SumOver(f, A) /\ Terms(F, f, A)
        /\ Ones(2 * n) = SumOver(f, S) /\ Terms(F, f, S)
    <3> HIDE DEF N
    <3>1. Ones(N) = SumOver(f, 1 .. N) /\ Terms(F, f, 1 .. N)
      BY <1>1, <2>1
    <3>2. QED
      BY <1>1, <3>1 DEF N
  <2> HIDE DEF A, B, S, N
  <2>4. SumOver(f, A) = SumOver(f, B)
    BY <2>2, <2>3, SumsMove
  <2>5. SumsSplit(F, f, S)
    BY <2>3, TermsSplit
  <2>6. QED
    BY <2>1, <2>3, <2>4, <2>5 DEF SumsSplit
<1>4. QED
  BY <1>2, <1>3

\* The factors make X^n - 1, and its derivative divided by X^(n-1) is n.
Unity(F, w, x, n) ==
    /\ ProductOver(Factors(w, x), 0 .. n - 1) = field_sub(field_pow(x, n), One)
    /\ SumOver(Weighted(w, x, n), 0 .. n - 1) = Ones(n)

(* Squares of roots are roots of half the order.                             *)
LEMMA SquareOfRoot ==
    ASSUME NEW F, Field(F), NEW w \in F, NEW n \in Nat, RootOf(w, 2 * n),
           n = 1 \/ \E m \in Nat : n = 2 * m
    PROVE  field_pow(w, n) = negated(One) /\ RootOf(field_mul(w, w), n)
<1>1. field_pow(w, n) = negated(One)
  BY DEF RootOf
<1>2. ASSUME NEW m \in Nat, n = 2 * m
      PROVE  field_pow(field_mul(w, w), m) = negated(One)
  <2>1. field_pow(field_mul(w, w), m) = field_mul(field_pow(w, m), field_pow(w, m))
    BY PowerOfProduct
  <2>2. field_mul(field_pow(w, m), field_pow(w, m)) = field_pow(w, m + m)
    BY PowerLaws
  <2>3. m + m = n
    BY <1>2
  <2>4. QED
    BY <1>1, <2>1, <2>2, <2>3
<1>3. ASSUME n = 1
      PROVE  field_mul(w, w) = One
  <2>1. field_pow(w, 0) = One /\ field_pow(w, 0 + 1) = field_mul(w, field_pow(w, 0))
    BY DEF Field
  <2>2. w = negated(One)
    BY <1>1, <1>3, <2>1, MulLaws
  <2>3. One \in F /\ negated(One) \in F
    BY MulLaws, ZeroLaws
  <2>4. field_mul(negated(One), negated(One)) = negated(field_mul(One, negated(One)))
    BY <2>3, ZeroLaws
  <2>5. field_mul(One, negated(One)) = negated(One)
    BY <2>3, MulLaws
  <2>6. negated(negated(One)) = One
    BY <2>3, SubLaws
  <2>7. QED
    BY <2>2, <2>4, <2>5, <2>6
<1>4. QED
  BY <1>1, <1>2, <1>3 DEF RootOf

(* For the order one there is the root one.                                  *)
LEMMA UnityOfOne ==
    ASSUME NEW F, Field(F), NEW x \in F
    PROVE  Unity(F, One, x, 1)
<1>1. One \in F /\ field_mul(x, One) = x /\ field_mul(One, One) = One
  BY MulLaws
<1>2. field_pow(One, 0) = One /\ field_pow(x, 0) = One /\ field_pow(x, 0 + 1) = field_mul(x, field_pow(x, 0))
  BY <1>1 DEF Field
<1>3. field_pow(x, 1) = x
  BY <1>1, <1>2
<1> DEFINE f == Factors(One, x)
           g == Weighted(One, x, 1)
           S == 0 .. 1 - 1
<1>4. 0 \in S /\ S = {0} /\ S \ {0} = {}
  OBVIOUS
<1>5. f[0] = field_sub(x, One)
  BY <1>2 DEF Factors
<1>6. Terms(F, f, S)
  <2>1. S \in SUBSET (0 .. 1 - 1) /\ 1 \in Nat
    OBVIOUS
  <2> HIDE DEF S
  <2>2. QED
    BY <1>1, <2>1, FactorsTerms
<1>7. Terms(F, g, S)
  BY <1>1, OthersIn
<1> HIDE DEF f, g, S
<1>8. ProductsSplit(F, f, S) /\ SumsSplit(F, g, S)
  BY <1>6, <1>7, TermsSplit
<1>9. ProductOver(f, S) = f[0] /\ ProductOver(f, S \ {0}) = One /\ SumOver(g, S) = g[0]
  BY <1>4, <1>8 DEF ProductsSplit, SumsSplit
<1>10. g[0] = field_mul(field_pow(One, 0), ProductOver(f, S \ {0}))
  BY DEF g, f, S, Weighted, Others
<1>11. SumOver(g, S) = One
  BY <1>1, <1>2, <1>9, <1>10
<1>12. Ones(1) = One
  BY OnesDouble
<1>13. QED
  BY <1>3, <1>5, <1>9, <1>11, <1>12 DEF Unity, f, g, S

(* What the two indices that are half the order apart add to the sum.        *)
LEMMA WeightedPair ==
    ASSUME NEW F, Field(F), NEW w \in F, NEW x \in F, NEW n \in Nat,
           field_pow(w, n) = negated(One), NEW i \in 0 .. n - 1
    PROVE  LET q == Weighted(field_mul(w, w), field_mul(x, x), n)
           IN  field_add(Weighted(w, x, 2 * n)[i], Weighted(w, x, 2 * n)[i + n])
               = field_add(q[i], q[i])
<1> DEFINE p == field_pow(w, i)
           rest == Others(field_mul(w, w), field_mul(x, x), n, i)
           u == field_add(x, p)
           v == field_sub(x, p)
<1>1. /\ rest \in F
      /\ Others(w, x, 2 * n, i) = field_mul(u, rest)
      /\ Others(w, x, 2 * n, i + n) = field_mul(v, rest)
  BY OthersPair
<1>2. /\ p \in F /\ field_pow(w, i + n) = negated(p)
      /\ field_mul(p, p) = field_pow(field_mul(w, w), i)
  BY HalfTurn
<1>3. u \in F /\ v \in F /\ negated(p) \in F
  BY <1>2, AddLaws, ZeroLaws DEF Field
<1>4. field_sub(u, v) = field_add(p, p)
  BY <1>2, Conjugates
<1>5. /\ Weighted(w, x, 2 * n)[i] = field_mul(p, field_mul(u, rest))
      /\ Weighted(w, x, 2 * n)[i + n] = field_mul(negated(p), field_mul(v, rest))
      /\ Weighted(field_mul(w, w), field_mul(x, x), n)[i] = field_mul(field_mul(p, p), rest)
  <2>1. i \in Nat /\ i + n \in Nat
    OBVIOUS
  <2>2. QED
    BY <1>1, <1>2, <2>1 DEF Weighted
<1> HIDE DEF p, rest, u, v
<1>6. /\ \A a, b \in F : field_mul(a, b) \in F /\ field_mul(a, b) = field_mul(b, a)
      /\ \A a, b, c \in F : field_mul(a, field_mul(b, c)) = field_mul(field_mul(a, b), c)
  <2>1. \A a, b \in F : field_mul(a, b) \in F /\ field_mul(a, b) = field_mul(b, a)
    BY MulLaws
  <2>2. \A a, b, c \in F : field_mul(a, field_mul(b, c)) = field_mul(field_mul(a, b), c)
    BY MulLaws
  <2>3. QED
    BY <2>1, <2>2
<1>7. field_add(field_mul(p, field_mul(u, rest)), field_mul(negated(p), field_mul(v, rest)))
      = field_mul(p, field_mul(field_sub(u, v), rest))
  <2>1. field_mul(u, rest) \in F /\ field_mul(v, rest) \in F
    BY <1>1, <1>3, <1>6
  <2>2. field_mul(negated(p), field_mul(v, rest)) = negated(field_mul(p, field_mul(v, rest)))
    BY <1>2, <2>1, ZeroLaws
  <2>3. field_mul(p, field_mul(u, rest)) \in F /\ field_mul(p, field_mul(v, rest)) \in F
    BY <1>2, <1>6, <2>1
  <2>4. field_add(field_mul(p, field_mul(u, rest)), negated(field_mul(p, field_mul(v, rest))))
        = field_sub(field_mul(p, field_mul(u, rest)), field_mul(p, field_mul(v, rest)))
    BY <2>3, ZeroLaws
  <2>5. field_sub(field_mul(p, field_mul(u, rest)), field_mul(p, field_mul(v, rest)))
        = field_mul(p, field_sub(field_mul(u, rest), field_mul(v, rest)))
    BY <1>2, <2>1, SubLaws
  <2>6. field_sub(field_mul(u, rest), field_mul(v, rest)) = field_mul(field_sub(u, v), rest)
    BY <1>1, <1>3, SubLaws
  <2>7. QED
    BY <2>2, <2>4, <2>5, <2>6
<1>8. field_mul(p, field_mul(field_add(p, p), rest))
      = field_add(field_mul(field_mul(p, p), rest), field_mul(field_mul(p, p), rest))
  <2>1. field_add(p, p) \in F /\ field_mul(p, p) \in F
    BY <1>2, <1>6, AddLaws
  <2>2. field_mul(p, field_mul(field_add(p, p), rest)) = field_mul(field_mul(p, field_add(p, p)), rest)
    BY <1>1, <1>2, <1>6, <2>1
  <2>3. field_mul(p, field_add(p, p)) = field_add(field_mul(p, p), field_mul(p, p))
    BY <1>2 DEF Field
  <2>4. field_mul(rest, field_add(field_mul(p, p), field_mul(p, p)))
        = field_add(field_mul(rest, field_mul(p, p)), field_mul(rest, field_mul(p, p)))
    BY <1>1, <2>1 DEF Field
  <2>5. field_add(field_mul(p, p), field_mul(p, p)) \in F
    BY <2>1, AddLaws
  <2>6. QED
    BY <1>1, <1>6, <2>1, <2>2, <2>3, <2>4, <2>5
<1>9. QED
  BY <1>4, <1>5, <1>7, <1>8

(* From an order to twice the order.                                         *)
LEMMA UnityDoubles ==
    ASSUME NEW F, Field(F), NEW w \in F, NEW x \in F, NEW n \in Nat, n # 0,
           field_pow(w, n) = negated(One), Unity(F, field_mul(w, w), field_mul(x, x), n)
    PROVE  Unity(F, w, x, 2 * n)
<1> DEFINE A == 0 .. n - 1
           B == n .. 2 * n - 1
           S == 0 .. 2 * n - 1
           N == 2 * n
           W == Weighted(w, x, N)
           q == Weighted(field_mul(w, w), field_mul(x, x), n)
           b == [i \in A |-> i + n]
           later == [i \in A |-> W[i + n]]
           both == [i \in A |-> field_add(W[i], later[i])]
<1>1. /\ A \in SUBSET S /\ B \in SUBSET S /\ A \cap B = {} /\ A \cup B = S
      /\ S \in SUBSET S /\ N \in Nat /\ \A i \in A : i \in S /\ i + n \in S
  OBVIOUS
<1>2. B = Shifted(A, n)
  <2>1. \A k \in B : k - n \in A /\ k = (k - n) + n
    OBVIOUS
  <2>2. \A j \in A : j + n \in B
    OBVIOUS
  <2> HIDE DEF A, B
  <2>3. QED
    BY <2>1, <2>2 DEF Shifted
<1>3. field_mul(w, w) \in F /\ field_mul(x, x) \in F
  BY MulLaws
<1>4. ProductOver(Factors(w, x), S) = field_sub(field_pow(x, 2 * n), One)
  <2>1. A \in SUBSET (0 .. n - 1)
    OBVIOUS
  <2>2. field_pow(field_mul(x, x), n) = field_pow(x, 2 * n)
    <3>1. field_pow(field_mul(x, x), n) = field_mul(field_pow(x, n), field_pow(x, n))
      BY PowerOfProduct
    <3>2. field_mul(field_pow(x, n), field_pow(x, n)) = field_pow(x, n + n)
      BY PowerLaws
    <3>3. QED
      BY <3>1, <3>2
  <2> DEFINE f == Factors(w, x)
             g == Factors(field_mul(w, w), field_mul(x, x))
  <2>3. ProductOver(g, A) = field_sub(field_pow(field_mul(x, x), n), One)
    BY DEF Unity
  <2> HIDE DEF A, B, S
  <2>4. ProductOver(f, A \cup B) = ProductOver(g, A)
    BY <1>2, <2>1, FactorsPair
  <2>5. QED
    BY <1>1, <2>2, <2>3, <2>4
<1>5. Terms(F, W, S) /\ Terms(F, q, A)
  <2>1. Terms(F, q, A)
    BY <1>3, OthersIn
  <2> HIDE DEF N
  <2>2. Terms(F, W, 0 .. N - 1)
    BY <1>1, OthersIn
  <2>3. QED
    BY <2>1, <2>2 DEF N
<1>6. \A i \in A : field_add(W[i], W[i + n]) = field_add(q[i], q[i])
  BY WeightedPair
<1>7. Moved(W, later, b, A, B)
  <2>1. B = {b[i] : i \in A}
    <3>1. \A i \in A : b[i] = i + n
      OBVIOUS
    <3> HIDE DEF A, B, b
    <3>2. QED
      BY <1>2, <3>1 DEF Shifted
  <2>2. \A i \in A : later[i] = W[b[i]]
    OBVIOUS
  <2>3. \A i, j \in A : b[i] = b[j] => i = j
    OBVIOUS
  <2>4. QED
    BY ONLY <2>1, <2>2, <2>3 DEF Moved
<1>8. \A i \in A : later[i] = W[i + n] /\ both[i] = field_add(W[i], later[i])
  OBVIOUS
<1>9. SumOver(q, A) = Ones(n)
  BY DEF Unity
<1>10. IsFiniteSet(A)
  BY FS_Interval
<1> HIDE DEF A, B, S, W, q, b, later, both
<1>11. Terms(F, W, A) /\ Terms(F, later, A)
  BY <1>1, <1>5, <1>8, <1>10 DEF Terms
<1>12. AddsTerms(W, later, both, A) /\ AddsTerms(q, q, both, A)
  BY <1>6, <1>8 DEF AddsTerms
<1>13. SumsSplit(F, W, S)
  BY <1>5, TermsSplit
<1>14. SumOver(W, S) = field_add(SumOver(W, A), SumOver(W, B))
  BY <1>1, <1>13 DEF SumsSplit
<1>15. SumOver(later, A) = SumOver(W, B)
  BY <1>7, <1>11, SumsMove
<1>16. SumOver(both, A) = field_add(SumOver(W, A), SumOver(later, A))
  BY <1>11, <1>12, SumsCombine
<1>17. SumOver(both, A) = field_add(SumOver(q, A), SumOver(q, A))
  BY <1>5, <1>12, SumsCombine
<1>18. Ones(2 * n) = field_add(Ones(n), Ones(n))
  BY OnesDouble
<1>19. SumOver(W, S) = Ones(2 * n)
  BY <1>9, <1>14, <1>15, <1>16, <1>17, <1>18
<1>20. QED
  BY <1>4, <1>19 DEF Unity, W, S

(* Whatever the power of two, the roots of its order are those of X^n - 1.   *)
LEMMA RootsOfUnity ==
    ASSUME NEW F, Field(F), NEW n, PowerOfTwo(n), NEW w \in F, RootOf(w, n), NEW x \in F
    PROVE  n \in Nat \ {0} /\ Unity(F, w, x, n)
<1> DEFINE Holds(k) == /\ k # 0 /\ (k = 1 \/ \E m \in Nat : k = 2 * m)
                       /\ \A v, y \in F : RootOf(v, k) => Unity(F, v, y, k)
           T == {k \in Nat : Holds(k)}
<1>1. Holds(1)
  <2>1. \A v, y \in F : RootOf(v, 1) => Unity(F, v, y, 1)
    BY UnityOfOne DEF RootOf
  <2>2. QED
    BY <2>1
<1>2. ASSUME NEW k \in Nat, Holds(k)
      PROVE  Holds(2 * k)
  <2>1. ASSUME NEW v \in F, NEW y \in F, RootOf(v, 2 * k)
        PROVE  Unity(F, v, y, 2 * k)
    <3>1. k = 1 \/ \E m \in Nat : k = 2 * m
      BY <1>2
    <3>2. field_pow(v, k) = negated(One) /\ RootOf(field_mul(v, v), k)
      BY <2>1, <3>1, SquareOfRoot
    <3>3. field_mul(v, v) \in F /\ field_mul(y, y) \in F
      BY MulLaws
    <3>4. Unity(F, field_mul(v, v), field_mul(y, y), k)
      BY <1>2, <3>2, <3>3
    <3>5. k # 0
      BY <1>2
    <3>6. QED
      BY <3>2, <3>4, <3>5, UnityDoubles
  <2>2. 2 * k # 0 /\ \E m \in Nat : 2 * k = 2 * m
    BY <1>2
  <2>3. QED
    BY <2>1, <2>2
<1> HIDE DEF Holds
<1>3. T \in SUBSET Nat /\ 1 \in T
  BY <1>1
<1>4. \A k \in T : 2 * k \in T
  BY <1>2
<1>5. n \in T
  BY <1>3, <1>4 DEF PowerOfTwo
<1>6. QED
  BY <1>5 DEF Holds

(* All but one of the factors are another one and the rest.                  *)
LEMMA NotFactors ==
    ASSUME NEW F, Field(F), NEW w \in F, NEW x \in F, NEW n \in Nat, NEW i \in 0 .. n - 1,
           NEW j \in 0 .. n - 1, j # i
    PROVE  LET rest == ProductOver(Factors(w, x), ((0 .. n - 1) \ {i}) \ {j})
           IN  /\ Factors(w, x)[j] \in F /\ rest \in F
               /\ Others(w, x, n, i) = field_mul(Factors(w, x)[j], rest)
<1> DEFINE f == Factors(w, x)
           S == (0 .. n - 1) \ {i}
<1>1. S \in SUBSET (0 .. n - 1) /\ j \in S
  OBVIOUS
<1> HIDE DEF f, S
<1>2. Terms(F, f, S)
  BY <1>1, FactorsTerms DEF f
<1>3. ProductsSplit(F, f, S)
  BY <1>2, TermsSplit
<1>4. {j} \in SUBSET S /\ S \ {j} \in SUBSET S /\ {j} \cap (S \ {j}) = {} /\ {j} \cup (S \ {j}) = S
  BY <1>1
<1>5. ProductOver(f, S) = field_mul(f[j], ProductOver(f, S \ {j})) /\ ProductOver(f, S \ {j}) \in F
  BY <1>1, <1>3, <1>4 DEF ProductsSplit
<1>6. f[j] \in F
  BY <1>1, <1>2 DEF Terms
<1>7. QED
  BY <1>5, <1>6 DEF f, S, Others

(* At a root of unity the other factors make n, times its inverse.           *)
LEMMA OthersAtRoot ==
    ASSUME NEW F, Field(F), NEW n, PowerOfTwo(n), NEW w \in F, RootOf(w, n), NEW i \in 0 .. n - 1
    PROVE  /\ field_pow(w, i) \in F /\ Others(w, field_pow(w, i), n, i) \in F
           /\ field_mul(field_pow(w, i), Others(w, field_pow(w, i), n, i)) = Ones(n)
<1> DEFINE x == field_pow(w, i)
           g == Weighted(w, x, n)
           S == 0 .. n - 1
           R == S \ {i}
<1>1. n \in Nat \ {0}
  BY RootsOfUnity
<1>2. i \in Nat /\ i \in S /\ R \in SUBSET S /\ {i} \in SUBSET S /\ {i} \cap R = {} /\ {i} \cup R = S
  BY <1>1
<1>3. x \in F
  BY <1>2, PowerLaws
<1>4. Unity(F, w, x, n)
  BY <1>3, RootsOfUnity
<1>5. Terms(F, g, S) /\ Others(w, x, n, i) \in F
  BY <1>1, <1>3, OthersIn
<1>6. Factors(w, x)[i] = Zero
  <2>1. field_sub(x, x) = Zero
    BY <1>3, ZeroLaws
  <2>2. QED
    BY <1>2, <2>1 DEF Factors
<1>7. ASSUME NEW j \in R
      PROVE  g[j] = Zero
  <2>1. j \in Nat /\ j \in 0 .. n - 1 /\ i # j
    OBVIOUS
  <2> DEFINE rest == ProductOver(Factors(w, x), (S \ {j}) \ {i})
  <2>2. rest \in F /\ Others(w, x, n, j) = field_mul(Zero, rest)
    BY <1>1, <1>3, <1>6, <2>1, NotFactors
  <2>3. Others(w, x, n, j) = Zero
    BY <2>2, ZeroLaws
  <2>4. field_pow(w, j) \in F
    BY <2>1, PowerLaws
  <2>5. field_mul(field_pow(w, j), Zero) = Zero
    BY <2>4, ZeroLaws
  <2>6. QED
    BY <2>1, <2>3, <2>5 DEF Weighted
<1>8. g[i] = field_mul(x, Others(w, x, n, i))
  BY <1>2 DEF Weighted
<1>9. SumOver(g, S) = Ones(n)
  BY <1>4 DEF Unity
<1> HIDE DEF g, S, R, x
<1>10. SumsSplit(F, g, S)
  BY <1>5, TermsSplit
<1>11. SumOver(g, S) = field_add(g[i], SumOver(g, R)) /\ SumOver(g, R) \in F /\ g[i] \in F
  BY <1>2, <1>5, <1>10, ZenonT(60) DEF SumsSplit, Terms
<1>12. SumOver(g, R) = Zero
  <2>1. IsFiniteSet(R)
    BY <1>2, <1>5, FS_Subset DEF Terms
  <2>2. Terms(F, g, R)
    BY <1>2, <1>5, <2>1 DEF Terms
  <2>3. \A j \in R : g[j] = field_mul(Zero, g[j])
    BY <1>2, <1>5, <1>7, ZeroLaws DEF Terms
  <2>4. Zero \in F
    BY AddLaws
  <2>5. SumOver(g, R) = field_mul(Zero, SumOver(g, R))
    BY <2>2, <2>3, <2>4, SumScaled
  <2>6. QED
    BY <1>11, <2>5, ZeroLaws
<1>13. field_add(g[i], Zero) = g[i]
  BY <1>11, AddLaws
<1>14. QED
  BY <1>3, <1>5, <1>8, <1>9, <1>11, <1>12, <1>13 DEF x

\* The polynomial of degree n - 1 that is one at the i-th power of w, and zero
\* at the others.
Basis(w, x, n, i) ==
    field_product([j \in (0 .. n - 1) \ {i} |->
        field_mul(field_sub(x, field_pow(w, j)),
                  field_inverse(field_sub(field_pow(w, i), field_pow(w, j))))])

(* L_i by its definition is the others, divided by what they are at the root. *)
LEMMA BasisTimesOthers ==
    ASSUME NEW F, Field(F), NEW n, PowerOfTwo(n), NEW w \in F, RootOf(w, n), NEW i \in 0 .. n - 1,
           NEW x \in F, Ones(n) # Zero
    PROVE  /\ Basis(w, x, n, i) \in F
           /\ field_mul(Basis(w, x, n, i), Others(w, field_pow(w, i), n, i)) = Others(w, x, n, i)
<1> DEFINE p == field_pow(w, i)
           R == (0 .. n - 1) \ {i}
           f == Factors(w, x)
           g == Factors(w, p)
           b == [j \in R |-> field_mul(f[j], field_inverse(g[j]))]
<1>1. n \in Nat \ {0}
  BY RootsOfUnity
<1>2. R \in SUBSET (0 .. n - 1) /\ \A j \in R : j \in Nat /\ j \in 0 .. n - 1 /\ j # i
  OBVIOUS
<1>3. /\ p \in F /\ Others(w, p, n, i) \in F
      /\ field_mul(p, Others(w, p, n, i)) = Ones(n)
  BY OthersAtRoot
<1>4. Terms(F, f, R) /\ Terms(F, g, R)
  BY <1>1, <1>2, <1>3, FactorsTerms
<1>5. ASSUME NEW j \in R
      PROVE  g[j] \in F \ {Zero}
  <2>1. /\ g[j] \in F /\ ProductOver(g, R \ {j}) \in F
        /\ Others(w, p, n, i) = field_mul(g[j], ProductOver(g, R \ {j}))
    BY <1>1, <1>2, <1>3, NotFactors
  <2>2. g[j] # Zero
    <3>1. field_mul(Zero, ProductOver(g, R \ {j})) = Zero /\ field_mul(p, Zero) = Zero
      BY <1>3, <2>1, ZeroLaws
    <3>2. QED
      BY <1>3, <2>1, <3>1
  <2>3. QED
    BY <2>1, <2>2
<1>6. b = [j \in R |-> field_mul(field_sub(x, field_pow(w, j)),
                                 field_inverse(field_sub(p, field_pow(w, j))))]
  BY <1>2 DEF Factors
<1>7. Basis(w, x, n, i) = ProductOver(b, R)
  <2>1. [j \in R |-> b[j]] = b
    OBVIOUS
  <2> HIDE DEF b, R
  <2>2. Basis(w, x, n, i) = field_product(b)
    BY <1>6 DEF Basis, R, p
  <2>3. QED
    BY <2>1, <2>2 DEF ProductOver
<1>8. \A j \in R : b[j] = field_mul(f[j], field_inverse(g[j]))
  OBVIOUS
<1>9. Others(w, p, n, i) = ProductOver(g, R) /\ Others(w, x, n, i) = ProductOver(f, R)
  BY DEF Others
<1> HIDE DEF b, f, g, R, p
<1>a. \A r, s \in F : field_mul(r, s) \in F /\ field_mul(r, s) = field_mul(s, r)
  BY MulLaws
<1>b. \A r, s, t \in F : field_mul(r, field_mul(s, t)) = field_mul(field_mul(r, s), t)
  BY MulLaws
<1>10. \A j \in R : /\ b[j] \in F /\ f[j] = field_mul(b[j], g[j])
  <2>1. ASSUME NEW j \in R
        PROVE  b[j] \in F /\ f[j] = field_mul(b[j], g[j])
    <3>1. f[j] \in F /\ g[j] \in F
      BY <1>4 DEF Terms
    <3>2. field_inverse(g[j]) \in F /\ field_mul(g[j], field_inverse(g[j])) = One
      BY <1>5 DEF Field
    <3>3. field_mul(field_inverse(g[j]), g[j]) = One
      BY <3>1, <3>2, <1>a
    <3>4. field_mul(f[j], field_mul(field_inverse(g[j]), g[j])) = field_mul(b[j], g[j])
      BY <1>8, <1>b, <3>1, <3>2
    <3>5. field_mul(f[j], One) = f[j]
      BY <3>1, MulLaws
    <3>6. b[j] \in F
      BY <1>8, <1>a, <3>1, <3>2
    <3>7. QED
      BY <3>3, <3>4, <3>5, <3>6
  <2>2. QED
    BY <2>1
<1>11. Terms(F, b, R) /\ MultipliesTerms(b, g, f, R)
  BY <1>4, <1>10 DEF Terms, MultipliesTerms
<1>12. ProductOver(f, R) = field_mul(ProductOver(b, R), ProductOver(g, R))
  BY <1>4, <1>11, ProductsCombine
<1>13. ProductsSplit(F, b, R)
  BY <1>11, TermsSplit
<1>14. ProductOver(b, R) \in F
  BY <1>13 DEF ProductsSplit
<1>15. QED
  BY <1>7, <1>9, <1>12, <1>14 DEF p

(* Its value, from x^n - 1 alone: v is the inverse of that power of w.       *)
LEMMA BasisValue ==
    ASSUME NEW F, Field(F), NEW n, PowerOfTwo(n), NEW w \in F, RootOf(w, n), NEW i \in 0 .. n - 1,
           NEW x \in F, Ones(n) # Zero, NEW v \in F, field_mul(v, field_pow(w, i)) = One,
           field_sub(field_mul(x, v), One) # Zero
    PROVE  /\ Basis(w, x, n, i) \in F
           /\ Basis(w, x, n, i)
              = field_mul(field_mul(field_sub(field_pow(x, n), One), field_inverse(Ones(n))),
                          field_inverse(field_sub(field_mul(x, v), One)))
<1> DEFINE p == field_pow(w, i)
           at == Others(w, p, n, i)
           others == Others(w, x, n, i)
           b == Basis(w, x, n, i)
           d == field_sub(field_mul(x, v), One)
           u == field_sub(field_pow(x, n), One)
           N == Ones(n)
           M == field_inverse(N)
           e == field_inverse(d)
<1>1. n \in Nat \ {0} /\ i \in Nat /\ Unity(F, w, x, n)
  BY RootsOfUnity
<1>2. p \in F /\ at \in F /\ field_mul(p, at) = N
  BY OthersAtRoot
<1>3. b \in F /\ field_mul(b, at) = others
  BY BasisTimesOthers
<1>4. others \in F /\ field_mul(Factors(w, x)[i], others) = u
  BY <1>1, OthersIn DEF Unity
<1>5. Factors(w, x)[i] = field_sub(x, p)
  BY <1>1 DEF Factors
<1>6. /\ One \in F /\ field_mul(x, v) \in F /\ d \in F \ {Zero} /\ field_pow(x, n) \in F /\ u \in F
  <2>1. One \in F /\ field_mul(x, v) \in F
    BY MulLaws
  <2>2. field_pow(x, n) \in F
    BY <1>1, PowerLaws
  <2>3. QED
    BY <2>1, <2>2 DEF Field
<1>7. N \in F \ {Zero}
  BY <1>1, OnesDouble
<1>8. /\ M \in F /\ field_mul(N, M) = One /\ e \in F /\ field_mul(d, e) = One
  BY <1>6, <1>7 DEF Field
<1>9. field_mul(d, p) = field_sub(x, p)
  <2>1. field_mul(d, p) = field_sub(field_mul(field_mul(x, v), p), field_mul(One, p))
    BY <1>2, <1>6, SubLaws
  <2>2. field_mul(field_mul(x, v), p) = field_mul(x, field_mul(v, p))
    BY <1>2, MulLaws
  <2>3. field_mul(x, One) = x /\ field_mul(One, p) = p
    BY <1>2, MulLaws
  <2>4. QED
    BY <2>1, <2>2, <2>3
<1> HIDE DEF p, at, others, b, d, u, N, M, e
<1>10. \A r, s \in F : field_mul(r, s) \in F /\ field_mul(r, s) = field_mul(s, r)
  BY MulLaws
<1>11. \A r, s, t \in F : field_mul(r, field_mul(s, t)) = field_mul(field_mul(r, s), t)
  BY MulLaws
<1>12. field_mul(field_mul(d, b), N) = u
  <2>1. field_mul(field_mul(d, b), field_mul(p, at)) = field_mul(field_mul(d, p), field_mul(b, at))
    <3>1. field_mul(b, field_mul(p, at)) = field_mul(p, field_mul(b, at))
      <4>1. /\ field_mul(b, field_mul(p, at)) = field_mul(field_mul(b, p), at)
            /\ field_mul(p, field_mul(b, at)) = field_mul(field_mul(p, b), at)
        BY <1>2, <1>3, <1>11
      <4>2. QED
        BY <1>2, <1>3, <1>10, <4>1
    <3>2. field_mul(p, at) \in F /\ field_mul(b, at) \in F
      BY <1>2, <1>3, <1>10
    <3>3. /\ field_mul(field_mul(d, b), field_mul(p, at)) = field_mul(d, field_mul(b, field_mul(p, at)))
          /\ field_mul(field_mul(d, p), field_mul(b, at)) = field_mul(d, field_mul(p, field_mul(b, at)))
      BY <1>2, <1>3, <1>6, <1>11, <3>2
    <3>4. QED
      BY <3>1, <3>3
  <2>2. QED
    BY <1>2, <1>3, <1>4, <1>5, <1>9, <2>1
<1>13. field_mul(d, b) = field_mul(u, M)
  <2>1. field_mul(d, b) \in F
    BY <1>3, <1>6, <1>10
  <2>2. field_mul(field_mul(field_mul(d, b), N), M) = field_mul(field_mul(d, b), field_mul(N, M))
    BY <1>7, <1>8, <1>11, <2>1
  <2>3. field_mul(field_mul(d, b), One) = field_mul(d, b)
    BY <2>1, MulLaws
  <2>4. QED
    BY <1>8, <1>12, <2>2, <2>3
<1>14. field_mul(field_mul(u, M), e) = b
  <2>1. field_mul(field_mul(d, b), e) = field_mul(field_mul(b, d), e)
    BY <1>3, <1>6, <1>10
  <2>2. field_mul(field_mul(b, d), e) = field_mul(b, field_mul(d, e))
    BY <1>3, <1>6, <1>8, <1>11
  <2>3. field_mul(b, One) = b
    BY <1>3, MulLaws
  <2>4. QED
    BY <1>8, <1>13, <2>1, <2>2, <2>3
<1>15. QED
  BY <1>3, <1>14 DEF b, u, M, N, e, d

(* A root to the order is one.                                               *)
LEMMA RootToOrder ==
    ASSUME NEW F, Field(F), NEW n, PowerOfTwo(n), NEW w \in F, RootOf(w, n)
    PROVE  field_pow(w, n) = One
<1> DEFINE T == {k \in Nat : k = 1 \/ \E m \in Nat : k = 2 * m}
<1>1. T \in SUBSET Nat /\ 1 \in T /\ \A k \in T : 2 * k \in T
  OBVIOUS
<1>2. n \in T
  BY <1>1 DEF PowerOfTwo
<1>3. One \in F /\ negated(One) \in F /\ field_mul(One, One) = One
  BY MulLaws, ZeroLaws
<1>4. CASE n = 1
  <2>1. field_pow(One, 0) = One /\ field_pow(One, 0 + 1) = field_mul(One, field_pow(One, 0))
    BY <1>3 DEF Field
  <2>2. QED
    BY <1>3, <1>4, <2>1 DEF RootOf
<1>5. ASSUME NEW m \in Nat, n = 2 * m
      PROVE  field_pow(w, n) = One
  <2>1. field_pow(w, m) = negated(One)
    BY <1>5 DEF RootOf
  <2>2. field_mul(negated(One), negated(One)) = negated(field_mul(One, negated(One)))
    BY <1>3, ZeroLaws
  <2>3. field_mul(One, negated(One)) = negated(One)
    BY <1>3, MulLaws
  <2>4. negated(negated(One)) = One
    BY <1>3, SubLaws
  <2>5. field_mul(field_pow(w, m), field_pow(w, m)) = field_pow(w, m + m)
    BY PowerLaws
  <2>6. m + m = n
    BY <1>5
  <2>7. QED
    BY <2>1, <2>2, <2>3, <2>4, <2>5, <2>6
<1>6. QED
  BY <1>2, <1>4, <1>5

(* The value at any point of the polynomial that is w^i at each w^i.         *)
LEMMA PowersInterpolate ==
    ASSUME NEW F, Field(F), NEW n, PowerOfTwo(n), n # 1, NEW w \in F, RootOf(w, n),
           NEW x \in F, Ones(n) # Zero
    PROVE  SumOver([i \in Nat |-> field_mul(field_pow(w, i), Basis(w, x, n, i))], 0 .. n - 1) = x
<1> DEFINE S == 0 .. n - 1
           N == Ones(n)
           p == [i \in Nat |-> field_pow(w, i)]
           b == [i \in Nat |-> Basis(w, x, n, i)]
           f == [i \in Nat |-> field_mul(field_pow(w, i), Basis(w, x, n, i))]
           W == Weighted(w, x, n)
           u == field_sub(field_pow(x, n), One)
           nf == [i \in Nat |-> field_mul(N, f[i])]
           up == [i \in Nat |-> field_mul(u, p[i])]
           xW == [i \in Nat |-> field_mul(x, W[i])]
<1>1. n \in Nat \ {0} /\ Unity(F, w, x, n) /\ (\A i \in S : i \in Nat) /\ 0 \in S /\ 1 \in S
  BY RootsOfUnity
<1>2. \A r, s \in F : field_mul(r, s) \in F /\ field_mul(r, s) = field_mul(s, r)
  BY MulLaws
<1>3. \A r, s, t \in F : field_mul(r, field_mul(s, t)) = field_mul(field_mul(r, s), t)
  BY MulLaws
<1>4. N \in F /\ One \in F /\ u \in F
  BY <1>1, OnesDouble, MulLaws, PowerLaws DEF Field
<1>5. ASSUME NEW i \in S
      PROVE  /\ p[i] \in F /\ b[i] \in F /\ f[i] = field_mul(p[i], b[i]) /\ f[i] \in F
             /\ nf[i] = field_mul(N, f[i]) /\ up[i] = field_mul(u, p[i])
             /\ xW[i] = field_mul(x, W[i]) /\ W[i] \in F
             /\ xW[i] = field_add(nf[i], up[i])
  <2> DEFINE o == Others(w, x, n, i)
             a == Others(w, field_pow(w, i), n, i)
  <2>1. i \in Nat
    BY <1>1
  <2>2. /\ p[i] = field_pow(w, i) /\ b[i] = Basis(w, x, n, i) /\ f[i] = field_mul(p[i], b[i])
        /\ nf[i] = field_mul(N, f[i]) /\ up[i] = field_mul(u, p[i]) /\ xW[i] = field_mul(x, W[i])
    BY <2>1
  <2>3. p[i] \in F /\ a \in F /\ field_mul(p[i], a) = N
    BY <2>2, OthersAtRoot
  <2>4. b[i] \in F /\ field_mul(b[i], a) = o
    BY <2>2, BasisTimesOthers
  <2>5. o \in F /\ field_mul(field_sub(x, p[i]), o) = u
    <3>1. Factors(w, x)[i] = field_sub(x, p[i])
      BY <2>1, <2>2 DEF Factors
    <3>2. o \in F /\ field_mul(Factors(w, x)[i], o) = ProductOver(Factors(w, x), 0 .. n - 1)
      <4>1. n \in Nat /\ i \in 0 .. n - 1
        BY <1>1
      <4>2. /\ \A k \in 0 .. n - 1 : /\ Others(w, x, n, k) \in F
                                      /\ field_mul(Factors(w, x)[k], Others(w, x, n, k))
                                         = ProductOver(Factors(w, x), 0 .. n - 1)
        BY ONLY <4>1, OthersIn, Field(F), SMTT(30)
      <4>3. QED
        BY <4>1, <4>2
    <3>3. QED
      BY <1>1, <3>1, <3>2 DEF Unity
  <2>6. W[i] = field_mul(p[i], o)
    BY <2>1, <2>2 DEF Weighted
  <2> HIDE DEF o, a, p, b, f, W, u, nf, up, xW, N
  <2>7. nf[i] = field_mul(p[i], field_mul(p[i], o))
    <3>1. field_mul(N, field_mul(p[i], b[i])) = field_mul(p[i], field_mul(N, b[i]))
      <4>1. /\ field_mul(N, field_mul(p[i], b[i])) = field_mul(field_mul(N, p[i]), b[i])
            /\ field_mul(p[i], field_mul(N, b[i])) = field_mul(field_mul(p[i], N), b[i])
        BY <1>3, <1>4, <2>3, <2>4
      <4>2. QED
        BY <1>2, <1>4, <2>3, <4>1
    <3>2. field_mul(field_mul(p[i], a), b[i]) = field_mul(p[i], field_mul(a, b[i]))
      BY <1>3, <2>3, <2>4
    <3>3. field_mul(a, b[i]) = o
      BY <1>2, <2>3, <2>4
    <3>4. QED
      BY <2>2, <2>3, <3>1, <3>2, <3>3
  <2>8. field_mul(p[i], o) \in F /\ field_mul(x, o) \in F
    BY <1>2, <2>3, <2>5
  <2>9. field_mul(x, o) = field_add(u, field_mul(p[i], o))
    <3>1. field_sub(field_mul(x, o), field_mul(p[i], o)) = u
      BY <2>3, <2>5, SubLaws
    <3>2. field_add(field_sub(field_mul(x, o), field_mul(p[i], o)), field_mul(p[i], o)) = field_mul(x, o)
      BY <2>8 DEF Field
    <3>3. QED
      BY <3>1, <3>2
  <2>10. field_mul(p[i], field_add(u, field_mul(p[i], o)))
         = field_add(field_mul(p[i], u), field_mul(p[i], field_mul(p[i], o)))
    BY <1>4, <2>3, <2>8 DEF Field
  <2>11. field_mul(x, field_mul(p[i], o)) = field_mul(p[i], field_mul(x, o))
    <3>1. /\ field_mul(x, field_mul(p[i], o)) = field_mul(field_mul(x, p[i]), o)
          /\ field_mul(p[i], field_mul(x, o)) = field_mul(field_mul(p[i], x), o)
      BY <1>3, <2>3, <2>5
    <3>2. QED
      BY <1>2, <2>3, <3>1
  <2>12. field_mul(p[i], u) = up[i]
    BY <1>2, <1>4, <2>2, <2>3
  <2>13. nf[i] \in F /\ up[i] \in F /\ f[i] \in F /\ W[i] \in F
    BY <1>2, <1>4, <2>2, <2>3, <2>4, <2>6, <2>7, <2>8
  <2>14. xW[i] = field_add(up[i], nf[i])
    BY <2>2, <2>6, <2>7, <2>9, <2>10, <2>11, <2>12
  <2>15. field_add(up[i], nf[i]) = field_add(nf[i], up[i])
    BY <2>13, AddLaws
  <2>16. QED
    BY <2>2, <2>3, <2>4, <2>13, <2>14, <2>15
<1>6. IsFiniteSet(S)
  BY <1>1, FS_Interval
<1>7. SumOver(p, S) = Zero
  <2>1. p = [y \in Nat |-> field_pow(w, y)]
    OBVIOUS
  <2> HIDE DEF p
  <2>2. /\ SumOver(p, 0 .. n - 1) \in F
        /\ field_mul(field_sub(w, One), SumOver(p, 0 .. n - 1)) = field_sub(field_pow(w, n), One)
    BY <1>1, <2>1, GeometricSum
  <2>3. field_sub(field_pow(w, n), One) = Zero
    BY <1>4, RootToOrder, ZeroLaws
  <2>4. field_sub(w, One) \in F /\ field_sub(w, One) # Zero
    <3> DEFINE g == Factors(w, One)
               rest == ProductOver(g, (S \ {0}) \ {1})
    <3>1. field_pow(w, 0) = One /\ field_pow(w, 0 + 1) = field_mul(w, One)
      BY DEF Field
    <3>2. field_pow(w, 1) = w
      BY <3>1, MulLaws
    <3>3. g[1] = field_sub(One, w)
      BY <3>2 DEF Factors
    <3>4. field_mul(One, Others(w, One, n, 0)) = N
      BY <1>1, <3>1, OthersAtRoot
    <3>5. rest \in F /\ Others(w, One, n, 0) = field_mul(g[1], rest)
      BY <1>1, <1>4, NotFactors
    <3>6. ASSUME field_sub(w, One) = Zero
          PROVE  FALSE
      <4>1. w = One
        BY <1>4, <3>6, ZeroLaws
      <4>2. g[1] = Zero
        BY <1>4, <3>3, <4>1, ZeroLaws
      <4> HIDE DEF g, rest, N
      <4>3. Others(w, One, n, 0) = Zero
        BY <3>5, <4>2, ZeroLaws
      <4>4. field_mul(One, Zero) = Zero
        BY <1>4, ZeroLaws
      <4>5. QED
        BY <3>4, <4>3, <4>4 DEF N
    <3>7. QED
      BY <1>4, <3>6 DEF Field
  <2>5. QED
    BY <2>2, <2>3, <2>4, ZeroLaws
<1>8. SumOver(W, S) = N
  BY <1>1 DEF Unity
<1> HIDE DEF S, N, p, b, f, W, u, nf, up, xW
<1>9. Terms(F, p, S) /\ Terms(F, f, S) /\ Terms(F, W, S)
  BY <1>5, <1>6 DEF Terms
<1>10. Terms(F, nf, S) /\ Terms(F, up, S)
  <2>1. \A i \in S : nf[i] \in F /\ up[i] \in F
    BY <1>2, <1>4, <1>5
  <2>2. QED
    BY <1>6, <2>1 DEF Terms
<1>11. AddsTerms(nf, up, xW, S)
  BY <1>5 DEF AddsTerms
<1>12. SumOver(xW, S) = field_add(SumOver(nf, S), SumOver(up, S))
  BY <1>10, <1>11, SumsCombine
<1>13. /\ SumOver(xW, S) = field_mul(x, N)
       /\ SumOver(nf, S) = field_mul(N, SumOver(f, S))
       /\ SumOver(up, S) = field_mul(u, Zero)
  <2>1. /\ \A i \in S : xW[i] = field_mul(x, W[i]) /\ nf[i] = field_mul(N, f[i])
                        /\ up[i] = field_mul(u, p[i])
    BY <1>5
  <2>2. SumOver(xW, S) = field_mul(x, SumOver(W, S))
    BY <1>9, <2>1, SumScaled
  <2>3. SumOver(nf, S) = field_mul(N, SumOver(f, S))
    BY <1>4, <1>9, <2>1, SumScaled
  <2>4. SumOver(up, S) = field_mul(u, SumOver(p, S))
    BY <1>4, <1>9, <2>1, SumScaled
  <2>5. QED
    BY <1>7, <1>8, <2>2, <2>3, <2>4
<1>14. SumOver(f, S) \in F
  <2>1. SumsSplit(F, f, S)
    BY <1>9, TermsSplit
  <2>2. QED
    BY <2>1 DEF SumsSplit
<1>15. field_mul(x, N) = field_mul(N, SumOver(f, S))
  <2>1. field_mul(u, Zero) = Zero
    BY <1>4, ZeroLaws
  <2>2. field_mul(N, SumOver(f, S)) \in F
    BY <1>2, <1>4, <1>14
  <2>3. field_add(field_mul(N, SumOver(f, S)), Zero) = field_mul(N, SumOver(f, S))
    BY <2>2, AddLaws
  <2>4. QED
    BY <1>12, <1>13, <2>1, <2>3
<1>16. SumOver(f, S) = x
  <2> DEFINE s == SumOver(f, S)
  <2>1. field_mul(N, field_sub(s, x)) = field_sub(field_mul(N, s), field_mul(N, x))
    BY <1>4, <1>14, SubLaws
  <2>2. field_mul(N, s) \in F /\ field_mul(N, x) = field_mul(x, N)
    BY <1>2, <1>4, <1>14
  <2>3. field_sub(field_mul(N, s), field_mul(N, s)) = Zero
    BY <2>2, ZeroLaws
  <2>4. field_sub(s, x) \in F
    BY <1>14 DEF Field
  <2>5. field_mul(N, field_sub(s, x)) = Zero
    BY <1>15, <2>1, <2>2, <2>3
  <2>6. N # Zero
    BY DEF N
  <2> HIDE DEF s
  <2>7. field_sub(s, x) = Zero
    BY <1>4, <2>4, <2>5, <2>6, ZeroLaws
  <2>8. QED
    BY <1>14, <2>7, ZeroLaws DEF s
<1>17. QED
  BY <1>16 DEF f, S

-----------------------------------------------------------------------------
(* Turns: the powers of a root of the order 4 n, and sums over quarters.     *)

\* w turns once around in 4 n steps.
Turns(F, w, n) ==
    Field(F) /\ n \in Nat \ {0} /\ w \in F /\ field_pow(w, 2 * n) = negated(One)

\* i divided by N is q, and leaves r.
DividesTo(i, N, q, r) == N \in Nat \ {0} /\ q \in Int /\ r \in 0 .. N - 1 /\ i = N * q + r

(* A quotient and a remainder, told by how they make up the number; and the *)
(* remainder of a sum.                                                       *)
LEMMA RemaindersAre ==
    ASSUME NEW i, NEW N, NEW q, NEW r, DividesTo(i, N, q, r)
    PROVE  i % N = r /\ i \div N = q
<1>0. N \in Nat \ {0} /\ q \in Int /\ r \in 0 .. N - 1 /\ i \in Int /\ i = N * q + r
  BY DEF DividesTo
<1> DEFINE p == i \div N
           c == i % N
<1>1. p \in Int /\ c \in 0 .. N - 1 /\ i = N * p + c
  BY <1>0
<1> HIDE DEF p, c
<1>2. PICK s \in Int : s = p - q
  BY <1>0, <1>1
<1>3. N * s = N * p - N * q
  BY <1>0, <1>1, <1>2
<1>4. N * s = r - c
  BY <1>0, <1>1, <1>3
<1>5. s > -1
  <2>1. s <= -1 => N * s <= - N
    BY <1>0
  <2> QED
    BY <1>0, <1>1, <1>4, <2>1
<1>6. s < 1
  <2>1. s >= 1 => N * s >= N
    BY <1>0
  <2> QED
    BY <1>0, <1>1, <1>4, <2>1
<1>7. s = 0 /\ N * 0 = 0
  BY <1>0, <1>5, <1>6
<1>8. r = c /\ q = p
  BY <1>0, <1>1, <1>2, <1>4, <1>7
<1> QED
  BY <1>8 DEF c, p

LEMMA RemaindersAdd ==
    ASSUME NEW N \in Nat \ {0}, NEW j \in Int, NEW k \in Int
    PROVE  /\ j % N \in 0 .. N - 1 /\ k % N \in 0 .. N - 1 /\ (j + k) % N \in 0 .. N - 1
           /\ \/ (j % N) + (k % N) = (j + k) % N
              \/ (j % N) + (k % N) = ((j + k) % N) + N
<1> DEFINE a == j % N
           b == k % N
           p == j \div N
           q == k \div N
           c == (j + k) % N
<1>1. a \in 0 .. N - 1 /\ p \in Int /\ j = N * p + a
  OBVIOUS
<1>2. b \in 0 .. N - 1 /\ q \in Int /\ k = N * q + b
  OBVIOUS
<1>a. c \in 0 .. N - 1
  OBVIOUS
<1> HIDE DEF a, b, p, q
<1>3. N * (p + q) = N * p + N * q /\ N * (p + q + 1) = N * p + N * q + N
  BY <1>1, <1>2
<1>4. CASE a + b < N
  <2>1. a + b \in 0 .. N - 1 /\ j + k = N * (p + q) + (a + b) /\ p + q \in Int /\ j + k \in Int
    BY <1>1, <1>2, <1>3, <1>4
  <2>2. (j + k) % N = a + b
    <3>1. DividesTo(j + k, N, p + q, a + b)
      BY <2>1 DEF DividesTo
    <3> QED
      BY ONLY <3>1, RemaindersAre
  <2> QED
    BY <1>1, <1>2, <1>a, <2>2 DEF a, b, c
<1>5. CASE ~ (a + b < N)
  <2>1. a + b - N \in 0 .. N - 1 /\ j + k = N * (p + q + 1) + (a + b - N)
        /\ p + q + 1 \in Int /\ j + k \in Int
    BY <1>1, <1>2, <1>3, <1>5
  <2>2. (j + k) % N = a + b - N
    <3>1. DividesTo(j + k, N, p + q + 1, a + b - N)
      BY <2>1 DEF DividesTo
    <3> QED
      BY ONLY <3>1, RemaindersAre
  <2>3. c \in Int /\ c = a + b - N
    BY <1>a, <2>2
  <2> HIDE DEF c
  <2>4. a + b = c + N
    BY <1>1, <1>2, <2>3
  <2> QED
    BY <1>1, <1>2, <1>a, <2>4 DEF a, b, c
<1> QED
  BY <1>4, <1>5

\* The remainder r, and the power of w at it from a power below m.
HalfTurned(F, w, m, r) ==
    /\ r \in Nat /\ field_pow(w, r) \in F /\ r % m \in 0 .. m - 1
    /\ r < m => field_pow(w, r % m) = field_pow(w, r)
    /\ ~ (r < m) => negated(field_pow(w, r % m)) = field_pow(w, r)

(* The powers of a root of the order 4 n are those of the remainders, and    *)
(* half of them are the opposites of the others.                             *)
LEMMA TurnLaws ==
    ASSUME NEW F, NEW w, NEW n, Turns(F, w, n)
    PROVE  /\ \A e \in Int : HalfTurned(F, w, 2 * n, e % (4 * n))
           /\ \A j, k \in Int : field_mul(field_pow(w, j % (4 * n)), field_pow(w, k % (4 * n)))
                                = field_pow(w, (j + k) % (4 * n))
<1>0. /\ Field(F) /\ n \in Nat \ {0} /\ w \in F /\ field_pow(w, 2 * n) = negated(One)
  BY DEF Turns
<1>1. PICK m, N \in Nat \ {0} : m = 2 * n /\ N = 4 * n /\ N = m + m
  BY <1>0
<1>2. /\ \A k \in Nat : field_pow(w, k) \in F
      /\ \A j, k \in Nat : field_mul(field_pow(w, j), field_pow(w, k)) = field_pow(w, j + k)
  BY <1>0, PowerLaws
<1>3. \A k \in Nat : field_pow(w, k + m) = negated(field_pow(w, k))
  <2> SUFFICES ASSUME NEW k \in Nat
               PROVE  field_pow(w, k + m) = negated(field_pow(w, k))
    OBVIOUS
  <2>1. Zero \in F /\ field_pow(w, m) = negated(One)
    BY <1>0, <1>1, AddLaws
  <2> QED
    BY <1>0, <1>1, <2>1, HalfTurn
<1>4. \A k \in Nat : field_pow(w, k + N) = field_pow(w, k)
  <2> SUFFICES ASSUME NEW k \in Nat
               PROVE  field_pow(w, k + N) = field_pow(w, k)
    OBVIOUS
  <2>1. k + N = (k + m) + m /\ k + m \in Nat
    BY <1>1
  <2>2. field_pow(w, (k + m) + m) = negated(negated(field_pow(w, k)))
    BY <1>3, <2>1
  <2>3. negated(negated(field_pow(w, k))) = field_pow(w, k)
    BY <1>0, <1>2, SubLaws
  <2> QED
    BY <2>1, <2>2, <2>3
<1>5. ASSUME NEW r \in 0 .. N - 1
      PROVE  HalfTurned(F, w, m, r)
  <2>1. r \in Nat /\ field_pow(w, r) \in F
    BY <1>2
  <2>2. CASE r < m
    <3>1. DividesTo(r, m, 0, r) /\ r \in 0 .. m - 1
      BY <2>2 DEF DividesTo
    <3>2. r % m = r
      BY ONLY <3>1, RemaindersAre
    <3> QED
      BY <2>1, <2>2, <3>1, <3>2 DEF HalfTurned
  <2>3. CASE ~ (r < m)
    <3>1. /\ DividesTo(r, m, 1, r - m) /\ r - m \in 0 .. m - 1 /\ r - m \in Nat
          /\ r = (r - m) + m
      BY <1>1, <2>3 DEF DividesTo
    <3>2. r % m = r - m
      BY ONLY <3>1, RemaindersAre
    <3>3. field_pow(w, (r - m) + m) = negated(field_pow(w, r - m))
      BY <1>3, <3>1
    <3> QED
      BY <2>1, <2>3, <3>1, <3>2, <3>3 DEF HalfTurned
  <2> QED
    BY <2>2, <2>3
<1>6. ASSUME NEW a \in 0 .. N - 1, NEW b \in 0 .. N - 1, NEW c \in 0 .. N - 1,
             a + b = c \/ a + b = c + N
      PROVE  field_mul(field_pow(w, a), field_pow(w, b)) = field_pow(w, c)
  <2>1. field_mul(field_pow(w, a), field_pow(w, b)) = field_pow(w, a + b)
    BY <1>2
  <2>2. field_pow(w, c + N) = field_pow(w, c)
    BY <1>4
  <2> QED
    BY <1>6, <2>1, <2>2
<1>7. ASSUME NEW j \in Int, NEW k \in Int
      PROVE  field_mul(field_pow(w, j % N), field_pow(w, k % N)) = field_pow(w, (j + k) % N)
  <2>1. /\ j % N \in 0 .. N - 1 /\ k % N \in 0 .. N - 1 /\ (j + k) % N \in 0 .. N - 1
        /\ \/ (j % N) + (k % N) = (j + k) % N
           \/ (j % N) + (k % N) = ((j + k) % N) + N
    BY RemaindersAdd
  <2> QED
    BY ONLY <1>6, <2>1
<1>8. \A e \in Int : e % N \in 0 .. N - 1
  BY RemaindersAdd
<1> QED
  BY <1>1, <1>5, <1>7, <1>8

LEMMA TurnPowers ==
    ASSUME NEW F, NEW w, NEW n, Turns(F, w, n), NEW j \in Int
    PROVE  \A k \in Nat : field_pow(field_pow(w, j % (4 * n)), k) = field_pow(w, (j * k) % (4 * n))
<1> DEFINE y == field_pow(w, j % (4 * n))
           T == {k \in Nat : field_pow(y, k) = field_pow(w, (j * k) % (4 * n))}
<1>0. /\ Field(F) /\ n \in Nat \ {0} /\ w \in F
  BY DEF Turns
<1>1. y \in F
  BY TurnLaws DEF HalfTurned
<1>2. 0 \in T
  <2>1. field_pow(y, 0) = One /\ field_pow(w, 0) = One
    BY <1>0, <1>1 DEF Field
  <2>2. j * 0 = 0 /\ 0 % (4 * n) = 0
    BY <1>0
  <2> QED
    BY <2>1, <2>2
<1>3. ASSUME NEW k \in Nat, k \in T
      PROVE  k + 1 \in T
  <2>1. field_pow(y, k + 1) = field_mul(y, field_pow(y, k))
    BY <1>0, <1>1 DEF Field
  <2>2. field_pow(y, k) = field_pow(w, (j * k) % (4 * n))
    BY <1>3
  <2>3. j * k \in Int /\ j * (k + 1) = j + j * k
    OBVIOUS
  <2>4. field_mul(y, field_pow(w, (j * k) % (4 * n))) = field_pow(w, (j + j * k) % (4 * n))
    BY <2>3, TurnLaws
  <2> QED
    BY <2>1, <2>2, <2>3, <2>4
<1> HIDE DEF T
<1>4. \A k \in Nat : k \in T
  BY <1>2, <1>3, SetInduction
<1> QED
  BY <1>4 DEF T

(* A sum of four terms.                                                      *)
LEMMA FourTerms ==
    ASSUME NEW F, NEW f, \A j \in 0 .. 3 : f[j] \in F
    PROVE  Terms(F, f, 0 .. 3)
<1>1. PICK three \in Nat : three = 3
  OBVIOUS
<1>2. IsFiniteSet(0 .. three)
  BY FS_Interval
<1> QED
  BY <1>1, <1>2 DEF Terms

LEMMA SumOfFour ==
    ASSUME NEW F, Field(F), NEW f, Terms(F, f, 0 .. 3)
    PROVE  /\ field_sum([j \in 0 .. 3 |-> f[j]])
              = field_add(field_add(field_add(f[0], f[1]), f[2]), f[3])
           /\ field_sum([j \in 0 .. 3 |-> f[j]]) \in F
<1>0. \A i \in 0 .. 3 : f[i] \in F
  BY DEF Terms
<1>1. ASSUME NEW k \in 0 .. 3
      PROVE  /\ SumOver(f, {}) = Zero
             /\ SumOver(f, 0 .. k) = field_add(SumOver(f, 0 .. k - 1), f[k])
  <2>1. k \in Nat /\ \A i \in 0 .. k : f[i] \in F
    BY <1>0
  <2> QED
    BY ONLY <2>1, SumUpTo, Field(F)
<1>2. /\ SumOver(f, 0 .. 0) = f[0] /\ SumOver(f, 0 .. 1) = field_add(f[0], f[1])
  <2>1. f[0] \in F /\ 0 .. 0 - 1 = {} /\ 1 - 1 = 0 /\ 0 \in 0 .. 3 /\ 1 \in 0 .. 3
    BY <1>0
  <2>2. field_add(Zero, f[0]) = f[0]
    BY <2>1, AddLaws
  <2>3. SumOver(f, 0 .. 0) = field_add(Zero, f[0])
    BY <1>1, <2>1
  <2>4. SumOver(f, 0 .. 1) = field_add(SumOver(f, 0 .. 0), f[1])
    BY <1>1, <2>1
  <2> QED
    BY <2>2, <2>3, <2>4
<1>3. SumOver(f, 0 .. 2) = field_add(SumOver(f, 0 .. 1), f[2])
  <2>1. 2 - 1 = 1 /\ 2 \in 0 .. 3
    OBVIOUS
  <2> QED
    BY <1>1, <2>1
<1>4. SumOver(f, 0 .. 3) = field_add(SumOver(f, 0 .. 2), f[3])
  <2>1. 3 - 1 = 2 /\ 3 \in 0 .. 3
    OBVIOUS
  <2> QED
    BY <1>1, <2>1
<1>5. SumOver(f, 0 .. 3) \in F
  <2>1. SumsSplit(F, f, 0 .. 3)
    BY TermsSplit
  <2> QED
    BY <2>1 DEF SumsSplit
<1> QED
  BY <1>2, <1>3, <1>4, <1>5 DEF SumOver

\* g sums f over the indices that are n apart.
SumsQuarters(f, g, n) == \A i \in 0 .. n - 1 : g[i] = field_sum([j \in 0 .. 3 |-> f[i + j * n]])

(* A sum over four times as many terms, n apart.                             *)
LEMMA SumInQuarters ==
    ASSUME NEW F, Field(F), NEW n \in Nat, NEW f, Terms(F, f, 0 .. 4 * n - 1), NEW g,
           SumsQuarters(f, g, n)
    PROVE  /\ Terms(F, g, 0 .. n - 1)
           /\ SumOver(g, 0 .. n - 1) = SumOver(f, 0 .. 4 * n - 1)
<1> DEFINE S == 0 .. n - 1
           All == 0 .. 4 * n - 1
           Q(j) == j * n .. j * n + n - 1
           q(j) == [i \in Nat |-> f[i + j * n]]
           two == [i \in Nat |-> field_add(q(0)[i], q(1)[i])]
           three == [i \in Nat |-> field_add(two[i], q(2)[i])]
<1>1. IsFiniteSet(S) /\ \A k \in All : f[k] \in F
  <2>1. IsFiniteSet(0 .. n - 1)
    BY FS_Interval
  <2>2. \A k \in 0 .. 4 * n - 1 : f[k] \in F
    BY DEF Terms
  <2> QED
    BY <2>1, <2>2
<1>2. ASSUME NEW j \in 0 .. 3
      PROVE  /\ Terms(F, q(j), S) /\ SumOver(q(j), S) = SumOver(f, Q(j)) /\ Q(j) \in SUBSET All
             /\ \A i \in S : q(j)[i] = f[i + j * n]
  <2>1. PICK o \in Nat : o = j * n /\ o + n <= 4 * n
    <3>1. j = 0 \/ j = 1 \/ j = 2 \/ j = 3
      OBVIOUS
    <3> QED
      BY <3>1
  <2>2. \A i \in S : i + o \in All /\ i \in Nat
    BY <2>1
  <2>3. \A i \in S : q(j)[i] = f[i + o] /\ q(j)[i] \in F
    BY <1>1, <2>1, <2>2
  <2> DEFINE b == [i \in S |-> i + o]
             R == o .. o + n - 1
             p == q(j)
  <2>4. Terms(F, p, S)
    BY <1>1, <2>3 DEF Terms
  <2>5. Moved(f, p, b, S, R)
    <3>1. \A i \in S : b[i] = i + o /\ b[i] \in R
      BY <2>1
    <3>2. \A r \in R : r - o \in S /\ (r - o) + o = r
      BY <2>1
    <3>3. R = {b[i] : i \in S}
      BY <3>1, <3>2
    <3>4. \A i, k \in S : b[i] = b[k] => i = k
      BY <2>1, <3>1
    <3> QED
      BY <2>3, <3>1, <3>3, <3>4 DEF Moved
  <2> HIDE DEF p, b, R
  <2>6. SumOver(p, S) = SumOver(f, R)
    BY ONLY Field(F), <2>4, <2>5, SumsMove
  <2> QED
    <3>1. R = Q(j)
      BY <2>1 DEF R
    <3>2. Q(j) \in SUBSET All
      BY <2>1
    <3>3. \A i \in S : q(j)[i] = f[i + j * n]
      BY <2>1, <2>3
    <3> HIDE DEF Q, S, All
    <3>4. Terms(F, q(j), S) /\ SumOver(q(j), S) = SumOver(f, Q(j))
      BY ONLY <2>4, <2>6, <3>1 DEF p
    <3> QED
      BY ONLY <3>2, <3>3, <3>4
<1> HIDE DEF q
<1>3. 0 \in 0 .. 3 /\ 1 \in 0 .. 3 /\ 2 \in 0 .. 3 /\ 3 \in 0 .. 3
  OBVIOUS
<1>a. \A x, y \in F : field_add(x, y) \in F
  BY AddLaws
<1>b. \A i \in S : /\ i \in Nat
                   /\ q(0)[i] \in F /\ q(1)[i] \in F /\ q(2)[i] \in F /\ q(3)[i] \in F
                   /\ two[i] = field_add(q(0)[i], q(1)[i])
                   /\ three[i] = field_add(two[i], q(2)[i])
  BY <1>2, <1>3 DEF Terms
<1> HIDE DEF two, three
<1>4. Terms(F, two, S) /\ AddsTerms(q(0), q(1), two, S)
  BY <1>1, <1>a, <1>b DEF Terms, AddsTerms
<1>5. Terms(F, three, S) /\ AddsTerms(two, q(2), three, S)
  BY <1>1, <1>4, <1>a, <1>b DEF Terms, AddsTerms
<1>6. AddsTerms(three, q(3), g, S)
  <2> SUFFICES ASSUME NEW i \in S
               PROVE  g[i] = field_add(three[i], q(3)[i])
    BY DEF AddsTerms
  <2> DEFINE h == [j \in 0 .. 3 |-> f[i + j * n]]
  <2>1. g[i] = field_sum(h)
    BY DEF SumsQuarters
  <2>2. /\ h[0] = q(0)[i] /\ h[1] = q(1)[i] /\ h[2] = q(2)[i] /\ h[3] = q(3)[i]
        /\ h = [j \in 0 .. 3 |-> h[j]]
    BY <1>2, <1>3
  <2> HIDE DEF h
  <2>3. Terms(F, h, 0 .. 3)
    <3>1. \A j \in 0 .. 3 : j = 0 \/ j = 1 \/ j = 2 \/ j = 3
      OBVIOUS
    <3>2. h[0] \in F /\ h[1] \in F /\ h[2] \in F /\ h[3] \in F
      BY <1>b, <2>2
    <3>3. \A j \in 0 .. 3 : h[j] \in F
      BY <3>1, <3>2
    <3> QED
      <4>1. IsFiniteSet(0 .. 3)
        <5>1. PICK b \in Nat : b = 3
          OBVIOUS
        <5>2. IsFiniteSet(0 .. b)
          BY FS_Interval
        <5> QED
          BY <5>1, <5>2
      <4> QED
        BY <3>3, <4>1 DEF Terms
  <2>4. field_sum([j \in 0 .. 3 |-> h[j]]) = field_add(field_add(field_add(h[0], h[1]), h[2]), h[3])
    BY <2>3, SumOfFour
  <2> QED
    BY <1>b, <2>1, <2>2, <2>4
<1>7. Terms(F, g, S)
  BY <1>1, <1>2, <1>3, <1>5, <1>6, <1>a DEF Terms, AddsTerms
<1>8. Terms(F, q(0), S) /\ Terms(F, q(1), S) /\ Terms(F, q(2), S) /\ Terms(F, q(3), S)
  BY <1>2, <1>3
<1>9. /\ SumOver(two, S) = field_add(SumOver(q(0), S), SumOver(q(1), S))
      /\ SumOver(three, S) = field_add(SumOver(two, S), SumOver(q(2), S))
      /\ SumOver(g, S) = field_add(SumOver(three, S), SumOver(q(3), S))
  <2> HIDE DEF S
  <2>1. SumOver(two, S) = field_add(SumOver(q(0), S), SumOver(q(1), S))
    BY ONLY Field(F), <1>4, <1>8, SumsCombine
  <2>2. SumOver(three, S) = field_add(SumOver(two, S), SumOver(q(2), S))
    BY ONLY Field(F), <1>4, <1>5, <1>8, SumsCombine
  <2>3. SumOver(g, S) = field_add(SumOver(three, S), SumOver(q(3), S))
    BY ONLY Field(F), <1>5, <1>6, <1>8, SumsCombine
  <2> QED
    BY <2>1, <2>2, <2>3
<1>10. SumOver(f, All) = field_add(field_add(field_add(SumOver(f, Q(0)), SumOver(f, Q(1))),
                                             SumOver(f, Q(2))), SumOver(f, Q(3)))
  <2>1. SumsSplit(F, f, All)
    BY TermsSplit
  <2>2. \A A, B \in SUBSET All : A \cap B = {} =>
           SumOver(f, A \cup B) = field_add(SumOver(f, A), SumOver(f, B))
    BY <2>1 DEF SumsSplit
  <2>3. /\ Q(0) \in SUBSET All /\ Q(1) \in SUBSET All /\ Q(2) \in SUBSET All /\ Q(3) \in SUBSET All
        /\ Q(0) \cap Q(1) = {} /\ (Q(0) \cup Q(1)) \cap Q(2) = {}
        /\ (Q(0) \cup Q(1) \cup Q(2)) \cap Q(3) = {}
        /\ All = Q(0) \cup Q(1) \cup Q(2) \cup Q(3)
    OBVIOUS
  <2> HIDE DEF Q, All
  <2>4. SumOver(f, Q(0) \cup Q(1)) = field_add(SumOver(f, Q(0)), SumOver(f, Q(1)))
    BY <2>2, <2>3
  <2>5. SumOver(f, (Q(0) \cup Q(1)) \cup Q(2)) = field_add(SumOver(f, Q(0) \cup Q(1)), SumOver(f, Q(2)))
    <3>1. Q(0) \cup Q(1) \in SUBSET All
      BY <2>3
    <3> QED
      BY <2>2, <2>3, <3>1
  <2>6. SumOver(f, (Q(0) \cup Q(1) \cup Q(2)) \cup Q(3))
        = field_add(SumOver(f, Q(0) \cup Q(1) \cup Q(2)), SumOver(f, Q(3)))
    <3>1. Q(0) \cup Q(1) \cup Q(2) \in SUBSET All
      BY <2>3
    <3> QED
      BY <2>2, <2>3, <3>1
  <2> QED
    BY <2>3, <2>4, <2>5, <2>6
<1> QED
  BY <1>2, <1>3, <1>7, <1>9, <1>10

-----------------------------------------------------------------------------
(* Bits.                                                                     *)

(* Powers of two, as far as a word of 32 bits has them.                      *)
LEMMA PowersDouble ==
    \A b \in 0 .. 31 : 2^b \in Nat \ {0} /\ 2^(b + 1) \in Nat /\ 2^(b + 1) = 2 * 2^b
<1> DEFINE D(b) == 2^b \in Nat \ {0} /\ 2^(b + 1) \in Nat /\ 2^(b + 1) = 2 * 2^b
<1> SUFFICES ASSUME NEW b \in 0 .. 31 PROVE D(b)
  OBVIOUS
<1>1. \/ b = 0 \/ b = 1 \/ b = 2 \/ b = 3 \/ b = 4 \/ b = 5 \/ b = 6 \/ b = 7
      \/ b = 8 \/ b = 9 \/ b = 10 \/ b = 11 \/ b = 12 \/ b = 13 \/ b = 14 \/ b = 15
      \/ b = 16 \/ b = 17 \/ b = 18 \/ b = 19 \/ b = 20 \/ b = 21 \/ b = 22 \/ b = 23
      \/ b = 24 \/ b = 25 \/ b = 26 \/ b = 27 \/ b = 28 \/ b = 29 \/ b = 30 \/ b = 31
  OBVIOUS
<1>2. /\ D(0) /\ D(1) /\ D(2) /\ D(3) /\ D(4) /\ D(5) /\ D(6) /\ D(7)
      /\ D(8) /\ D(9) /\ D(10) /\ D(11) /\ D(12) /\ D(13) /\ D(14) /\ D(15)
      /\ D(16) /\ D(17) /\ D(18) /\ D(19) /\ D(20) /\ D(21) /\ D(22) /\ D(23)
      /\ D(24) /\ D(25) /\ D(26) /\ D(27) /\ D(28) /\ D(29) /\ D(30) /\ D(31)
  OBVIOUS
<1> HIDE DEF D
<1> QED
  BY ONLY <1>1, <1>2

(* They grow.                                                                *)
LEMMA PowersGrow ==
    \A b, c \in 0 .. 31 : b < c => 2^(b + 1) <= 2^c
<1> SUFFICES ASSUME NEW b \in 0 .. 31
             PROVE  \A c \in 0 .. 31 : b < c => 2^(b + 1) <= 2^c
  OBVIOUS
<1> DEFINE T == {k \in Nat : b + 1 + k <= 31 => 2^(b + 1) <= 2^(b + 1 + k)}
<1>1. 0 \in T
  <2>1. b + 1 \in 0 .. 31 => 2^(b + 1) \in Nat
    BY PowersDouble
  <2>2. b + 1 + 0 = b + 1
    OBVIOUS
  <2>3. b + 1 <= 31 => 2^(b + 1) <= 2^(b + 1)
    BY <2>1
  <2> QED
    BY <2>2, <2>3
<1>2. ASSUME NEW k \in Nat, k \in T
      PROVE  k + 1 \in T
  <2> SUFFICES ASSUME b + 1 + (k + 1) <= 31
               PROVE  2^(b + 1) <= 2^(b + 1 + (k + 1))
    OBVIOUS
  <2>1. PICK c \in 0 .. 31 : c = b + 1 + k
    OBVIOUS
  <2>2. 2^(b + 1) <= 2^c
    BY <1>2, <2>1
  <2>3. 2^c \in Nat /\ 2^(c + 1) = 2 * 2^c
    BY PowersDouble
  <2>4. 2^(b + 1) \in Nat
    BY PowersDouble
  <2>5. 2^(b + 1) <= 2^(c + 1)
    BY <2>2, <2>3, <2>4
  <2>6. c + 1 = b + 1 + (k + 1)
    BY <2>1
  <2> QED
    BY <2>5, <2>6
<1> HIDE DEF T
<1>3. \A k \in Nat : k \in T
  BY <1>1, <1>2, SetInduction
<1> SUFFICES ASSUME NEW c \in 0 .. 31, b < c
             PROVE  2^(b + 1) <= 2^c
  OBVIOUS
<1>4. PICK k \in Nat : c = b + 1 + k
  <2>1. c - (b + 1) \in Nat /\ c = b + 1 + (c - (b + 1))
    OBVIOUS
  <2> QED
    BY <2>1
<1>5. b + 1 + k <= 31 /\ k \in T
  BY <1>3, <1>4
<1> QED
  BY <1>4, <1>5 DEF T

(* The highest bit is the one that the powers of two tell.                   *)
LEMMA HighestBit ==
    ASSUME NEW b \in 0 .. 31, NEW x \in Nat, 2^b <= x, x < 2^(b + 1)
    PROVE  get_msb(x) = b
<1> DEFINE P(c) == 2^c <= x /\ x < 2^(c + 1)
           h == CHOOSE c \in 0 .. 31 : P(c)
<1>0. 2^b \in Nat \ {0}
  BY PowersDouble
<1>1. x # 0
  BY <1>0
<1>2. get_msb(x) = h
  BY <1>1 DEF get_msb
<1>3. P(b)
  OBVIOUS
<1>4. h \in 0 .. 31 /\ P(h)
  <2> HIDE DEF P
  <2> QED
    BY <1>3
<1> HIDE DEF h
<1>5. \A c \in 0 .. 31 : 2^c \in Nat /\ 2^(c + 1) \in Nat
  BY PowersDouble
<1>6. ~ (b < h) /\ ~ (h < b)
  <2>1. b < h => 2^(b + 1) <= 2^h
    BY <1>4, PowersGrow
  <2>2. h < b => 2^(h + 1) <= 2^b
    BY <1>4, PowersGrow
  <2> QED
    BY <1>3, <1>4, <1>5, <2>1, <2>2
<1> QED
  BY <1>2, <1>4, <1>6

(* Every number has one.                                                     *)
LEMMA SomeBit ==
    ASSUME NEW x \in Nat \ {0}, x < 2^31
    PROVE  \E c \in 0 .. 30 : 2^c <= x /\ x < 2^(c + 1)
<1> DEFINE T == {k \in Nat : k <= 31 => (x < 2^k => \E c \in 0 .. 30 : 2^c <= x /\ x < 2^(c + 1))}
<1>1. 0 \in T
  <2>1. 2^0 = 1
    OBVIOUS
  <2> QED
    BY <2>1
<1>2. \A k \in Nat : k \in T => k + 1 \in T
  <2> SUFFICES ASSUME NEW k \in Nat, k \in T, k + 1 <= 31, x < 2^(k + 1)
               PROVE  \E c \in 0 .. 30 : 2^c <= x /\ x < 2^(c + 1)
    OBVIOUS
  <2>1. k \in 0 .. 30 /\ k \in 0 .. 31
    OBVIOUS
  <2>2. 2^k \in Nat
    BY <2>1, PowersDouble
  <2>3. x < 2^k \/ 2^k <= x
    BY <2>2
  <2> QED
    BY <2>1, <2>3
<1> HIDE DEF T
<1>3. 31 \in T
  BY <1>1, <1>2, SetInduction
<1> QED
  BY <1>3 DEF T

-----------------------------------------------------------------------------
(* Folds over a sequence.                                                    *)

(* A loop takes the last of its elements last.                               *)
LEMMA LastIsLargest ==
    ASSUME NEW n \in Nat, NEW s \in SUBSET (1 .. n), s # {}
    PROVE  Max(s) \in s /\ \A y \in s : y <= Max(s)
<1> DEFINE T == {n - y : y \in s}
<1>1. T \in SUBSET Nat /\ T # {}
  <2>1. \A y \in s : n - y \in Nat
    OBVIOUS
  <2>2. PICK y \in s : TRUE
    OBVIOUS
  <2>3. n - y \in T
    OBVIOUS
  <2>4. T \in SUBSET Nat
    BY ONLY <2>1
  <2> QED
    BY ONLY <2>3, <2>4
<1>2. PICK k \in T : \A j \in T : k <= j
  BY <1>1, LeastOfNaturals
<1>3. PICK x \in s : k = n - x
  BY <1>2
<1>4. \A y \in s : x >= y
  <2> SUFFICES ASSUME NEW y \in s PROVE x >= y
    OBVIOUS
  <2>1. n - y \in T
    OBVIOUS
  <2>2. k <= n - y
    BY <1>2, <2>1
  <2>3. x \in 1 .. n /\ y \in 1 .. n
    OBVIOUS
  <2> QED
    BY <1>3, <2>2, <2>3
<1>5. Max(s) \in s /\ \A y \in s : Max(s) >= y
  BY <1>4 DEF Max
<1> QED
  BY <1>5

(* Of what it has taken so far, too.                                         *)
LEMMA LastOfPrefix ==
    ASSUME NEW n \in Nat, NEW j \in 1 .. n
    PROVE  /\ 1 .. j \in SUBSET (1 .. n) /\ 1 .. j - 1 \in SUBSET (1 .. n)
           /\ 1 .. j # {} /\ Max(1 .. j) = j /\ (1 .. j) \ {Max(1 .. j)} = 1 .. j - 1
<1>1. 1 .. j \in SUBSET (1 .. n) /\ 1 .. j - 1 \in SUBSET (1 .. n) /\ j \in 1 .. j
  OBVIOUS
<1>2. Max(1 .. j) \in 1 .. j /\ j <= Max(1 .. j)
  BY <1>1, LastIsLargest
<1>3. Max(1 .. j) = j
  BY <1>2
<1> QED
  BY <1>1, <1>3

\* The function that a fold over n elements recurses on, whose step is g.
IsLeftFold(k, base, g, n) ==
    k = [s \in SUBSET (1 .. n) |-> IF s = {} THEN base ELSE g[<<k[s \ {Max(s)}], Max(s)>>]]

(* There is one.                                                             *)
LEMMA LeftFoldExists ==
    ASSUME NEW A, NEW base \in A, NEW n \in Nat, NEW g \in [A \X (1 .. n) -> A]
    PROVE  \E k \in [SUBSET (1 .. n) -> A] : IsLeftFold(k, base, g, n)
<1> DEFINE Ex(j) == \E k \in [SUBSET (1 .. j) -> A] : IsLeftFold(k, base, g, j)
           T == {j \in Nat : j <= n => Ex(j)}
<1>1. Ex(0)
  <2> DEFINE k == [s \in SUBSET (1 .. 0) |-> base]
  <2>1. SUBSET (1 .. 0) = {{}}
    OBVIOUS
  <2>2. k \in [SUBSET (1 .. 0) -> A]
    OBVIOUS
  <2>3. IsLeftFold(k, base, g, 0)
    BY <2>1 DEF IsLeftFold
  <2> QED
    BY <2>2, <2>3
<1>2. ASSUME NEW j \in Nat, Ex(j), j + 1 <= n
      PROVE  Ex(j + 1)
  <2>1. PICK h \in [SUBSET (1 .. j) -> A] : IsLeftFold(h, base, g, j)
    BY <1>2
  <2> DEFINE k == [s \in SUBSET (1 .. j + 1) |->
                      IF s = {} THEN base ELSE g[<<h[s \ {Max(s)}], Max(s)>>]]
  <2>2. ASSUME NEW s \in SUBSET (1 .. j + 1), s # {}
        PROVE  s \ {Max(s)} \in SUBSET (1 .. j) /\ Max(s) \in 1 .. n
    <3>1. j + 1 \in Nat /\ s \in SUBSET (1 .. j + 1) /\ s # {}
      BY <2>2
    <3>2. Max(s) \in s /\ \A y \in s : y <= Max(s)
      BY ONLY <3>1, LastIsLargest
    <3> DEFINE x == Max(s)
    <3> HIDE DEF x
    <3>3. x \in s /\ \A y \in s : y <= x
      BY <3>2 DEF x
    <3>4. x \in 1 .. n
      BY <1>2, <3>3
    <3>5. \A y \in s \ {x} : y \in 1 .. j
      BY <3>3
    <3> QED
      BY ONLY <3>4, <3>5 DEF x
  <2>3. ASSUME NEW s \in SUBSET (1 .. j + 1), s # {}
        PROVE  h[s \ {Max(s)}] \in A /\ k[s] = g[<<h[s \ {Max(s)}], Max(s)>>] /\ k[s] \in A
    BY <2>2, <2>3
  <2>4. k[{}] = base
    OBVIOUS
  <2>5. h[{}] = base /\ \A s \in SUBSET (1 .. j) : s # {} => h[s] = g[<<h[s \ {Max(s)}], Max(s)>>]
    BY <2>1 DEF IsLeftFold
  <2>6. k = [s \in SUBSET (1 .. j + 1) |-> k[s]]
    OBVIOUS
  <2> HIDE DEF k
  <2>7. ASSUME NEW s \in SUBSET (1 .. j)
        PROVE  k[s] = h[s]
    <3>1. s \in SUBSET (1 .. j + 1)
      OBVIOUS
    <3> QED
      BY <2>3, <2>4, <2>5, <3>1
  <2>8. ASSUME NEW s \in SUBSET (1 .. j + 1)
        PROVE  /\ k[s] = IF s = {} THEN base ELSE g[<<k[s \ {Max(s)}], Max(s)>>]
               /\ k[s] \in A
    BY <2>2, <2>3, <2>4, <2>7
  <2>9. IsLeftFold(k, base, g, j + 1)
    BY <2>6, <2>8 DEF IsLeftFold
  <2>10. k \in [SUBSET (1 .. j + 1) -> A]
    BY <2>6, <2>8
  <2> QED
    BY <2>9, <2>10
<1> HIDE DEF Ex
<1>3. 0 \in T /\ \A j \in Nat : j \in T => j + 1 \in T
  BY <1>1, <1>2
<1> HIDE DEF T
<1>4. n \in T
  BY <1>3, SetInduction
<1>5. Ex(n)
  BY <1>4 DEF T
<1> QED
  BY <1>5 DEF Ex

(* It is what a loop over the elements has at its end.                       *)
LEMMA PrefixesFold ==
    ASSUME NEW n \in Nat, NEW k, NEW h, k[{}] = h[0],
           \A j \in 1 .. n : k[1 .. j - 1] = h[j - 1] => k[1 .. j] = h[j]
    PROVE  k[1 .. n] = h[n]
<1> DEFINE T == {j \in Nat : j <= n => k[1 .. j] = h[j]}
<1>1. 0 \in T
  <2>1. 1 .. 0 = {}
    OBVIOUS
  <2> QED
    BY <2>1
<1>2. ASSUME NEW j \in Nat, j \in T
      PROVE  j + 1 \in T
  <2> SUFFICES ASSUME j + 1 <= n PROVE k[1 .. j + 1] = h[j + 1]
    OBVIOUS
  <2>1. j + 1 \in 1 .. n /\ (j + 1) - 1 = j /\ j <= n
    OBVIOUS
  <2>2. k[1 .. j] = h[j]
    BY <1>2, <2>1
  <2> QED
    BY <2>1, <2>2
<1> HIDE DEF T
<1>3. n \in T
  BY <1>1, <1>2, SetInduction
<1> QED
  BY <1>3 DEF T

-----------------------------------------------------------------------------
(* The tables of roots.                                                      *)

(* Where a round's roots begin, two less than a power of two.                *)
LEMMA OffsetsAre ==
    ASSUME NEW b \in 1 .. 31
    PROVE  round_root_offsets(b) = [i \in 0 .. b - 2 |-> 2^(i + 1) - 2]
<1> DEFINE Rec(at) == at = [i \in 0 .. b - 2 |-> IF i = 0 THEN 0 ELSE at[i - 1] + 2^i]
           h == [i \in 0 .. b - 2 |-> 2^(i + 1) - 2]
           c == CHOOSE at : Rec(at)
<1>1. \A i \in 0 .. b - 2 : 2^i \in Nat /\ 2^(i + 1) \in Nat /\ 2^(i + 1) = 2 * 2^i
  <2>1. 0 .. b - 2 \subseteq 0 .. 31
    OBVIOUS
  <2> QED
    BY ONLY <2>1, PowersDouble
<1>2. 2^(0 + 1) - 2 = 0
  OBVIOUS
<1>3. \A i \in 0 .. b - 2 : h[i] = IF i = 0 THEN 0 ELSE h[i - 1] + 2^i
  <2> SUFFICES ASSUME NEW i \in 0 .. b - 2, i # 0 PROVE h[i] = h[i - 1] + 2^i
    BY <1>2
  <2>1. i - 1 \in 0 .. b - 2 /\ (i - 1) + 1 = i
    OBVIOUS
  <2>2. h[i - 1] = 2^i - 2
    BY <2>1
  <2> QED
    BY <1>1, <2>2
<1>4. h = [i \in 0 .. b - 2 |-> h[i]]
  OBVIOUS
<1> HIDE DEF h
<1>5. Rec(h)
  BY <1>3, <1>4
<1> HIDE DEF Rec
<1>6. Rec(c)
  BY <1>5
<1> HIDE DEF c
<1>7. c = [i \in 0 .. b - 2 |-> c[i]] /\ \A i \in 0 .. b - 2 : c[i] = IF i = 0 THEN 0 ELSE c[i - 1] + 2^i
  BY <1>6 DEF Rec
<1> DEFINE T == {i \in Nat : i <= b - 2 => c[i] = h[i]}
<1>8. 0 \in T
  BY <1>3, <1>7
<1>9. \A k \in Nat : k \in T => k + 1 \in T
  <2> SUFFICES ASSUME NEW k \in Nat, k \in T, k + 1 <= b - 2 PROVE c[k + 1] = h[k + 1]
    OBVIOUS
  <2>1. k + 1 \in 0 .. b - 2 /\ (k + 1) - 1 = k /\ k + 1 # 0 /\ k <= b - 2
    OBVIOUS
  <2>2. c[k] = h[k]
    BY <2>1
  <2>3. h[k + 1] = h[k] + 2^(k + 1)
    BY ONLY <1>3, <2>1
  <2>4. \A i \in 0 .. b - 2 : c[i] = IF i = 0 THEN 0 ELSE c[i - 1] + 2^i
    BY ONLY <1>7
  <2>5. c[k + 1] = c[k] + 2^(k + 1)
    BY ONLY <2>1, <2>4
  <2> QED
    BY ONLY <2>2, <2>3, <2>5
<1> HIDE DEF T
<1>10. \A k \in Nat : k \in T
  BY <1>8, <1>9, SetInduction
<1>11. \A i \in 0 .. b - 2 : c[i] = h[i]
  BY <1>10 DEF T
<1>12. c = h
  BY <1>4, <1>7, <1>11
<1>13. round_root_offsets(b) = c
  BY DEF round_root_offsets, c, Rec
<1> QED
  BY <1>12, <1>13 DEF h

\* The element at x of the table, after j rounds: what x has at the end, once
\* the round that writes it has been taken.
Entry(root, size, x, j) ==
    LET i == get_msb(x + 2) - 1
    IN  IF i < j THEN field_pow(field_pow(root, size \div (2 * 2^(i + 1))), x - (2^(i + 1) - 2)) ELSE One

(* A round writes from its offset to where the next begins.                  *)
LEMMA RoundOfEntry ==
    ASSUME NEW i \in 0 .. 29, NEW x \in Nat, x < 2^30
    PROVE  /\ get_msb(x + 2) \in Nat \ {0}
           /\ (x - (2^(i + 1) - 2) \in 0 .. 2^(i + 1) - 1) <=> (get_msb(x + 2) - 1 = i)
<1>1. i + 1 \in 0 .. 31 /\ i + 1 + 1 \in 0 .. 31
  OBVIOUS
<1> DEFINE m == 2^(i + 1)
<1>2. m \in Nat /\ 2^(i + 1 + 1) = 2 * m
  BY <1>1, PowersDouble
<1>3. x + 2 \in Nat /\ x + 2 # 0
  OBVIOUS
<1>4. (x - (m - 2) \in 0 .. m - 1) <=> (m <= x + 2 /\ x + 2 < 2 * m)
  <2> HIDE DEF m
  <2> QED
    BY <1>2
<1>5. (m <= x + 2 /\ x + 2 < 2^(i + 1 + 1)) => get_msb(x + 2) = i + 1
  BY <1>1, <1>3, HighestBit DEF m
<1>6. get_msb(x + 2) - 1 = i => get_msb(x + 2) = i + 1 /\ m <= x + 2 /\ x + 2 < 2^(i + 1 + 1)
  <2>1. PICK c \in 0 .. 30 : 2^c <= x + 2 /\ x + 2 < 2^(c + 1)
    BY <1>3, SomeBit
  <2>2. get_msb(x + 2) = c
    <3>1. c \in 0 .. 31
      OBVIOUS
    <3> QED
      BY <1>3, <2>1, <3>1, HighestBit
  <2> HIDE DEF m
  <2>3. get_msb(x + 2) - 1 = i => c = i + 1
    BY <2>2
  <2> QED
    BY <2>1, <2>2, <2>3 DEF m
<1> HIDE DEF m
<1> QED
  <2>1. get_msb(x + 2) = i + 1 => get_msb(x + 2) - 1 = i
    OBVIOUS
  <2>2. get_msb(x + 2) \in Nat \ {0}
    <3>1. PICK c \in 0 .. 30 : 2^c <= x + 2 /\ x + 2 < 2^(c + 1)
      BY <1>3, SomeBit
    <3>2. c \in 0 .. 31 /\ (c = 0 => 2^(c + 1) = 2)
      <4>1. 2^(0 + 1) = 2
        OBVIOUS
      <4>2. c \in 0 .. 31
        OBVIOUS
      <4> QED
        BY ONLY <4>1, <4>2
    <3>3. get_msb(x + 2) = c
      BY <1>3, <3>1, <3>2, HighestBit
    <3> QED
      BY <3>1, <3>2, <3>3
  <2> QED
    BY <1>2, <1>4, <1>5, <1>6, <2>1, <2>2 DEF m

(* The table has the powers of each round's root in its row.                 *)
LEMMA TableIs ==
    ASSUME NEW b \in 1 .. 30, NEW size, size = 2^b, NEW root
    PROVE  compute_lookup_table_single(root, size) = [x \in 0 .. size - 1 |-> Entry(root, size, x, b - 1)]
<1> DEFINE num_rounds == get_msb(size)
           n == num_rounds - 1
           seq == Indices(n)
           offsets == round_root_offsets(num_rounds)
           Power(i, x) == field_pow(field_pow(root, size \div (2 * 2^(i + 1))), x - offsets[i])
           Round(table, i) ==
               [x \in DOMAIN table |->
                    IF x - offsets[i] \in 0 .. 2^(i + 1) - 1 THEN Power(i, x) ELSE table[x]]
           base == [x \in 0 .. size - 1 |-> One]
           Rec(k) == k = [s \in SUBSET (DOMAIN seq) |->
                             IF s = {} THEN base ELSE Round(k[s \ {Max(s)}], seq[Max(s)])]
           V == {One} \cup {field_pow(field_pow(root, p), q) : p \in Nat, q \in Nat}
           A == [0 .. size - 1 -> V]
           g == [p \in A \X (1 .. n) |-> Round(p[1], seq[p[2]])]
           c == CHOOSE k : Rec(k)
           T(j) == [x \in 0 .. size - 1 |-> Entry(root, size, x, j)]
<1>1. compute_lookup_table_single(root, size) = c[DOMAIN seq]
  BY DEF compute_lookup_table_single, FoldLeft, MapThenFoldSet
<1>2. size \in Nat \ {0} /\ num_rounds = b /\ size <= 2^30
  <2>0. b \in 0 .. 31 /\ 30 \in 0 .. 31
    OBVIOUS
  <2>1. size \in Nat \ {0} /\ 2^(b + 1) = 2 * size
    BY <2>0, PowersDouble
  <2>2. num_rounds = b
    <3>1. 2^b <= size /\ size < 2^(b + 1)
      BY <2>1
    <3> QED
      BY <2>0, <2>1, <3>1, HighestBit
  <2>3. size <= 2^30
    <3>1. b < 30 => 2^(b + 1) <= 2^30
      BY <2>0, PowersGrow
    <3>2. 2^30 \in Nat
      OBVIOUS
    <3>3. b = 30 => size = 2^30
      OBVIOUS
    <3> QED
      BY <2>1, <3>1, <3>2, <3>3
  <2> QED
    BY <2>1, <2>2, <2>3
<1>3. offsets = [i \in 0 .. b - 2 |-> 2^(i + 1) - 2]
  <2>1. b \in 1 .. 31
    OBVIOUS
  <2> QED
    BY <1>2, <2>1, OffsetsAre
<1>4. n = b - 1 /\ n \in Nat /\ DOMAIN seq = 1 .. n /\ \A j \in 1 .. n : seq[j] = j - 1
  BY <1>2 DEF Indices
<1>5. \A i \in 0 .. n - 1 : 2^(i + 1) \in Nat \ {0} /\ offsets[i] \in Nat
  <2> SUFFICES ASSUME NEW i \in 0 .. n - 1 PROVE 2^(i + 1) \in Nat \ {0} /\ offsets[i] \in Nat
    OBVIOUS
  <2>1. i \in 0 .. 31 /\ i \in 0 .. b - 2
    BY <1>4
  <2>2. 2^i \in Nat \ {0} /\ 2^(i + 1) \in Nat /\ 2^(i + 1) = 2 * 2^i
    BY <2>1, PowersDouble
  <2> HIDE DEF offsets
  <2>3. offsets[i] = 2^(i + 1) - 2
    BY <1>3, <2>1
  <2> QED
    BY <2>2, <2>3
<1> HIDE DEF offsets, num_rounds
<1>6. ASSUME NEW t \in A, NEW j \in 1 .. n
      PROVE  Round(t, seq[j]) \in A
  <2>1. seq[j] = j - 1 /\ j - 1 \in 0 .. n - 1
    BY <1>4
  <2> DEFINE i == j - 1
  <2>2. 2^(i + 1) \in Nat \ {0} /\ offsets[i] \in Nat
    BY <1>5, <2>1
  <2>3. size \div (2 * 2^(i + 1)) \in Nat
    BY <1>2, <2>2
  <2>4. ASSUME NEW x \in 0 .. size - 1, x - offsets[i] \in 0 .. 2^(i + 1) - 1
        PROVE  Power(i, x) \in V
    <3>1. x - offsets[i] \in Nat
      BY <2>2, <2>4
    <3> QED
      BY <2>3, <3>1
  <2>5. DOMAIN t = 0 .. size - 1 /\ \A x \in 0 .. size - 1 : t[x] \in V
    OBVIOUS
  <2> HIDE DEF V, Power
  <2> QED
    BY <2>1, <2>4, <2>5
<1>7. base \in A
  OBVIOUS
<1> HIDE DEF A, Round, base, seq
<1>8. g \in [A \X (1 .. n) -> A]
  BY <1>6
<1>9. PICK k0 \in [SUBSET (1 .. n) -> A] : IsLeftFold(k0, base, g, n)
  <2> HIDE DEF g, n
  <2> QED
    BY <1>4, <1>7, <1>8, LeftFoldExists
<1>10. Rec(k0)
  <2>1. ASSUME NEW s \in SUBSET (1 .. n), s # {}
        PROVE  k0[s] = Round(k0[s \ {Max(s)}], seq[Max(s)])
    <3>1. Max(s) \in 1 .. n /\ s \ {Max(s)} \in SUBSET (1 .. n)
      <4> HIDE DEF n
      <4>1. Max(s) \in s
        BY <1>4, <2>1, LastIsLargest
      <4> QED
        BY <4>1
    <3>2. k0[s \ {Max(s)}] \in A
      BY <3>1
    <3>3. k0[s] = g[<<k0[s \ {Max(s)}], Max(s)>>]
      BY <1>9, <2>1 DEF IsLeftFold
    <3> QED
      BY <3>1, <3>2, <3>3
  <2>2. k0[{}] = base /\ DOMAIN k0 = SUBSET (1 .. n)
    BY <1>9 DEF IsLeftFold
  <2>3. k0 = [s \in SUBSET (1 .. n) |-> k0[s]]
    OBVIOUS
  <2> QED
    BY <1>4, <2>1, <2>2, <2>3
<1>11. Rec(c)
  <2> HIDE DEF Rec
  <2> QED
    BY <1>10
<1>12. /\ c[{}] = base
       /\ \A s \in SUBSET (1 .. n) : s # {} => c[s] = Round(c[s \ {Max(s)}], seq[Max(s)])
  <2> HIDE DEF c
  <2> QED
    BY <1>4, <1>11
<1> HIDE DEF c, g, Rec
<1> DEFINE h == [j \in 0 .. n |-> T(j)]
<1>13. \A x \in 0 .. size - 1 :
          /\ get_msb(x + 2) \in Nat \ {0}
          /\ \A i \in 0 .. n - 1 : (x - offsets[i] \in 0 .. 2^(i + 1) - 1) <=> (get_msb(x + 2) - 1 = i)
  <2> SUFFICES ASSUME NEW x \in 0 .. size - 1
               PROVE  /\ get_msb(x + 2) \in Nat \ {0}
                      /\ \A i \in 0 .. n - 1 :
                            (x - offsets[i] \in 0 .. 2^(i + 1) - 1) <=> (get_msb(x + 2) - 1 = i)
    OBVIOUS
  <2>1. x \in Nat /\ x < 2^30
    BY <1>2
  <2>2. get_msb(x + 2) \in Nat \ {0}
    <3>1. 0 \in 0 .. 29
      OBVIOUS
    <3> QED
      BY ONLY <2>1, <3>1, RoundOfEntry
  <2>3. ASSUME NEW i \in 0 .. n - 1
        PROVE  (x - offsets[i] \in 0 .. 2^(i + 1) - 1) <=> (get_msb(x + 2) - 1 = i)
    <3>1. i \in 0 .. 29 /\ offsets[i] = 2^(i + 1) - 2
      BY <1>3, <1>4
    <3> QED
      BY ONLY <2>1, <3>1, RoundOfEntry
  <2> QED
    BY <2>2, <2>3
<1>19. base = T(0)
  <2>1. \A x \in 0 .. size - 1 : Entry(root, size, x, 0) = One
    BY <1>13 DEF Entry
  <2> QED
    BY <2>1 DEF base
<1>14. ASSUME NEW j \in 1 .. n
       PROVE  Round(T(j - 1), j - 1) = T(j)
  <2>1. j - 1 \in 0 .. n - 1 /\ offsets[j - 1] = 2^(j - 1 + 1) - 2
    BY <1>3, <1>4
  <2>2. ASSUME NEW x \in 0 .. size - 1
        PROVE  Entry(root, size, x, j) =
               IF x - offsets[j - 1] \in 0 .. 2^(j - 1 + 1) - 1 THEN Power(j - 1, x)
               ELSE Entry(root, size, x, j - 1)
    <3> DEFINE i == get_msb(x + 2) - 1
    <3>1. i \in Nat /\ ((x - offsets[j - 1] \in 0 .. 2^(j - 1 + 1) - 1) <=> (i = j - 1))
      <4>1. get_msb(x + 2) \in Nat \ {0}
        BY <1>13
      <4>2. (x - offsets[j - 1] \in 0 .. 2^(j - 1 + 1) - 1) <=> (get_msb(x + 2) - 1 = j - 1)
        BY ONLY <1>13, <2>1, x \in 0 .. size - 1, Zenon
      <4> QED
        BY <4>1, <4>2
    <3>2. i < j <=> (i = j - 1 \/ i < j - 1)
      BY <3>1, <2>1
    <3>3. i = j - 1 => ~ (i < j - 1)
      BY <3>1, <2>1
    <3> HIDE DEF i
    <3>4. \A q \in {j, j - 1} : Entry(root, size, x, q) =
             IF i < q THEN field_pow(field_pow(root, size \div (2 * 2^(i + 1))), x - (2^(i + 1) - 2)) ELSE One
      BY DEF Entry, i
    <3>5. CASE i = j - 1
      BY <2>1, <3>1, <3>2, <3>4, <3>5
    <3>6. CASE i # j - 1
      BY <3>1, <3>2, <3>4, <3>6
    <3> QED
      BY <3>5, <3>6
  <2> HIDE DEF Power
  <2> QED
    BY <2>2 DEF Round
<1>15. \A j \in 0 .. n : h[j] = T(j)
  OBVIOUS
<1> HIDE DEF T, h
<1>16. c[{}] = h[0]
  BY <1>4, <1>12, <1>19, <1>15
<1>17. ASSUME NEW j \in 1 .. n, c[1 .. j - 1] = h[j - 1]
       PROVE  c[1 .. j] = h[j]
  <2>1. /\ 1 .. j \in SUBSET (1 .. n) /\ 1 .. j # {} /\ Max(1 .. j) = j
        /\ (1 .. j) \ {Max(1 .. j)} = 1 .. j - 1
    <3> HIDE DEF n
    <3> QED
      BY <1>4, LastOfPrefix
  <2>2. c[1 .. j] = Round(c[1 .. j - 1], seq[j])
    BY <1>12, <2>1
  <2>3. h[j - 1] = T(j - 1) /\ h[j] = T(j) /\ seq[j] = j - 1
    BY <1>4, <1>15
  <2> QED
    BY <1>14, <1>17, <2>2, <2>3
<1>18. c[1 .. n] = h[n]
  <2> HIDE DEF n
  <2> QED
    BY <1>4, <1>16, <1>17, PrefixesFold
<1> QED
  BY <1>1, <1>4, <1>15, <1>18 DEF T

\* A table whose rows are the powers of roots of order 4, 8 and so on, when the
\* root is one of order size.
RowsArePowers(table, root, size, b) ==
    /\ DOMAIN table = 0 .. b - 2
    /\ \A i \in 0 .. b - 2 :
          /\ DOMAIN table[i] = 0 .. 2^(i + 1) - 1
          /\ \A j \in 0 .. 2^(i + 1) - 1 :
                table[i][j] = field_pow(field_pow(root, size \div (2 * 2^(i + 1))), j)

(* So are the tables that a domain has, however large it is.                 *)
LEMMA RoundRootsAre ==
    ASSUME NEW b \in 1 .. 30, NEW size, size = 2^b, NEW root
    PROVE  RowsArePowers(RoundRoots(root, size), root, size, b)
<1> DEFINE table == compute_lookup_table_single(root, size)
           offsets == round_root_offsets(get_msb(size))
<1>0. b \in 0 .. 31 /\ b \in 1 .. 31 /\ size \in Nat \ {0} /\ 2^(b + 1) = 2 * size /\ size = 2^b
  <2>1. b \in 0 .. 31 /\ b \in 1 .. 31
    OBVIOUS
  <2>2. 2^b \in Nat \ {0} /\ 2^(b + 1) = 2 * 2^b
    BY <2>1, PowersDouble
  <2> QED
    BY <2>1, <2>2
<1>1. get_msb(size) = b
  <2>1. 2^b <= size /\ size < 2^(b + 1)
    BY <1>0
  <2> QED
    BY <1>0, <2>1, HighestBit
<1>2. offsets = [i \in 0 .. b - 2 |-> 2^(i + 1) - 2]
  BY <1>0, <1>1, OffsetsAre
<1>3. table = [x \in 0 .. size - 1 |-> Entry(root, size, x, b - 1)]
  BY <1>0, TableIs
<1>4. RoundRoots(root, size) = [i \in DOMAIN offsets |-> [j \in 0 .. 2^(i + 1) - 1 |-> table[offsets[i] + j]]]
  BY DEF RoundRoots
<1> HIDE DEF offsets, table
<1>5. ASSUME NEW i \in 0 .. b - 2, NEW j \in 0 .. 2^(i + 1) - 1
      PROVE  table[offsets[i] + j] = field_pow(field_pow(root, size \div (2 * 2^(i + 1))), j)
  <2>1. i \in 0 .. 31 /\ i + 1 \in 0 .. 31 /\ i + 1 + 1 \in 0 .. 31 /\ i \in 0 .. 29 /\ i + 1 < b + 1
    OBVIOUS
  <2> DEFINE m == 2^(i + 1)
             x == offsets[i] + j
  <2>2. m \in Nat /\ 2^i \in Nat \ {0} /\ m = 2 * 2^i /\ 2^(i + 1 + 1) = 2 * m
    BY <2>1, PowersDouble
  <2>3. 2^(i + 1 + 1) <= size
    <3>1. i + 1 < b
      OBVIOUS
    <3> QED
      BY <1>0, <2>1, <3>1, PowersGrow
  <2>4. offsets[i] = m - 2
    BY <1>2
  <2> HIDE DEF m
  <2>5. m >= 2 /\ 2 * m <= size /\ j \in 0 .. m - 1
    BY <2>2, <2>3 DEF m
  <2>6. x \in 0 .. size - 1 /\ x - (m - 2) = j
    BY <1>0, <2>2, <2>4, <2>5
  <2> HIDE DEF x
  <2>7. x \in Nat /\ x < 2^30
    <3>1. size <= 2^30
      <4>1. b < 30 => 2^(b + 1) <= 2^30
        <5>1. 30 \in 0 .. 31
          OBVIOUS
        <5> QED
          BY <1>0, <5>1, PowersGrow
      <4>2. 2^30 \in Nat
        OBVIOUS
      <4>3. b = 30 => size = 2^30
        OBVIOUS
      <4> QED
        BY <1>0, <4>1, <4>2, <4>3
    <3>2. 2^30 \in Nat
      OBVIOUS
    <3> QED
      BY <1>0, <2>6, <3>1, <3>2
  <2>8. get_msb(x + 2) - 1 = i
    <3>1. (x - (m - 2) \in 0 .. m - 1) <=> (get_msb(x + 2) - 1 = i)
      BY ONLY <2>1, <2>7, RoundOfEntry DEF m
    <3>2. x - (m - 2) \in 0 .. m - 1
      BY <2>5, <2>6
    <3> QED
      BY ONLY <3>1, <3>2
  <2>9. i < b - 1
    OBVIOUS
  <2>10. Entry(root, size, x, b - 1) = field_pow(field_pow(root, size \div (2 * m)), x - (m - 2))
    BY <2>8, <2>9 DEF Entry, m
  <2> QED
    BY <1>3, <2>6, <2>10 DEF m, x
<1>6. DOMAIN RoundRoots(root, size) = 0 .. b - 2
  BY <1>2, <1>4
<1>7. \A i \in 0 .. b - 2 : RoundRoots(root, size)[i] = [j \in 0 .. 2^(i + 1) - 1 |-> table[offsets[i] + j]]
  BY <1>2, <1>4
<1> QED
  BY <1>5, <1>6, <1>7 DEF RowsArePowers

\* The last row of a table of the size 2^b has half of the powers of the root.
LastRowHasHalf(w, size, b) ==
    /\ get_msb(size) = b /\ get_msb(size \div 2) = b - 1
    /\ size \in Nat /\ size = 4 * (size \div 4) /\ size = 2 * (size \div 2)
    /\ size \div 2 = 2 * (size \div 4) /\ size \div 4 \in Nat \ {0}
    /\ \A k \in 0 .. size \div 2 - 1 : RoundRoots(w, size)[b - 2][k] = field_pow(w, k)

(* The last row of a table holds every power up to half a turn.              *)
LEMMA LastRowIs ==
    ASSUME NEW F, Field(F), NEW b \in 2 .. 30, NEW size, size = 2^b, NEW w \in F
    PROVE  LastRowHasHalf(w, size, b)
<1>1. PICK c \in 0 .. 28 : b = c + 1 + 1
  <2>1. b - 2 \in 0 .. 28 /\ b = (b - 2) + 1 + 1
    OBVIOUS
  <2> QED
    BY ONLY <2>1
<1>2. c \in 0 .. 31 /\ c + 1 \in 0 .. 31 /\ c + 1 + 1 \in 0 .. 31
  OBVIOUS
<1>3. /\ 2^c \in Nat \ {0} /\ 2^(c + 1) = 2 * 2^c /\ 2^(c + 1) \in Nat \ {0}
      /\ 2^(c + 1 + 1) = 2 * 2^(c + 1) /\ 2^(c + 1 + 1) \in Nat \ {0}
      /\ 2^(c + 1 + 1 + 1) = 2 * 2^(c + 1 + 1)
  BY <1>2, PowersDouble
<1>4. size = 2 * 2^(c + 1)
  BY <1>1, <1>3
<1>5. /\ size \div 4 = 2^c /\ size = 4 * 2^c /\ size \div 2 = 2^(c + 1) /\ 2 * (size \div 4) = 2^(c + 1)
  BY <1>3, <1>4
<1>6. get_msb(2^(c + 1)) = c + 1
  <2>1. 2^(c + 1) <= 2^(c + 1) /\ 2^(c + 1) < 2^(c + 1 + 1)
    BY <1>3
  <2> QED
    BY <1>2, <1>3, <2>1, HighestBit
<1>7. get_msb(size) = b
  <2>1. 2^(c + 1 + 1) <= size /\ size < 2^(c + 1 + 1 + 1) /\ size \in Nat
    BY <1>3, <1>4
  <2> QED
    BY <1>1, <1>2, <2>1, HighestBit
<1>8. RowsArePowers(RoundRoots(w, size), w, size, b)
  <2>1. b \in 1 .. 30
    OBVIOUS
  <2> QED
    BY <2>1, RoundRootsAre
<1>9. \A k \in 0 .. 2^(c + 1) - 1 :
         RoundRoots(w, size)[c][k] = field_pow(field_pow(w, size \div (2 * 2^(c + 1))), k)
  <2>1. c \in 0 .. b - 2
    BY <1>1
  <2> QED
    BY ONLY <1>8, <2>1 DEF RowsArePowers
<1>10. field_pow(w, size \div (2 * 2^(c + 1))) = w
  <2>1. size \div (2 * 2^(c + 1)) = 1
    <3>1. size \in Nat \ {0} /\ 2 * 2^(c + 1) = size
      BY <1>3, <1>4
    <3>2. size \div size = 1
      BY <3>1
    <3> QED
      BY <3>1, <3>2
  <2> QED
    BY <2>1, PowerOfOneIsIt
<1>11. b - 2 = c /\ b - 1 = c + 1
  BY <1>1
<1>12. \A k \in 0 .. size \div 2 - 1 : RoundRoots(w, size)[b - 2][k] = field_pow(w, k)
  BY ONLY <1>5, <1>9, <1>10, <1>11
<1>13. /\ size \in Nat /\ size = 4 * (size \div 4) /\ size = 2 * (size \div 2)
       /\ size \div 2 = 2 * (size \div 4) /\ size \div 4 \in Nat \ {0}
  BY <1>3, <1>4, <1>5
<1> QED
  BY ONLY <1>5, <1>6, <1>7, <1>11, <1>12, <1>13 DEF LastRowHasHalf

(* Powers of two are what doubling makes of 1.                               *)
LEMMA PowersAreOfTwo == \A b \in 0 .. 31 : PowerOfTwo(2^b)
<1>1. ASSUME NEW T \in SUBSET Nat, 1 \in T, \A k \in T : 2 * k \in T
      PROVE  \A b \in 0 .. 31 : 2^b \in T
  <2> DEFINE S == {b \in Nat : b <= 31 => 2^b \in T}
  <2>1. 0 \in S
    <3>1. 2^0 = 1
      OBVIOUS
    <3> QED
      BY <1>1, <3>1
  <2>2. \A k \in Nat : k \in S => k + 1 \in S
    <3> SUFFICES ASSUME NEW k \in Nat, k \in S, k + 1 <= 31 PROVE 2^(k + 1) \in T
      OBVIOUS
    <3>1. k \in 0 .. 31 /\ k <= 31
      OBVIOUS
    <3>2. 2^k \in T
      BY <3>1
    <3>3. 2^(k + 1) = 2 * 2^k
      BY <3>1, PowersDouble
    <3> QED
      BY <1>1, <3>2, <3>3
  <2> HIDE DEF S
  <2>3. \A k \in Nat : k \in S
    BY <2>1, <2>2, SetInduction
  <2> QED
    BY <2>3 DEF S
<1>2. ASSUME NEW b \in 0 .. 31
      PROVE  PowerOfTwo(2^b)
  <2>1. 2^b \in Nat
    BY PowersDouble
  <2>2. \A T \in SUBSET Nat : 1 \in T /\ (\A k \in T : 2 * k \in T) => 2^b \in T
    BY <1>1
  <2> QED
    BY ONLY <2>1, <2>2 DEF PowerOfTwo
<1> QED
  BY <1>2

(* The highest bits of the loop variables.                                   *)
LEMMA SmallMsb ==
    get_msb(1) = 0 /\ get_msb(2) = 1 /\ get_msb(4) = 2 /\ get_msb(6) = 2 /\ get_msb(8) = 3
<1>1. /\ 2^0 <= 1 /\ 1 < 2^(0 + 1) /\ 2^1 <= 2 /\ 2 < 2^(1 + 1)
      /\ 2^2 <= 4 /\ 4 < 2^(2 + 1) /\ 2^2 <= 6 /\ 6 < 2^(2 + 1) /\ 2^3 <= 8 /\ 8 < 2^(3 + 1)
  OBVIOUS
<1>2. 0 \in 0 .. 31 /\ 1 \in 0 .. 31 /\ 2 \in 0 .. 31 /\ 3 \in 0 .. 31
  OBVIOUS
<1>3. get_msb(1) = 0 /\ get_msb(2) = 1
  BY <1>1, <1>2, HighestBit
<1>4. get_msb(4) = 2 /\ get_msb(6) = 2
  BY <1>1, <1>2, HighestBit
<1>5. get_msb(8) = 3
  BY <1>1, <1>2, HighestBit
<1> QED
  BY <1>3, <1>4, <1>5

-----------------------------------------------------------------------------
(* Sums of bits.                                                             *)

\* What a sum over S of natural numbers recurses on.
NatSum(k, f, S) ==
    k = [t \in SUBSET S |-> IF t = {} THEN 0 ELSE f[Chosen(t)] + k[t \ {Chosen(t)}]]

\* h sums f over the subsets of S.
Sums(h, f, S) ==
    /\ h[{}] = 0
    /\ \A t \in SUBSET S : h[t] \in Nat /\ \A x \in t : h[t] = f[x] + h[t \ {x}]

\* The recursion has a value, which is h's.
SumsTo(h, f, S) ==
    /\ Sums(h, f, S)
    /\ \E k : NatSum(k, f, S)
    /\ \A k : NatSum(k, f, S) => k[S] = h[S]

\* The sum of natural numbers, as Plus is of a field's elements.
PlusNat == [p \in Nat \X Nat |-> p[1] + p[2]]

(* A sum of natural numbers exists.                                          *)
LEMMA SumsOfNaturals ==
    ASSUME NEW S, IsFiniteSet(S), NEW f, \A x \in S : f[x] \in Nat
    PROVE  \E h : SumsTo(h, f, S)
<1> DEFINE N == Nat
           zero == 0
<1>0. \A x, y \in Nat : PlusNat[<<x, y>>] = x + y
  BY DEF PlusNat
<1>1. Monoid(Nat, PlusNat, 0)
  BY <1>0 DEF Monoid
<1>2. PICK h : IsFold(h, PlusNat, 0, f, SUBSET S)
  BY FoldExists
<1>3. Folds(N, PlusNat, zero, S, f, h)
  BY <1>1, <1>2 DEF Folds
<1> HIDE DEF N, zero
<1>4. /\ h[{}] = zero
      /\ \A s \in SUBSET S : /\ h[s] \in N
                             /\ \A x \in s : h[s] = PlusNat[<<f[x], h[s \ {x}]>>]
  BY ONLY <1>3, FoldRemoves
<1> USE DEF N, zero
<1>5. ASSUME NEW s \in SUBSET S, NEW x \in s
      PROVE  h[s] = f[x] + h[s \ {x}]
  <2>1. s \ {x} \in SUBSET S /\ f[x] \in Nat
    OBVIOUS
  <2>2. h[s \ {x}] \in Nat /\ h[s] = PlusNat[<<f[x], h[s \ {x}]>>]
    BY <1>4, <2>1
  <2> QED
    BY <1>0, <2>1, <2>2
<1>6. Sums(h, f, S)
  BY <1>4, <1>5 DEF Sums
<1> DEFINE k0 == [t \in SUBSET S |-> h[t]]
<1>7. NatSum(k0, f, S)
  <2>1. ASSUME NEW t \in SUBSET S, t # {}
        PROVE  h[t] = f[Chosen(t)] + h[t \ {Chosen(t)}] /\ t \ {Chosen(t)} \in SUBSET S
    <3>1. Chosen(t) \in t
      BY <2>1 DEF Chosen
    <3> QED
      BY <1>5, <3>1
  <2>2. \A t \in SUBSET S :
           k0[t] = IF t = {} THEN 0 ELSE f[Chosen(t)] + k0[t \ {Chosen(t)}]
    BY <1>4, <2>1
  <2> QED
    BY <2>2 DEF NatSum
<1>8. ASSUME NEW k, NatSum(k, f, S)
      PROVE  k[S] = h[S]
  <2>1. k[{}] = 0 /\ \A t \in SUBSET S : t # {} => k[t] = f[Chosen(t)] + k[t \ {Chosen(t)}]
    BY <1>8 DEF NatSum
  <2>2. ASSUME NEW t \in SUBSET S, t # {}, k[t \ {Chosen(t)}] = h[t \ {Chosen(t)}]
        PROVE  k[t] = h[t]
    <3>1. Chosen(t) \in t
      BY <2>2 DEF Chosen
    <3>2. h[t] = f[Chosen(t)] + h[t \ {Chosen(t)}]
      BY <1>5, <3>1
    <3> QED
      BY <2>1, <2>2, <3>2
  <2>3. /\ k[{}] = h[{}]
        /\ \A t \in SUBSET S :
              t # {} /\ k[t \ {Chosen(t)}] = h[t \ {Chosen(t)}] => k[t] = h[t]
    BY <1>4, <2>1, <2>2
  <2>4. \A t \in SUBSET S : k[t] = h[t]
    BY ONLY IsFiniteSet(S), <2>3, FoldUnique
  <2> QED
    BY <2>4
<1> QED
  BY <1>6, <1>7, <1>8 DEF SumsTo

\* The sum of up to three.
FirstTerms(f, n) == IF n = 1 THEN f[0] ELSE IF n = 2 THEN f[0] + f[1] ELSE f[0] + f[1] + f[2]

(* It is what the recursion gives.                                           *)
LEMMA FewTerms ==
    ASSUME NEW n \in 1 .. 3, NEW f, \A b \in 0 .. n - 1 : f[b] \in Nat,
           NEW h, Sums(h, f, 0 .. n - 1)
    PROVE  h[0 .. n - 1] = FirstTerms(f, n)
<1> DEFINE S == 0 .. n - 1
<1>1. h[{}] = 0
  BY DEF Sums
<1>2. \A s \in SUBSET S : \A x \in s : h[s] = f[x] + h[s \ {x}]
  BY DEF Sums
<1>3. CASE n = 1
  <2>1. S = {0} /\ {0} \ {0} = {} /\ 0 \in {0} /\ {0} \in SUBSET S /\ f[0] \in Nat
    BY <1>3
  <2>2. h[{0}] = f[0] + h[{0} \ {0}]
    BY <1>2, <2>1
  <2> QED
    BY <1>1, <1>3, <2>1, <2>2 DEF FirstTerms
<1>4. CASE n = 2
  <2>1. /\ S = {0, 1} /\ {0} \ {0} = {} /\ {0, 1} \ {1} = {0} /\ {0} \in SUBSET S
        /\ {0, 1} \in SUBSET S /\ f[0] \in Nat /\ f[1] \in Nat
    BY <1>4
  <2>2. h[{0}] = f[0] + h[{0} \ {0}]
    BY <1>2, <2>1
  <2>3. h[{0, 1}] = f[1] + h[{0}]
    BY <1>2, <2>1
  <2>4. h[{0, 1}] = f[0] + f[1]
    <3>1. {0} \ {0} = {} /\ f[0] \in Nat /\ f[1] \in Nat
      BY ONLY <2>1
    <3>2. h[{0}] = f[0]
      BY ONLY <1>1, <2>2, <3>1
    <3> QED
      BY ONLY <2>3, <3>1, <3>2
  <2>5. FirstTerms(f, n) = f[0] + f[1]
    BY <1>4, <2>4 DEF FirstTerms
  <2>6. h[S] = h[{0, 1}]
    BY ONLY <2>1
  <2> QED
    BY ONLY <2>4, <2>5, <2>6
<1>5. CASE n = 3
  <2>1. /\ S = {0, 1, 2} /\ {0} \ {0} = {} /\ {0, 1} \ {1} = {0} /\ {0} \in SUBSET S
        /\ {0, 1, 2} \ {2} = {0, 1} /\ {0, 1} \in SUBSET S /\ {0, 1, 2} \in SUBSET S
        /\ f[0] \in Nat /\ f[1] \in Nat /\ f[2] \in Nat
    BY <1>5
  <2>2. h[{0}] = f[0] + h[{0} \ {0}]
    BY <1>2, <2>1
  <2>3. h[{0, 1}] = f[1] + h[{0}]
    BY <1>2, <2>1
  <2>4. h[{0, 1, 2}] = f[2] + h[{0, 1}]
    BY <1>2, <2>1
  <2>5. h[{0, 1, 2}] = f[0] + f[1] + f[2]
    <3>1. {0} \ {0} = {} /\ f[0] \in Nat /\ f[1] \in Nat /\ f[2] \in Nat
      BY ONLY <2>1
    <3>2. h[{0}] = f[0]
      BY ONLY <1>1, <2>2, <3>1
    <3>3. h[{0, 1}] = f[1] + f[0]
      BY ONLY <2>3, <3>1, <3>2
    <3> QED
      BY ONLY <2>4, <3>1, <3>3
  <2>6. FirstTerms(f, n) = f[0] + f[1] + f[2]
    BY <1>5 DEF FirstTerms
  <2>7. h[S] = h[{0, 1, 2}]
    BY ONLY <2>1
  <2> QED
    BY ONLY <2>5, <2>6, <2>7
<1> QED
  BY <1>3, <1>4, <1>5

\* The bits of x, last first, as reverse_bits adds them up.
BitsOf(x, n) == [b \in 0 .. n - 1 |-> ((x \div 2^b) % 2) * 2^(n - 1 - b)]

(* The sum that reverse_bits is.                                             *)
LEMMA ReversalSums ==
    ASSUME NEW x \in Nat, NEW n \in 1 .. 31
    PROVE  /\ \A b \in 0 .. n - 1 : BitsOf(x, n)[b] \in 0 .. 2^(n - 1 - b)
           /\ \E h : Sums(h, BitsOf(x, n), 0 .. n - 1) /\ reverse_bits(x, n) = h[0 .. n - 1]
<1> DEFINE S == 0 .. n - 1
           f == BitsOf(x, n)
           Rec(k) == k = [t \in SUBSET S |->
                             IF t = {} THEN 0
                             ELSE ((x \div 2^Chosen(t)) % 2) * 2^(n - 1 - Chosen(t)) + k[t \ {Chosen(t)}]]
<1>1. ASSUME NEW b \in S
      PROVE  f[b] \in 0 .. 2^(n - 1 - b) /\ f[b] = ((x \div 2^b) % 2) * 2^(n - 1 - b)
  <2>1. b \in 0 .. 31 /\ n - 1 - b \in 0 .. 31
    OBVIOUS
  <2>2. 2^b \in Nat \ {0} /\ 2^(n - 1 - b) \in Nat
    BY ONLY <2>1, PowersDouble
  <2>3. f[b] = ((x \div 2^b) % 2) * 2^(n - 1 - b)
    BY DEF BitsOf
  <2>4. (x \div 2^b) % 2 \in {0, 1}
    <3>1. x \div 2^b \in Nat
      BY <2>2
    <3> QED
      BY ONLY <3>1
  <2> QED
    BY <2>2, <2>3, <2>4
<1>2. \A b \in S : f[b] \in Nat
  <2> SUFFICES ASSUME NEW b \in S PROVE f[b] \in Nat
    OBVIOUS
  <2>1. f[b] \in 0 .. 2^(n - 1 - b)
    BY <1>1
  <2> QED
    BY <2>1
<1>3. IsFiniteSet(S)
  BY FS_Interval
<1>4. reverse_bits(x, n) = (CHOOSE k : Rec(k))[S]
  BY DEF reverse_bits, MapThenSumSet, MapThenFoldSet, Chosen
<1>5. \A k : Rec(k) <=> NatSum(k, f, S)
  <2>1. \A t \in SUBSET S : t # {} =>
           f[Chosen(t)] = ((x \div 2^Chosen(t)) % 2) * 2^(n - 1 - Chosen(t))
    <3>1. \A t \in SUBSET S : t # {} => Chosen(t) \in S
      BY DEF Chosen
    <3> QED
      BY <1>1, <3>1
  <2> HIDE DEF f, S
  <2> QED
    BY <2>1 DEF NatSum
<1> HIDE DEF Rec, f, S
<1>6. PICK h : SumsTo(h, f, S)
  BY ONLY <1>2, <1>3, SumsOfNaturals
<1>7. /\ Sums(h, f, S) /\ \E k : NatSum(k, f, S)
      /\ \A k : NatSum(k, f, S) => k[S] = h[S]
  BY <1>6 DEF SumsTo
<1>8. (CHOOSE k : Rec(k))[S] = h[S]
  BY ONLY <1>5, <1>7
<1> QED
  BY <1>1, <1>4, <1>7, <1>8 DEF f, S

(* It has as many bits.                                                      *)
LEMMA ReversedFits ==
    ASSUME NEW x \in Nat, NEW n \in 1 .. 31
    PROVE  reverse_bits(x, n) \in 0 .. 2^n - 1
<1> DEFINE S == 0 .. n - 1
           f == BitsOf(x, n)
           From(j) == n - j .. n - 1
<1>1. \A b \in S : f[b] \in 0 .. 2^(n - 1 - b)
  BY ReversalSums
<1>2. PICK h : Sums(h, f, S) /\ reverse_bits(x, n) = h[S]
  BY ReversalSums
<1>3. h[{}] = 0 /\ \A t \in SUBSET S : h[t] \in Nat /\ \A b \in t : h[t] = f[b] + h[t \ {b}]
  BY <1>2 DEF Sums
<1> HIDE DEF f
<1> DEFINE T == {j \in Nat : j <= n => h[From(j)] < 2^j}
<1>4. 0 \in T
  <2>1. From(0) = {} /\ 2^0 = 1
    OBVIOUS
  <2> HIDE DEF From
  <2>2. h[From(0)] = 0
    BY ONLY <1>3, <2>1
  <2>3. h[From(0)] < 2^0
    BY ONLY <2>1, <2>2
  <2> QED
    BY ONLY <2>3
<1>5. ASSUME NEW j \in Nat, j \in T
      PROVE  j + 1 \in T
  <2> SUFFICES ASSUME j + 1 <= n PROVE h[From(j + 1)] < 2^(j + 1)
    OBVIOUS
  <2> DEFINE b == n - (j + 1)
  <2>1. /\ b \in S /\ n - 1 - b = j /\ b \in From(j + 1) /\ From(j + 1) \ {b} = From(j)
        /\ From(j + 1) \in SUBSET S /\ From(j) \in SUBSET S /\ j <= n /\ j \in 0 .. 31
    OBVIOUS
  <2>2. f[b] \in 0 .. 2^j
    <3>1. f[b] \in 0 .. 2^(n - 1 - b)
      BY <1>1, <2>1
    <3> QED
      BY <2>1, <3>1
  <2>3. h[From(j + 1)] = f[b] + h[From(j)]
    <3> DEFINE A == From(j + 1)
    <3>1. A \in SUBSET S /\ b \in A /\ A \ {b} = From(j)
      BY <2>1
    <3> HIDE DEF A, b, S
    <3>2. h[A] = f[b] + h[A \ {b}]
      BY ONLY <1>3, <3>1
    <3> QED
      BY ONLY <3>1, <3>2 DEF A
  <2>4. h[From(j)] < 2^j /\ h[From(j)] \in Nat
    BY <1>3, <1>5, <2>1
  <2>5. 2^j \in Nat /\ 2^(j + 1) = 2 * 2^j
    BY ONLY <2>1, PowersDouble
  <2> HIDE DEF b, From
  <2> QED
    BY <2>2, <2>3, <2>4, <2>5
<1> HIDE DEF T
<1>6. n \in T
  BY <1>4, <1>5, SetInduction
<1>7. h[S] < 2^n /\ h[S] \in Nat
  <2>1. From(n) = S
    OBVIOUS
  <2> QED
    BY <1>3, <1>6, <2>1 DEF T
<1>8. 2^n \in Nat
  <2>1. n \in 0 .. 31
    OBVIOUS
  <2> QED
    BY ONLY <2>1, PowersDouble
<1> QED
  BY <1>2, <1>7, <1>8

(* The lowest bits of a number, last first.                                  *)
LEMMA ReversedBits ==
    ASSUME NEW x \in Nat
    PROVE  /\ reverse_bits(x, 1) = x % 2
           /\ reverse_bits(x, 2) = (x % 2) * 2 + ((x \div 2) % 2)
           /\ reverse_bits(x, 3) = (x % 2) * 4 + ((x \div 2) % 2) * 2 + ((x \div 4) % 2)
<1>1. ASSUME NEW n \in 1 .. 3
      PROVE  reverse_bits(x, n) = FirstTerms(BitsOf(x, n), n)
  <2> DEFINE f == BitsOf(x, n)
  <2>0. n \in 1 .. 31
    OBVIOUS
  <2>1. \A b \in 0 .. n - 1 : f[b] \in 0 .. 2^(n - 1 - b)
    BY ONLY x \in Nat, <2>0, ReversalSums
  <2>2. \A b \in 0 .. n - 1 : f[b] \in Nat
    <3> SUFFICES ASSUME NEW b \in 0 .. n - 1 PROVE f[b] \in Nat
      OBVIOUS
    <3>1. f[b] \in 0 .. 2^(n - 1 - b)
      BY <2>1
    <3> QED
      BY ONLY <3>1
  <2>3. PICK h : Sums(h, f, 0 .. n - 1) /\ reverse_bits(x, n) = h[0 .. n - 1]
    BY ONLY x \in Nat, <2>0, ReversalSums
  <2> HIDE DEF f
  <2>4. h[0 .. n - 1] = FirstTerms(f, n)
    BY ONLY n \in 1 .. 3, <2>2, <2>3, FewTerms
  <2> QED
    BY <2>3, <2>4 DEF f
<1>2. reverse_bits(x, 1) = x % 2
  <2>1. BitsOf(x, 1)[0] = x % 2
    BY DEF BitsOf
  <2>2. reverse_bits(x, 1) = BitsOf(x, 1)[0]
    BY <1>1 DEF FirstTerms
  <2> QED
    BY <2>1, <2>2
<1>3. reverse_bits(x, 2) = (x % 2) * 2 + ((x \div 2) % 2)
  <2>1. BitsOf(x, 2)[0] = (x % 2) * 2 /\ BitsOf(x, 2)[1] = (x \div 2) % 2
    BY DEF BitsOf
  <2>2. reverse_bits(x, 2) = BitsOf(x, 2)[0] + BitsOf(x, 2)[1]
    BY <1>1 DEF FirstTerms
  <2> DEFINE p == BitsOf(x, 2)[0]
             q == BitsOf(x, 2)[1]
  <2> HIDE DEF p, q
  <2>4. p = (x % 2) * 2 /\ q = (x \div 2) % 2 /\ reverse_bits(x, 2) = p + q
    BY ONLY <2>1, <2>2 DEF p, q
  <2> QED
    BY <2>4
<1>4. reverse_bits(x, 3) = (x % 2) * 4 + ((x \div 2) % 2) * 2 + ((x \div 4) % 2)
  <2>1. /\ BitsOf(x, 3)[0] = (x % 2) * 4 /\ BitsOf(x, 3)[1] = ((x \div 2) % 2) * 2
        /\ BitsOf(x, 3)[2] = (x \div 4) % 2
    BY DEF BitsOf
  <2>2. reverse_bits(x, 3) = BitsOf(x, 3)[0] + BitsOf(x, 3)[1] + BitsOf(x, 3)[2]
    BY <1>1 DEF FirstTerms
  <2> DEFINE p == BitsOf(x, 3)[0]
             q == BitsOf(x, 3)[1]
             r == BitsOf(x, 3)[2]
  <2> HIDE DEF p, q, r
  <2>4. /\ p = (x % 2) * 4 /\ q = ((x \div 2) % 2) * 2 /\ r = (x \div 4) % 2
        /\ reverse_bits(x, 3) = p + q + r
    BY ONLY <2>1, <2>2 DEF p, q, r
  <2> QED
    BY <2>4
<1> QED
  BY <1>2, <1>3, <1>4

(* The root of an iteration is its number in its block.                      *)
LEMMA RootsAt ==
    ASSUME NEW i \in Nat
    PROVE  RootAt(i, 2) = i % 2 /\ RootAt(i, 4) = i % 4
<1> DEFINE op(b, m) == 2^b * ((i \div 2^b) % 2) * (((m - 1) \div 2^b) % 2)
<1>1. ASSUME NEW m \in {2, 4}, NEW n \in 1 .. 3, get_msb(m) = n - 1,
             NEW f, \A b \in 0 .. n - 1 : f[b] = op(b, m) /\ f[b] \in Nat
      PROVE  RootAt(i, m) = FirstTerms(f, n)
  <2> DEFINE S == 0 .. n - 1
             Rec(k) == k = [t \in SUBSET S |->
                               IF t = {} THEN 0 ELSE op(Chosen(t), m) + k[t \ {Chosen(t)}]]
  <2>1. RootAt(i, m) = (CHOOSE k : Rec(k))[S]
    BY <1>1 DEF RootAt, MapThenSumSet, MapThenFoldSet, Chosen
  <2> HIDE DEF op
  <2>2. \A t \in SUBSET S : t # {} => f[Chosen(t)] = op(Chosen(t), m)
    <3>1. \A t \in SUBSET S : t # {} => Chosen(t) \in 0 .. n - 1
      BY DEF Chosen
    <3> QED
      BY <1>1, <3>1
  <2>3. IsFiniteSet(S) /\ \A b \in S : f[b] \in Nat
    <3>1. n - 1 \in Int /\ 0 \in Int
      OBVIOUS
    <3>2. IsFiniteSet(S)
      BY ONLY <3>1, FS_Interval
    <3> QED
      BY <1>1, <3>2
  <2> HIDE DEF S
  <2>4. \A k : Rec(k) <=> NatSum(k, f, S)
    BY <2>2 DEF NatSum
  <2> HIDE DEF Rec
  <2>5. PICK h : SumsTo(h, f, S)
    BY ONLY <2>3, SumsOfNaturals
  <2>6. /\ Sums(h, f, S) /\ \E k : NatSum(k, f, S)
        /\ \A k : NatSum(k, f, S) => k[S] = h[S]
    BY <2>5 DEF SumsTo
  <2>7. (CHOOSE k : Rec(k))[S] = h[S]
    BY ONLY <2>4, <2>6
  <2>8. h[S] = FirstTerms(f, n)
    BY ONLY n \in 1 .. 3, <2>3, <2>6, FewTerms DEF S
  <2> QED
    BY <2>1, <2>7, <2>8
<1>2. RootAt(i, 2) = i % 2
  <2> DEFINE f == [b \in 0 .. 1 |-> op(b, 2)]
  <2>1. f[0] = i % 2 /\ f[1] = 0 /\ i % 2 \in Nat
    OBVIOUS
  <2>2. \A b \in 0 .. 2 - 1 : f[b] = op(b, 2) /\ f[b] \in Nat
    <3>1. \A b \in 0 .. 2 - 1 : f[b] = op(b, 2) /\ (b = 0 \/ b = 1)
      OBVIOUS
    <3> HIDE DEF f, op
    <3> QED
      BY <2>1, <3>1
  <2> HIDE DEF f
  <2>3. get_msb(2) = 2 - 1
    BY SmallMsb
  <2>4. RootAt(i, 2) = FirstTerms(f, 2)
    <3> HIDE DEF op
    <3> QED
      BY <1>1, <2>2, <2>3
  <2> QED
    BY <2>1, <2>4 DEF FirstTerms
<1>3. RootAt(i, 4) = i % 4
  <2> DEFINE f == [b \in 0 .. 2 |-> op(b, 4)]
  <2>1. f[0] = i % 2 /\ f[1] = 2 * ((i \div 2) % 2) /\ f[2] = 0
    OBVIOUS
  <2>2. \A b \in 0 .. 3 - 1 : f[b] = op(b, 4) /\ f[b] \in Nat
    <3>1. \A b \in 0 .. 3 - 1 : f[b] = op(b, 4) /\ (b = 0 \/ b = 1 \/ b = 2)
      OBVIOUS
    <3>2. i % 2 \in Nat /\ 2 * ((i \div 2) % 2) \in Nat
      OBVIOUS
    <3> HIDE DEF f, op
    <3> QED
      BY <2>1, <3>1, <3>2
  <2> HIDE DEF f
  <2>3. get_msb(4) = 3 - 1
    BY SmallMsb
  <2>4. RootAt(i, 4) = FirstTerms(f, 3)
    <3> HIDE DEF op
    <3> QED
      BY <1>1, <2>2, <2>3
  <2>5. FirstTerms(f, 3) = (i % 2) + 2 * ((i \div 2) % 2) + 0
    BY <2>1 DEF FirstTerms
  <2>6. (i % 2) + 2 * ((i \div 2) % 2) + 0 = i % 4
    OBVIOUS
  <2> QED
    BY <2>4, <2>5, <2>6
<1> QED
  BY <1>2, <1>3

(* The numbers of up to two bits.                                            *)
LEMMA SmallReversals ==
    /\ reverse_bits(0, 1) = 0 /\ reverse_bits(1, 1) = 1
    /\ reverse_bits(0, 2) = 0 /\ reverse_bits(1, 2) = 2
    /\ reverse_bits(2, 2) = 1 /\ reverse_bits(3, 2) = 3
<1>1. /\ 0 % 2 = 0 /\ 1 % 2 = 1 /\ 2 % 2 = 0 /\ 3 % 2 = 1
      /\ (0 \div 2) % 2 = 0 /\ (1 \div 2) % 2 = 0 /\ (2 \div 2) % 2 = 1 /\ (3 \div 2) % 2 = 1
  OBVIOUS
<1>2. \A x \in 0 .. 3 : reverse_bits(x, 1) = x % 2 /\ reverse_bits(x, 2) = (x % 2) * 2 + ((x \div 2) % 2)
  <2>1. \A x \in 0 .. 3 : x \in Nat
    OBVIOUS
  <2> QED
    BY ONLY <2>1, ReversedBits
<1>3. 0 \in 0 .. 3 /\ 1 \in 0 .. 3 /\ 2 \in 0 .. 3 /\ 3 \in 0 .. 3
  OBVIOUS
<1>4. reverse_bits(0, 1) = 0 /\ reverse_bits(1, 1) = 1
  BY <1>1, <1>2, <1>3
<1>5. reverse_bits(0, 2) = 0 * 2 + 0 /\ reverse_bits(1, 2) = 1 * 2 + 0
  BY ONLY <1>1, <1>2, <1>3
<1>6. reverse_bits(2, 2) = 0 * 2 + 1 /\ reverse_bits(3, 2) = 1 * 2 + 1
  BY ONLY <1>1, <1>2, <1>3
<1> QED
  BY <1>4, <1>5, <1>6

-----------------------------------------------------------------------------
(* A round of an FFT.                                                        *)

\* The iteration that writes x in the round for m.
PairOf(x, m) == (x \div (2 * m)) * m + (x % m)

\* Iteration i writes its own pair.
WritesPair(i, m, lo) ==
    /\ lo \in Nat /\ RootAt(i, m) = lo % m /\ (lo + m) % m = lo % m
    /\ lo % (2 * m) < m /\ ~ ((lo + m) % (2 * m) < m)
    /\ PairOf(lo, m) = i /\ PairOf(lo + m, m) = i

(* The two places that an iteration writes are those of its pair.            *)
LEMMA PairsWritten ==
    ASSUME NEW i \in Nat, NEW m \in {2, 4}
    PROVE  WritesPair(i, m, Low(i, m))
<1>1. CASE m = 2
  <2>1. RootAt(i, 2) = i % 2
    BY RootsAt
  <2>2. Low(i, 2) = 2 * (i - (i % 2)) + (i % 2)
    BY <2>1 DEF Low
  <2> DEFINE lo == 2 * (i - (i % 2)) + (i % 2)
  <2>3. /\ lo \in Nat /\ i % 2 = lo % 2 /\ (lo + 2) % 2 = lo % 2
        /\ lo % 4 < 2 /\ ~ ((lo + 2) % 4 < 2)
        /\ (lo \div 4) * 2 + (lo % 2) = i /\ ((lo + 2) \div 4) * 2 + ((lo + 2) % 2) = i
    OBVIOUS
  <2> HIDE DEF lo
  <2> QED
    BY <1>1, <2>1, <2>2, <2>3 DEF WritesPair, PairOf, lo
<1>2. CASE m = 4
  <2>1. RootAt(i, 4) = i % 4
    BY RootsAt
  <2>2. Low(i, 4) = 2 * (i - (i % 4)) + (i % 4)
    BY <2>1 DEF Low
  <2> DEFINE lo == 2 * (i - (i % 4)) + (i % 4)
  <2>3. /\ lo \in Nat /\ i % 4 = lo % 4 /\ (lo + 4) % 4 = lo % 4
        /\ lo % 8 < 4 /\ ~ ((lo + 4) % 8 < 4)
        /\ (lo \div 8) * 4 + (lo % 4) = i /\ ((lo + 4) \div 8) * 4 + ((lo + 4) % 4) = i
    OBVIOUS
  <2> HIDE DEF lo
  <2> QED
    BY <1>2, <2>1, <2>2, <2>3 DEF WritesPair, PairOf, lo
<1> QED
  BY <1>1, <1>2

(* Within the size.                                                          *)
LEMMA PairsInside ==
    ASSUME NEW m \in {2, 4}, NEW size \in Nat, size % (2 * m) = 0, NEW i \in Nat, 2 * i < size
    PROVE  Low(i, m) \in 0 .. size - 1 /\ Low(i, m) + m \in 0 .. size - 1
<1>1. CASE m = 2
  <2>1. Low(i, 2) = 2 * (i - (i % 2)) + (i % 2)
    BY RootsAt DEF Low
  <2> QED
    BY <1>1, <2>1
<1>2. CASE m = 4
  <2>1. Low(i, 4) = 2 * (i - (i % 4)) + (i % 4)
    BY RootsAt DEF Low
  <2> QED
    BY <1>2, <2>1
<1> QED
  BY <1>1, <1>2

\* x is written by one iteration, as its lower or its upper element.
WrittenBy(x, m, size) ==
    /\ PairOf(x, m) \in Nat /\ 2 * PairOf(x, m) < size
    /\ x % (2 * m) < m => x = Low(PairOf(x, m), m) /\ x + m \in 0 .. size - 1
    /\ ~ (x % (2 * m) < m) => x = Low(PairOf(x, m), m) + m /\ x - m \in 0 .. size - 1
    /\ x % m \in 0 .. m - 1

(* Each place of the array is in one pair of a round.                        *)
LEMMA WrittenOnce ==
    ASSUME NEW m \in {2, 4}, NEW size \in Nat, size % (2 * m) = 0, NEW x \in 0 .. size - 1
    PROVE  WrittenBy(x, m, size)
<1>1. CASE m = 2
  <2> DEFINE i == (x \div 4) * 2 + (x % 2)
  <2>1. PairOf(x, m) = i
    BY <1>1 DEF PairOf
  <2>2. i \in Nat /\ 2 * i < size
    BY <1>1
  <2>3. Low(i, 2) = 2 * (i - (i % 2)) + (i % 2)
    BY <2>2, RootsAt DEF Low
  <2>4. /\ x % 4 < 2 => x = 2 * (i - (i % 2)) + (i % 2) /\ x + 2 \in 0 .. size - 1
        /\ ~ (x % 4 < 2) => x = 2 * (i - (i % 2)) + (i % 2) + 2 /\ x - 2 \in 0 .. size - 1
        /\ x % 2 \in 0 .. 1
    BY <1>1
  <2> HIDE DEF i
  <2> QED
    BY <1>1, <2>1, <2>2, <2>3, <2>4 DEF WrittenBy
<1>2. CASE m = 4
  <2> DEFINE i == (x \div 8) * 4 + (x % 4)
  <2>1. PairOf(x, m) = i
    BY <1>2 DEF PairOf
  <2>2. i \in Nat /\ 2 * i < size
    BY <1>2
  <2>3. Low(i, 4) = 2 * (i - (i % 4)) + (i % 4)
    BY <2>2, RootsAt DEF Low
  <2>4. /\ x % 8 < 4 => x = 2 * (i - (i % 4)) + (i % 4) /\ x + 4 \in 0 .. size - 1
        /\ ~ (x % 8 < 4) => x = 2 * (i - (i % 4)) + (i % 4) + 4 /\ x - 4 \in 0 .. size - 1
        /\ x % 4 \in 0 .. 3
    BY <1>2
  <2> HIDE DEF i
  <2> QED
    BY <1>2, <2>1, <2>2, <2>3, <2>4 DEF WrittenBy
<1> QED
  BY <1>1, <1>2

\* The element at x once the round for m has combined it with its partner.
CombinedAt(a, m, roots, x) ==
    IF x % (2 * m) < m
    THEN field_add(a[x], field_mul(roots[x % m], a[x + m]))
    ELSE field_sub(a[x - m], field_mul(roots[x % m], a[x]))

\* What a round for m takes: an array with room for the size, whose blocks have
\* 2 m elements each, half as many iterations, and a row of m roots.
RoundFits(F, dom, m, a, roots, size) ==
    /\ Field(F) /\ m \in {2, 4}
    /\ size \in Nat /\ size % (2 * m) = 0 /\ 2 * Iterations(dom) = size
    /\ Iterations(dom) \in Nat
    /\ 0 .. size - 1 \subseteq DOMAIN a /\ a \in [DOMAIN a -> F]
    /\ \A j \in 0 .. m - 1 : roots[j] \in F

(* A round combines every pair once.                                         *)
LEMMA RoundCombines ==
    ASSUME NEW F, NEW dom, NEW m, NEW a, NEW roots, NEW size, RoundFits(F, dom, m, a, roots, size)
    PROVE  fft_round(dom, m, a, roots) =
           [x \in DOMAIN a |-> IF x \in 0 .. size - 1 THEN CombinedAt(a, m, roots, x) ELSE a[x]]
<1> DEFINE n == Iterations(dom)
           seq == Indices(n)
           Step(b, i) == Butterfly(b, roots[RootAt(i, m)], Low(i, m), m)
           D == DOMAIN a
           Rec(k) == k = [s \in SUBSET (DOMAIN seq) |->
                             IF s = {} THEN a ELSE Step(k[s \ {Max(s)}], seq[Max(s)])]
           A == [D -> F]
           g == [p \in A \X (1 .. n) |-> Step(p[1], seq[p[2]])]
           c == CHOOSE k : Rec(k)
           Done(x, j) == x \in 0 .. size - 1 /\ PairOf(x, m) < j
           T(j) == [x \in D |-> IF Done(x, j) THEN CombinedAt(a, m, roots, x) ELSE a[x]]
<1>0. /\ Field(F) /\ m \in {2, 4} /\ size \in Nat /\ size % (2 * m) = 0 /\ 2 * n = size /\ n \in Nat
      /\ 0 .. size - 1 \subseteq D /\ a \in A
      /\ \A j \in 0 .. m - 1 : roots[j] \in F
  BY DEF RoundFits
<1>1. fft_round(dom, m, a, roots) = c[DOMAIN seq]
  BY DEF fft_round, FoldLeft, MapThenFoldSet
<1>2. DOMAIN seq = 1 .. n /\ \A j \in 1 .. n : seq[j] = j - 1
  BY <1>0 DEF Indices
<1>3. \A x, y \in F : field_add(x, y) \in F /\ field_sub(x, y) \in F /\ field_mul(x, y) \in F
  BY <1>0, AddLaws, MulLaws DEF Field
<1> HIDE DEF seq, n
<1>4. ASSUME NEW b \in A, NEW j \in 1 .. n
      PROVE  Step(b, seq[j]) \in A
  <2> DEFINE i == j - 1
             lo == Low(i, m)
  <2>1. i \in Nat /\ 2 * i < size
    BY <1>0
  <2>2. lo \in 0 .. size - 1 /\ lo + m \in 0 .. size - 1
    BY <1>0, <2>1, PairsInside
  <2>3. WritesPair(i, m, lo)
    BY <1>0, <2>1, PairsWritten
  <2>4. RootAt(i, m) \in 0 .. m - 1
    BY <1>0, <2>2, <2>3 DEF WritesPair
  <2>5. b[lo] \in F /\ b[lo + m] \in F /\ roots[RootAt(i, m)] \in F
    BY <1>0, <2>2, <2>4
  <2> DEFINE temp == field_mul(roots[RootAt(i, m)], b[lo + m])
  <2>6. field_sub(b[lo], temp) \in F /\ field_add(b[lo], temp) \in F
    BY <1>3, <2>5
  <2>7. Step(b, i) = [b EXCEPT ![lo + m] = field_sub(b[lo], temp), ![lo] = field_add(b[lo], temp)]
    BY DEF Butterfly
  <2> HIDE DEF temp, lo, Step
  <2>8. Step(b, i) \in A
    BY <2>6, <2>7
  <2>9. seq[j] = i
    BY <1>2
  <2> QED
    BY <2>8, <2>9
<1> HIDE DEF A, Step
<1>5. g \in [A \X (1 .. n) -> A]
  BY <1>4
<1>6. PICK k0 \in [SUBSET (1 .. n) -> A] : IsLeftFold(k0, a, g, n)
  <2> HIDE DEF g
  <2> QED
    BY <1>0, <1>5, LeftFoldExists
<1>7. Rec(k0)
  <2>1. ASSUME NEW s \in SUBSET (1 .. n), s # {}
        PROVE  k0[s] = Step(k0[s \ {Max(s)}], seq[Max(s)])
    <3>1. Max(s) \in 1 .. n /\ s \ {Max(s)} \in SUBSET (1 .. n)
      <4>1. Max(s) \in s
        BY <1>0, <2>1, LastIsLargest
      <4> QED
        BY <4>1
    <3>2. k0[s \ {Max(s)}] \in A
      BY <3>1
    <3>3. k0[s] = g[<<k0[s \ {Max(s)}], Max(s)>>]
      BY <1>6, <2>1 DEF IsLeftFold
    <3> QED
      BY <3>1, <3>2, <3>3
  <2>2. k0[{}] = a /\ DOMAIN k0 = SUBSET (1 .. n)
    BY <1>6 DEF IsLeftFold
  <2>3. k0 = [s \in SUBSET (1 .. n) |-> k0[s]]
    OBVIOUS
  <2> QED
    BY <1>2, <2>1, <2>2, <2>3
<1>8. Rec(c)
  <2> HIDE DEF Rec
  <2> QED
    BY <1>7
<1>9. /\ c[{}] = a
      /\ \A s \in SUBSET (1 .. n) : s # {} => c[s] = Step(c[s \ {Max(s)}], seq[Max(s)])
  <2> HIDE DEF c
  <2> QED
    BY <1>2, <1>8
<1> HIDE DEF c, g, Rec
<1>10. \A x \in 0 .. size - 1 : PairOf(x, m) \in Nat /\ 2 * PairOf(x, m) < size
  BY <1>0, WrittenOnce DEF WrittenBy
<1>11. a = T(0)
  <2>1. \A x \in D : ~ Done(x, 0)
    BY <1>10
  <2> QED
    BY <1>0, <2>1 DEF A
<1>12. ASSUME NEW j \in 1 .. n
       PROVE  Step(T(j - 1), j - 1) = T(j)
  <2> DEFINE i == j - 1
             lo == Low(i, m)
             b == T(j - 1)
             temp == field_mul(roots[RootAt(i, m)], b[lo + m])
  <2>1. i \in Nat /\ 2 * i < size /\ i < j
    BY <1>0
  <2>2. lo \in 0 .. size - 1 /\ lo + m \in 0 .. size - 1
    BY <1>0, <2>1, PairsInside
  <2>3. WritesPair(i, m, lo)
    BY <1>0, <2>1, PairsWritten
  <2>4. /\ RootAt(i, m) = lo % m /\ (lo + m) % m = lo % m /\ lo % (2 * m) < m
        /\ ~ ((lo + m) % (2 * m) < m) /\ PairOf(lo, m) = i /\ PairOf(lo + m, m) = i
    BY <2>3 DEF WritesPair
  <2>5. Step(b, i) = [b EXCEPT ![lo + m] = field_sub(b[lo], temp), ![lo] = field_add(b[lo], temp)]
    BY DEF Butterfly, Step
  <2>6. DOMAIN b = D /\ \A x \in D : b[x] = IF Done(x, j - 1) THEN CombinedAt(a, m, roots, x) ELSE a[x]
    OBVIOUS
  <2>7. b[lo] = a[lo] /\ b[lo + m] = a[lo + m] /\ lo \in D /\ lo + m \in D /\ lo # lo + m
    <3>1. ~ Done(lo, j - 1) /\ ~ Done(lo + m, j - 1)
      BY <2>1, <2>4
    <3>2. lo \in D /\ lo + m \in D /\ lo # lo + m
      BY <1>0, <2>2
    <3> HIDE DEF b, Done, lo
    <3> QED
      BY <2>6, <3>1, <3>2
  <2>8. /\ CombinedAt(a, m, roots, lo) = field_add(b[lo], temp)
        /\ CombinedAt(a, m, roots, lo + m) = field_sub(b[lo], temp)
    <3>1. (lo + m) - m = lo
      BY <1>0, <2>2
    <3> HIDE DEF b, lo
    <3> QED
      BY <2>4, <2>7, <3>1 DEF CombinedAt
  <2>9. ASSUME NEW x \in D, x # lo, x # lo + m
        PROVE  Done(x, j) <=> Done(x, j - 1)
    <3>1. CASE x \in 0 .. size - 1
      <4>1. WrittenBy(x, m, size)
        BY <1>0, <3>1, WrittenOnce
      <4>2. PairOf(x, m) # i /\ PairOf(x, m) \in Nat
        BY <2>9, <4>1 DEF WrittenBy
      <4> QED
        BY <2>1, <4>2
    <3> QED
      BY <3>1
  <2>10. Done(lo, j) /\ Done(lo + m, j)
    BY <2>1, <2>2, <2>4
  <2>11. ASSUME NEW x \in D
         PROVE  Step(b, i)[x] = IF Done(x, j) THEN CombinedAt(a, m, roots, x) ELSE a[x]
    <3> HIDE DEF Done, b, temp, lo
    <3>1. CASE x = lo
      BY <2>5, <2>6, <2>7, <2>8, <2>10, <3>1
    <3>2. CASE x = lo + m
      BY <2>5, <2>6, <2>7, <2>8, <2>10, <3>2
    <3>3. CASE x # lo /\ x # lo + m
      BY <2>5, <2>6, <2>9, <3>3
    <3> QED
      BY <3>1, <3>2, <3>3
  <2>12. Step(b, i) = [x \in D |-> Step(b, i)[x]]
    <3> HIDE DEF b, temp, lo
    <3> QED
      BY <2>5, <2>6
  <2> HIDE DEF Done, b
  <2>13. Step(b, i) = T(j)
    BY <2>11, <2>12
  <2> QED
    BY <2>13 DEF b
<1> DEFINE h == [j \in 0 .. n |-> T(j)]
<1>13. \A j \in 0 .. n : h[j] = T(j)
  OBVIOUS
<1>14. 0 \in 0 .. n /\ n \in 0 .. n /\ \A j \in 1 .. n : j \in 0 .. n /\ j - 1 \in 0 .. n
  BY <1>0
<1> HIDE DEF T, h
<1>15. c[{}] = h[0]
  BY <1>9, <1>11, <1>13, <1>14
<1>16. ASSUME NEW j \in 1 .. n, c[1 .. j - 1] = h[j - 1]
       PROVE  c[1 .. j] = h[j]
  <2>1. /\ 1 .. j \in SUBSET (1 .. n) /\ 1 .. j # {} /\ Max(1 .. j) = j
        /\ (1 .. j) \ {Max(1 .. j)} = 1 .. j - 1
    BY <1>0, LastOfPrefix
  <2>2. c[1 .. j] = Step(c[1 .. j - 1], seq[j])
    BY <1>9, <2>1
  <2>3. h[j - 1] = T(j - 1) /\ h[j] = T(j) /\ seq[j] = j - 1
    BY <1>2, <1>13, <1>14
  <2> QED
    BY <1>12, <1>16, <2>2, <2>3
<1>17. c[1 .. n] = h[n]
  <2>1. n \in Nat
    BY <1>0
  <2>2. \A j \in 1 .. n : c[1 .. j - 1] = h[j - 1] => c[1 .. j] = h[j]
    BY <1>16
  <2> QED
    BY ONLY <1>15, <2>1, <2>2, PrefixesFold
<1>18. \A x \in 0 .. size - 1 : PairOf(x, m) < n
  BY <1>0, <1>10
<1>19. T(n) = [x \in D |-> IF x \in 0 .. size - 1 THEN CombinedAt(a, m, roots, x) ELSE a[x]]
  BY <1>18 DEF T
<1> QED
  BY <1>1, <1>2, <1>13, <1>14, <1>17, <1>19

(* So does the round that moves to the coefficients.                         *)
LEMMA FinalRoundCombines ==
    ASSUME NEW F, NEW dom, NEW m, NEW a, NEW roots, NEW size, RoundFits(F, dom, m, a, roots, size),
           NEW coeffs, NEW x \in DOMAIN coeffs, x \in 0 .. size - 1
    PROVE  final_fft_round(dom, m, a, coeffs, roots)[x] = CombinedAt(a, m, roots, x)
<1> DEFINE n == Iterations(dom)
           temp(i) == field_mul(roots[RootAt(i, m)], a[Low(i, m) + m])
           lows == {Low(i, m) : i \in 0 .. n - 1}
           At(y) == CHOOSE i \in 0 .. n - 1 : y \in {Low(i, m), Low(i, m) + m}
           p == PairOf(x, m)
<1>0. m \in {2, 4} /\ size \in Nat /\ size % (2 * m) = 0 /\ 2 * n = size /\ n \in Nat
  BY DEF RoundFits
<1>1. WrittenBy(x, m, size)
  BY <1>0, WrittenOnce
<1>2. p \in 0 .. n - 1 /\ p \in Nat
  BY <1>0, <1>1 DEF WrittenBy
<1>3. ASSUME NEW i \in 0 .. n - 1
      PROVE  WritesPair(i, m, Low(i, m))
  <2>1. i \in Nat
    BY <1>0
  <2> QED
    BY <1>0, <2>1, PairsWritten
<1>4. final_fft_round(dom, m, a, coeffs, roots)[x] =
      IF x \in lows THEN field_add(a[x], temp(At(x)))
      ELSE IF x - m \in lows THEN field_sub(a[x - m], temp(At(x))) ELSE coeffs[x]
  BY DEF final_fft_round
<1>5. RootAt(p, m) = Low(p, m) % m /\ (Low(p, m) + m) % m = Low(p, m) % m
  BY <1>2, <1>3 DEF WritesPair
<1>6. ASSUME NEW i \in 0 .. n - 1, x \in {Low(i, m), Low(i, m) + m}
      PROVE  i = p
  BY <1>3, <1>6 DEF WritesPair
<1>7. x \in {Low(p, m), Low(p, m) + m}
  BY <1>1 DEF WrittenBy
<1>8. At(x) = p
  <2> HIDE DEF p
  <2> QED
    BY <1>2, <1>6, <1>7
<1>9. \A i \in 0 .. n - 1 : Low(i, m) \in Nat /\ Low(i, m) % (2 * m) < m
  BY <1>3 DEF WritesPair
<1> HIDE DEF n, At, p
<1>10. CASE x % (2 * m) < m
  <2>1. x = Low(p, m)
    BY <1>1, <1>10 DEF WrittenBy, p
  <2>2. x \in lows
    BY <1>2, <2>1
  <2>3. RootAt(p, m) = x % m
    BY <1>5, <2>1
  <2> QED
    BY <1>4, <1>8, <1>10, <2>1, <2>2, <2>3 DEF CombinedAt
<1>11. CASE ~ (x % (2 * m) < m)
  <2>1. x = Low(p, m) + m
    BY <1>1, <1>11 DEF WrittenBy, p
  <2>2. x - m = Low(p, m)
    BY <1>0, <1>2, <1>9, <2>1
  <2>3. x - m \in lows
    BY <1>2, <2>2
  <2>4. x \notin lows
    BY <1>9, <1>11
  <2>5. RootAt(p, m) = x % m
    BY <1>5, <2>1
  <2>6. temp(p) = field_mul(roots[x % m], a[x])
    BY ONLY <2>1, <2>5
  <2> HIDE DEF lows, temp
  <2> QED
    BY <1>4, <1>8, <1>11, <2>3, <2>4, <2>6 DEF CombinedAt
<1> QED
  BY <1>10, <1>11

\* e and o are the values of f at even and odd indices.
EvenAndOdd(F, f, e, o, n) ==
    /\ n \in Nat /\ \A i \in 0 .. 2 * n - 1 : f[i] \in F
    /\ \A i \in 0 .. n - 1 : e[i] = f[2 * i] /\ o[i] = f[2 * i + 1]

(* A sum is that over the even and that over the odd indices.                *)
LEMMA SumInPairs ==
    ASSUME NEW F, Field(F), NEW n, NEW f, NEW e, NEW o, EvenAndOdd(F, f, e, o, n)
    PROVE  SumOver(f, 0 .. 2 * n - 1) = field_add(SumOver(e, 0 .. n - 1), SumOver(o, 0 .. n - 1))
<1> DEFINE E(j) == SumOver(e, 0 .. j - 1)
           O(j) == SumOver(o, 0 .. j - 1)
           G(j) == SumOver(f, 0 .. j - 1)
           T == {j \in Nat : j <= n => G(2 * j) = field_add(E(j), O(j))}
<1>0. /\ n \in Nat /\ \A i \in 0 .. 2 * n - 1 : f[i] \in F
      /\ \A i \in 0 .. n - 1 : e[i] = f[2 * i] /\ o[i] = f[2 * i + 1]
  BY DEF EvenAndOdd
<1> USE <1>0
<1>1. \A i \in 0 .. n - 1 : e[i] \in F /\ o[i] \in F
  <2> SUFFICES ASSUME NEW i \in 0 .. n - 1 PROVE e[i] \in F /\ o[i] \in F
    OBVIOUS
  <2>1. 2 * i \in 0 .. 2 * n - 1 /\ 2 * i + 1 \in 0 .. 2 * n - 1
    OBVIOUS
  <2> QED
    BY <2>1
<1>2. 0 \in T
  <2>1. 0 .. 0 - 1 = {} /\ 0 .. 2 * 0 - 1 = {}
    OBVIOUS
  <2>2. SumOver(e, {}) = Zero /\ SumOver(o, {}) = Zero /\ SumOver(f, {}) = Zero
    <3>1. Monoid(F, Plus(F), Zero)
      BY DEF Field
    <3>2. ASSUME NEW g
          PROVE  SumOver(g, {}) = Zero
      <4> DEFINE S == {}
      <4>1. IsFiniteSet(S) /\ \A i \in S : g[i] \in F
        BY FS_EmptySet
      <4> HIDE DEF S
      <4>2. SumOver(g, {}) = Zero
        BY ONLY <3>1, <4>1, SumLaws
      <4> QED
        BY <4>2
    <3> QED
      BY <3>2
  <2>3. field_add(Zero, Zero) = Zero
    BY AddLaws
  <2> QED
    BY <2>1, <2>2, <2>3
<1>3. ASSUME NEW j \in Nat, j \in T
      PROVE  j + 1 \in T
  <2> SUFFICES ASSUME j + 1 <= n PROVE G(2 * (j + 1)) = field_add(E(j + 1), O(j + 1))
    OBVIOUS
  <2>1. /\ 2 * j \in Nat /\ 2 * j + 1 \in Nat /\ j <= n /\ j \in 0 .. n - 1
        /\ (2 * j + 1) - 1 = 2 * j /\ 2 * (j + 1) - 1 = 2 * j + 1 /\ (j + 1) - 1 = j
    OBVIOUS
  <2>2. \A i \in 0 .. j : e[i] \in F /\ o[i] \in F
    BY <1>1, <2>1
  <2>3. \A i \in 0 .. 2 * j + 1 : f[i] \in F
    OBVIOUS
  <2>4. \A i \in 0 .. 2 * j : f[i] \in F
    OBVIOUS
  <2>5. E(j) \in F /\ SumOver(e, 0 .. j) = field_add(E(j), e[j])
    BY ONLY Field(F), j \in Nat, <2>2, SumUpTo
  <2>6. O(j) \in F /\ SumOver(o, 0 .. j) = field_add(O(j), o[j])
    BY ONLY Field(F), j \in Nat, <2>2, SumUpTo
  <2>7. G(2 * j) \in F /\ SumOver(f, 0 .. 2 * j) = field_add(G(2 * j), f[2 * j])
    BY ONLY Field(F), <2>1, <2>4, SumUpTo
  <2>8. SumOver(f, 0 .. 2 * j + 1) = field_add(SumOver(f, 0 .. 2 * j), f[2 * j + 1])
    <3> DEFINE q == 2 * j + 1
    <3>1. SumOver(f, 0 .. q) = field_add(SumOver(f, 0 .. q - 1), f[q])
      <4> HIDE DEF q
      <4> QED
        BY ONLY Field(F), <2>1, <2>3, SumUpTo DEF q
    <3>2. q - 1 = 2 * j
      OBVIOUS
    <3> QED
      BY ONLY <3>1, <3>2 DEF q
  <2>9. G(2 * j) = field_add(E(j), O(j))
    BY <1>3, <2>1
  <2>10. f[2 * j] = e[j] /\ f[2 * j + 1] = o[j] /\ e[j] \in F /\ o[j] \in F
    BY <1>1, <2>1
  <2>11. \A x, y \in F : field_add(x, y) \in F /\ field_add(x, y) = field_add(y, x)
    BY AddLaws
  <2>12. \A x, y, z \in F : field_add(x, field_add(y, z)) = field_add(field_add(x, y), z)
    BY AddLaws
  <2> DEFINE a == E(j)
             b == O(j)
             u == e[j]
             v == o[j]
  <2>13. G(2 * (j + 1)) = field_add(field_add(field_add(a, b), u), v)
    BY <2>1, <2>7, <2>8, <2>9, <2>10
  <2>14. field_add(E(j + 1), O(j + 1)) = field_add(field_add(a, u), field_add(b, v))
    BY <2>1, <2>5, <2>6
  <2> HIDE DEF E, O, G, a, b, u, v
  <2>15. a \in F /\ b \in F /\ u \in F /\ v \in F
    BY <2>5, <2>6, <2>10 DEF a, b, u, v, E, O
  <2>16. field_add(field_add(a, b), u) = field_add(field_add(a, u), b)
    <3>1. field_add(field_add(a, b), u) = field_add(a, field_add(b, u))
      BY <2>12, <2>15
    <3>2. field_add(a, field_add(u, b)) = field_add(field_add(a, u), b)
      BY <2>12, <2>15
    <3> QED
      BY <2>11, <2>15, <3>1, <3>2
  <2>17. field_add(field_add(field_add(a, u), b), v) = field_add(field_add(a, u), field_add(b, v))
    <3>1. field_add(a, u) \in F
      BY <2>11, <2>15
    <3> QED
      BY <2>12, <2>15, <3>1
  <2> QED
    BY <2>13, <2>14, <2>16, <2>17
<1> HIDE DEF T
<1>4. n \in T
  BY <1>2, <1>3, SetInduction
<1> QED
  BY <1>4 DEF T

-----------------------------------------------------------------------------
(* Domains and the serial FFT.                                               *)

(* A smaller power of two divides a larger one.                              *)
LEMMA PowersDivide ==
    ASSUME NEW b \in 0 .. 31, NEW c \in 0 .. 31, c <= b
    PROVE  2^b = 2^c * 2^(b - c)
<1> DEFINE T == {k \in Nat : k <= b => 2^b = 2^k * 2^(b - k)}
<1>1. 0 \in T
  <2>1. 2^b \in Nat /\ 2^0 = 1
    <3>1. 2^b \in Nat
      BY PowersDouble
    <3>2. 2^0 = 1
      OBVIOUS
    <3> QED
      BY ONLY <3>1, <3>2
  <2>2. b - 0 = b
    OBVIOUS
  <2>3. 2^b = 1 * 2^b
    BY <2>1
  <2>4. 2^0 * 2^(b - 0) = 1 * 2^b
    BY ONLY <2>1, <2>2
  <2> QED
    BY ONLY <2>3, <2>4, 0 \in Nat
<1>2. ASSUME NEW k \in Nat, k \in T
      PROVE  k + 1 \in T
  <2> SUFFICES ASSUME k + 1 <= b PROVE 2^b = 2^(k + 1) * 2^(b - (k + 1))
    OBVIOUS
  <2> DEFINE p == 2^k
             q == 2^(b - (k + 1))
  <2>1. k \in 0 .. 31 /\ b - (k + 1) \in 0 .. 31 /\ b - (k + 1) + 1 = b - k
    OBVIOUS
  <2>2. p \in Nat /\ q \in Nat /\ 2^(k + 1) = 2 * p
    BY <2>1, PowersDouble
  <2>3. 2^(b - (k + 1) + 1) = 2 * q
    BY <2>1, PowersDouble
  <2>4. 2^(b - k) = 2 * q
    BY ONLY <2>1, <2>3
  <2>5. 2^b = p * (2 * q)
    BY <1>2, <2>4
  <2> HIDE DEF p, q
  <2>6. p * (2 * q) = (2 * p) * q
    BY ONLY <2>2
  <2> QED
    BY ONLY <2>2, <2>5, <2>6 DEF q
<1> HIDE DEF T
<1>3. \A k \in Nat : k \in T
  BY <1>1, <1>2, SetInduction
<1>4. c \in T
  BY <1>3
<1> QED
  BY <1>4 DEF T

\* The threads of a domain share all of its elements, in pairs.
Shared(dom, size) ==
    /\ size \in Nat /\ dom.num_threads * dom.thread_size = size
    /\ Iterations(dom) \in Nat /\ 2 * Iterations(dom) = size

(* They do, of a domain that has a power of two as its size.                 *)
LEMMA DomainsShared ==
    ASSUME NEW b \in 1 .. 30, NEW size, size = 2^b, available_parallelism < 2^31
    PROVE  Shared(new_domain(size), size)
<1> DEFINE k == domain_num_threads(size)
<1>1. PICK c \in 0 .. 30 : 2^c <= available_parallelism /\ available_parallelism < 2^(c + 1)
  BY SomeBit, ArithmeticAssumption
<1>2. get_msb(available_parallelism) = c
  <2>1. c \in 0 .. 31 /\ available_parallelism \in Nat
    BY ArithmeticAssumption
  <2> QED
    BY ONLY <1>1, <2>1, HighestBit
<1>3. compute_num_threads = 2^c
  BY <1>2 DEF compute_num_threads
<1>4. \E q \in Nat : size = k * (2 * q) /\ k \in Nat \ {0}
  <2>1. CASE size <= compute_num_threads * MIN_GROUP_PER_THREAD
    <3>1. k = 1
      BY <2>1 DEF domain_num_threads
    <3>2. b - 1 \in 0 .. 31 /\ b - 1 + 1 = b
      OBVIOUS
    <3>3. 2^(b - 1) \in Nat /\ 2^(b - 1 + 1) = 2 * 2^(b - 1)
      BY <3>2, PowersDouble
    <3>4. size = 2 * 2^(b - 1)
      BY ONLY <3>2, <3>3, size = 2^b
    <3>5. size = 1 * (2 * 2^(b - 1)) /\ 1 \in Nat \ {0}
      BY <3>3, <3>4
    <3> QED
      BY <3>1, <3>3, <3>5
  <2>2. CASE ~ (size <= compute_num_threads * MIN_GROUP_PER_THREAD)
    <3>1. k = 2^c
      BY <1>3, <2>2 DEF domain_num_threads
    <3>0. b \in 0 .. 31 /\ c \in 0 .. 31
      OBVIOUS
    <3>2. 2^b \in Nat /\ 2^c \in Nat \ {0} /\ 2^(c + 1) \in Nat /\ 2^(c + 1) = 2 * 2^c
      BY ONLY <3>0, PowersDouble
    <3>3. ~ (2^b <= 2^c * 4)
      BY <1>3, <2>2 DEF MIN_GROUP_PER_THREAD
    <3>4. ~ (b = c)
      BY <3>2, <3>3
    <3>5. ~ (b < c)
      <4>1. b < c => 2^(b + 1) <= 2^c
        BY ONLY <3>0, PowersGrow
      <4>2. 2^(b + 1) = 2 * 2^b
        BY ONLY <3>0, PowersDouble
      <4> QED
        BY <3>2, <3>3, <4>1, <4>2
    <3>6. c \in 0 .. 31 /\ c <= b /\ b - c - 1 \in 0 .. 31 /\ b - c - 1 + 1 = b - c
      BY <3>4, <3>5
    <3>7. 2^b = 2^c * 2^(b - c)
      BY ONLY <3>0, <3>6, PowersDivide
    <3>8. 2^(b - c - 1) \in Nat /\ 2^(b - c - 1 + 1) = 2 * 2^(b - c - 1)
      BY <3>6, PowersDouble
    <3>9. 2^(b - c) = 2 * 2^(b - c - 1)
      BY ONLY <3>6, <3>8
    <3>10. size = k * (2 * 2^(b - c - 1))
      BY ONLY <3>1, <3>7, <3>9, size = 2^b
    <3> QED
      BY <3>1, <3>2, <3>8, <3>10
  <2> QED
    BY <2>1, <2>2
<1> HIDE DEF k
<1>5. PICK q \in Nat : size = k * (2 * q) /\ k \in Nat \ {0}
  BY <1>4
<1>6. size \div k = 2 * q
  <2>1. size = k * (2 * q) + 0
    BY <1>5
  <2>2. DividesTo(size, k, 2 * q, 0)
    BY <1>5, <2>1 DEF DividesTo
  <2> QED
    BY ONLY <2>2, RemaindersAre
<1>7. /\ new_domain(size).num_threads = k /\ new_domain(size).thread_size = 2 * q
  BY <1>6 DEF new_domain, k
<1>8. (2 * q) \div 2 = q
  OBVIOUS
<1>9. Iterations(new_domain(size)) = k * q
  BY ONLY <1>7, <1>8 DEF Iterations
<1>10. k * q \in Nat /\ 2 * (k * q) = k * (2 * q)
  BY <1>5
<1> QED
  BY <1>5, <1>7, <1>9, <1>10 DEF Shared

\* The coefficients in the order of the bit reversal.
Reordered(input, size) == [k \in 0 .. size - 1 |-> input[reverse_bits(k, get_msb(size))]]

(* Reordered coefficients are elements of the field.                         *)
LEMMA ReorderedIn ==
    ASSUME NEW F, NEW b \in 1 .. 30, NEW size, size = 2^b, NEW input,
           \A i \in 0 .. size - 1 : input[i] \in F
    PROVE  \A k \in 0 .. size - 1 : Reordered(input, size)[k] \in F
<1> SUFFICES ASSUME NEW k \in 0 .. size - 1 PROVE input[reverse_bits(k, get_msb(size))] \in F
  BY DEF Reordered
<1>1. size \in Nat /\ 2^b <= size /\ size < 2^(b + 1) /\ b \in 0 .. 31 /\ b \in 1 .. 31
  <2>1. b \in 0 .. 31 /\ b \in 1 .. 31
    OBVIOUS
  <2>2. 2^b \in Nat \ {0} /\ 2^(b + 1) = 2 * 2^b
    BY ONLY <2>1, PowersDouble
  <2> QED
    BY <2>1, <2>2
<1>2. get_msb(size) = b
  BY <1>1, HighestBit
<1>3. k \in Nat
  OBVIOUS
<1>4. reverse_bits(k, b) \in 0 .. 2^b - 1
  BY ONLY <1>1, <1>3, ReversedFits
<1> QED
  BY <1>2, <1>4

(* The inverse of a root turns as far.                                       *)
LEMMA InverseTurns ==
    ASSUME NEW F, Field(F), NEW w \in F, NEW k \in Nat \ {0}, field_pow(w, k) = negated(One)
    PROVE  field_inverse(w) \in F /\ field_pow(field_inverse(w), k) = negated(One)
<1> DEFINE v == field_inverse(w)
           x == field_pow(v, k)
<1>0. w # Zero
  <2> SUFFICES ASSUME w = Zero PROVE FALSE
    OBVIOUS
  <2>1. k - 1 \in Nat /\ k - 1 + 1 = k
    OBVIOUS
  <2>2. field_pow(w, k - 1 + 1) = field_mul(w, field_pow(w, k - 1)) /\ field_pow(w, k - 1) \in F
    BY <2>1, PowerLaws DEF Field
  <2>3. field_pow(w, k) = Zero
    BY <2>1, <2>2, ZeroLaws
  <2>4. field_add(negated(One), One) = Zero /\ field_add(Zero, One) = One /\ One # Zero
    BY MulLaws, ZeroLaws, AddLaws DEF Field
  <2> QED
    BY <2>3, <2>4
<1>1. v \in F /\ field_mul(w, v) = One
  BY <1>0 DEF Field
<1> HIDE DEF v
<1>2. x \in F
  BY <1>1, PowerLaws
<1>3. field_mul(field_pow(w, k), x) = One
  <2>1. field_pow(field_mul(w, v), k) = field_mul(field_pow(w, k), x)
    BY <1>1, PowerOfProduct
  <2>2. field_pow(One, k) = One
    BY PowerOfOne
  <2> QED
    BY <1>1, <2>1, <2>2
<1> HIDE DEF x
<1>4. One \in F /\ field_mul(One, x) = x /\ negated(negated(x)) = x
  BY <1>2, MulLaws, SubLaws
<1>5. field_mul(negated(One), x) = negated(x)
  BY <1>2, <1>4, ZeroLaws
<1>6. x = negated(One)
  BY <1>3, <1>4, <1>5
<1> QED
  BY <1>1, <1>6 DEF x, v

\* What BitReversed makes of the first j of the coefficients.
CopiedTo(coefficients, n, j) ==
    [x \in DOMAIN coefficients |->
        IF x < j /\ x < reverse_bits(x, n) THEN coefficients[reverse_bits(x, n)] ELSE coefficients[x]]

(* The higher element of each pair is copied over the lower one.             *)
LEMMA BitReversedIs ==
    ASSUME NEW b \in 1 .. 30, NEW size, size = 2^b, NEW coefficients, NEW F,
           coefficients \in [0 .. size - 1 -> F]
    PROVE  BitReversed(coefficients, size) = CopiedTo(coefficients, b, size)
<1> DEFINE n == size + 1
           seq == Indices(n)
           rev(i) == reverse_bits(i, b)
           Step(c, i) == IF i < rev(i) THEN [c EXCEPT ![i] = c[rev(i)]] ELSE c
           A == [0 .. size - 1 -> F]
           Rec(k) == k = [s \in SUBSET (DOMAIN seq) |->
                             IF s = {} THEN coefficients ELSE Step(k[s \ {Max(s)}], seq[Max(s)])]
           g == [p \in A \X (1 .. n) |-> Step(p[1], seq[p[2]])]
           c == CHOOSE k : Rec(k)
           h == [j \in 0 .. n |-> CopiedTo(coefficients, b, j)]
<1>1. b \in 0 .. 31 /\ b \in 1 .. 31 /\ size \in Nat \ {0} /\ n \in Nat
  <2>1. b \in 0 .. 31
    OBVIOUS
  <2>2. 2^b \in Nat \ {0}
    BY ONLY <2>1, PowersDouble
  <2> QED
    BY <2>2
<1>2. get_msb(size) = b
  <2>1. 2^b <= size /\ size < 2^(b + 1)
    <3>1. 2^b \in Nat \ {0} /\ 2^(b + 1) = 2 * 2^b
      BY ONLY <1>1, PowersDouble
    <3> QED
      BY <3>1
  <2> QED
    BY ONLY <1>1, <2>1, HighestBit
<1>3. BitReversed(coefficients, size) = c[DOMAIN seq]
  <2>1. BitReversed(coefficients, size) = FoldLeft(Step, coefficients, seq)
    BY ONLY <1>2 DEF BitReversed
  <2>2. FoldLeft(Step, coefficients, seq) = c[DOMAIN seq]
    BY ONLY DEF FoldLeft, MapThenFoldSet
  <2> QED
    BY ONLY <2>1, <2>2
<1>4. DOMAIN seq = 1 .. n /\ \A j \in 1 .. n : seq[j] = j - 1
  BY DEF Indices
<1>5. \A i \in Nat : rev(i) \in 0 .. size - 1
  BY <1>1, ReversedFits
<1> HIDE DEF seq, n, rev
<1>6. ASSUME NEW a \in A, NEW j \in 1 .. n
      PROVE  Step(a, seq[j]) \in A
  <2>1. seq[j] = j - 1 /\ j - 1 \in Nat
    BY <1>1, <1>4
  <2>2. j - 1 < rev(j - 1) => j - 1 \in 0 .. size - 1 /\ a[rev(j - 1)] \in F
    BY <1>1, <1>5, <2>1
  <2> QED
    BY <2>1, <2>2
<1>7. g \in [A \X (1 .. n) -> A]
  BY <1>6
<1>8. PICK k0 \in [SUBSET (1 .. n) -> A] : IsLeftFold(k0, coefficients, g, n)
  <2> HIDE DEF g, A
  <2>1. coefficients \in A
    BY DEF A
  <2> QED
    BY <1>1, <1>7, <2>1, LeftFoldExists
<1> HIDE DEF A, Step
<1>9. Rec(k0)
  <2>1. ASSUME NEW s \in SUBSET (1 .. n), s # {}
        PROVE  k0[s] = Step(k0[s \ {Max(s)}], seq[Max(s)])
    <3>1. Max(s) \in 1 .. n /\ s \ {Max(s)} \in SUBSET (1 .. n)
      <4>1. Max(s) \in s
        BY <1>1, <2>1, LastIsLargest
      <4> QED
        BY <4>1
    <3>2. k0[s \ {Max(s)}] \in A
      BY <3>1
    <3>3. k0[s] = g[<<k0[s \ {Max(s)}], Max(s)>>]
      BY <1>8, <2>1 DEF IsLeftFold
    <3> QED
      BY <3>1, <3>2, <3>3
  <2>2. k0[{}] = coefficients /\ DOMAIN k0 = SUBSET (1 .. n)
    BY <1>8 DEF IsLeftFold
  <2>3. k0 = [s \in SUBSET (1 .. n) |-> k0[s]]
    OBVIOUS
  <2> QED
    BY <1>4, <2>1, <2>2, <2>3
<1>10. Rec(c)
  <2> HIDE DEF Rec
  <2> QED
    BY <1>9
<1>11. /\ c[{}] = coefficients
       /\ \A s \in SUBSET (1 .. n) : s # {} => c[s] = Step(c[s \ {Max(s)}], seq[Max(s)])
  <2> HIDE DEF c
  <2> QED
    BY <1>4, <1>10
<1> HIDE DEF c, g, Rec
<1>12. \A j \in 0 .. n : h[j] = CopiedTo(coefficients, b, j)
  OBVIOUS
<1>13. DOMAIN coefficients = 0 .. size - 1
  OBVIOUS
<1>14. c[{}] = h[0]
  <2>1. CopiedTo(coefficients, b, 0) = [x \in 0 .. size - 1 |-> coefficients[x]]
    BY <1>13 DEF CopiedTo
  <2>2. coefficients = [x \in 0 .. size - 1 |-> coefficients[x]]
    OBVIOUS
  <2>3. 0 \in 0 .. n
    BY <1>1
  <2> HIDE DEF h
  <2> QED
    BY <1>11, <1>12, <2>1, <2>2, <2>3
<1>15. ASSUME NEW j \in 1 .. n
       PROVE  Step(CopiedTo(coefficients, b, j - 1), j - 1) = CopiedTo(coefficients, b, j)
  <2> DEFINE i == j - 1
             a == CopiedTo(coefficients, b, i)
  <2>1. i \in Nat /\ j = i + 1 /\ rev(i) \in 0 .. size - 1
    BY <1>1, <1>5
  <2>2. \A x \in 0 .. size - 1 : x < j <=> x < i \/ x = i
    BY <2>1
  <2>3. /\ DOMAIN a = 0 .. size - 1
        /\ \A x \in 0 .. size - 1 :
              a[x] = IF x < i /\ x < rev(x) THEN coefficients[rev(x)] ELSE coefficients[x]
    BY <1>13 DEF CopiedTo, rev
  <2>4. CopiedTo(coefficients, b, j) =
        [x \in 0 .. size - 1 |-> IF x < j /\ x < rev(x) THEN coefficients[rev(x)] ELSE coefficients[x]]
    BY <1>13 DEF CopiedTo, rev
  <2>5. a = [x \in 0 .. size - 1 |-> a[x]]
    BY <1>13 DEF CopiedTo
  <2> HIDE DEF a, i
  <2>6. CASE i < rev(i)
    <3>1. i \in 0 .. size - 1 /\ a[rev(i)] = coefficients[rev(i)]
      BY <1>1, <2>1, <2>3, <2>6
    <3>2. Step(a, i) = [a EXCEPT ![i] = coefficients[rev(i)]]
      BY <2>6, <3>1 DEF Step
    <3>3. \A x \in 0 .. size - 1 :
             [a EXCEPT ![i] = coefficients[rev(i)]][x] =
             IF x < j /\ x < rev(x) THEN coefficients[rev(x)] ELSE coefficients[x]
      <4> SUFFICES ASSUME NEW x \in 0 .. size - 1
                   PROVE  [a EXCEPT ![i] = coefficients[rev(i)]][x] =
                          IF x < j /\ x < rev(x) THEN coefficients[rev(x)] ELSE coefficients[x]
        OBVIOUS
      <4>1. CASE x = i
        BY <2>2, <2>3, <2>6, <3>1, <4>1
      <4>2. CASE x # i
        <5>1. x < j <=> x < i
          BY <2>2, <4>2
        <5> QED
          BY <2>3, <4>2, <5>1
      <4> QED
        BY <4>1, <4>2
    <3> QED
      BY <2>3, <2>4, <3>2, <3>3 DEF a, i
  <2>7. CASE ~ (i < rev(i))
    <3>1. Step(a, i) = a
      BY <2>7 DEF Step
    <3>2. \A x \in 0 .. size - 1 : (x < j /\ x < rev(x)) <=> (x < i /\ x < rev(x))
      BY <2>2, <2>7
    <3>3. a = CopiedTo(coefficients, b, j)
      BY <2>3, <2>4, <2>5, <3>2
    <3> QED
      BY <3>1, <3>3 DEF a, i
  <2> QED
    BY <2>6, <2>7
<1> HIDE DEF h
<1>16. ASSUME NEW j \in 1 .. n, c[1 .. j - 1] = h[j - 1]
       PROVE  c[1 .. j] = h[j]
  <2>1. /\ 1 .. j \in SUBSET (1 .. n) /\ 1 .. j # {} /\ Max(1 .. j) = j
        /\ (1 .. j) \ {Max(1 .. j)} = 1 .. j - 1
    BY <1>1, LastOfPrefix
  <2>2. c[1 .. j] = Step(c[1 .. j - 1], seq[j])
    BY <1>11, <2>1
  <2>3. j \in 0 .. n /\ j - 1 \in 0 .. n
    BY <1>1
  <2>4. h[j - 1] = CopiedTo(coefficients, b, j - 1) /\ h[j] = CopiedTo(coefficients, b, j) /\ seq[j] = j - 1
    BY <1>4, <1>12, <2>3
  <2> QED
    BY <1>15, <1>16, <2>2, <2>4
<1>17. c[1 .. n] = h[n]
  <2>1. \A j \in 1 .. n : c[1 .. j - 1] = h[j - 1] => c[1 .. j] = h[j]
    BY <1>16
  <2>2. n \in Nat /\ c[{}] = h[0]
    BY <1>1, <1>14
  <2> HIDE DEF c
  <2> QED
    BY ONLY <2>1, <2>2, PrefixesFold, ZenonT(60)
<1>18. CopiedTo(coefficients, b, n) = CopiedTo(coefficients, b, size)
  <2>1. \A x \in 0 .. size - 1 : x < n /\ x < size
    BY <1>1 DEF n
  <2> QED
    BY <1>13, <2>1 DEF CopiedTo
<1>19. h[n] = CopiedTo(coefficients, b, n)
  <2>1. n \in 0 .. n
    BY <1>1
  <2> QED
    BY <1>12, <2>1
<1> QED
  BY <1>3, <1>4, <1>17, <1>18, <1>19

\* What the loops by steps take for sizes of four and of two.
LEMMA FewStepped ==
    /\ DOMAIN Stepped(2, 2, 2) = {}
    /\ DOMAIN Stepped(2, 4, 2) = {1} /\ Stepped(2, 4, 2)[1] = 2
    /\ DOMAIN Stepped(0, 4, 2 * 2) = {1} /\ Stepped(0, 4, 2 * 2)[1] = 0
<1>1. (2 - 2 + 2 - 1) \div 2 = 0 /\ (4 - 2 + 2 - 1) \div 2 = 1 /\ (4 - 0 + 2 * 2 - 1) \div (2 * 2) = 1
  OBVIOUS
<1>2. 1 .. 0 = {} /\ 1 .. 1 = {1} /\ 1 \in 1 .. 1
  OBVIOUS
<1>3. 2 + (1 - 1) * 2 = 2 /\ 0 + (1 - 1) * (2 * 2) = 0
  OBVIOUS
<1> QED
  BY <1>1, <1>2, <1>3 DEF Stepped

(* What a fold over two steps meets.                                         *)
LEMMA SubsetsOfTwo ==
    /\ Max({1, 2}) = 2 /\ {1, 2} \ {Max({1, 2})} = {1} /\ Max({2}) = 2 /\ {2} \ {Max({2})} = {}
    /\ \A s \in SUBSET {1, 2} : s = {} \/ s = {1} \/ s = {2} \/ s = {1, 2}
<1>1. Max({1, 2}) = 2
  BY DEF Max
<1>2. Max({2}) = 2
  BY DEF Max
<1>3. {1, 2} \ {2} = {1} /\ {2} \ {2} = {}
  OBVIOUS
<1>4. \A s \in SUBSET {1, 2} : s = {} \/ s = {1} \/ s = {2} \/ s = {1, 2}
  OBVIOUS
<1>5. QED
  BY ONLY <1>1, <1>2, <1>3, <1>4

\* The two steps of a block.
BlockOfTwo(table, a, k) ==
    Butterfly(Butterfly(a, table[0][0], k + 0, 2), table[0][1], k + 1, 2)

(* A block of four elements takes two butterflies.                           *)
LEMMA BlockHasTwo ==
    ASSUME NEW table, NEW a, NEW k
    PROVE  SerialBlock(table, 2, a, k) = BlockOfTwo(table, a, k)
<1> DEFINE seq == Indices(2)
           Step(b, j) == Butterfly(b, table[0][j], k + j, 2)
           Rec(f) == f = [s \in SUBSET (DOMAIN seq) |->
                             IF s = {} THEN a ELSE Step(f[s \ {Max(s)}], seq[Max(s)])]
           one == Step(a, 0)
           other == Step(a, 1)
           two == Step(one, 1)
           f0 == [s \in SUBSET {1, 2} |-> IF s = {} THEN a ELSE IF s = {1} THEN one
                                          ELSE IF s = {2} THEN other ELSE two]
<1>1. get_msb(2) - 1 = 0
  BY SmallMsb
<1>2. SerialBlock(table, 2, a, k) = (CHOOSE f : Rec(f))[DOMAIN seq]
  <2> HIDE DEF seq
  <2> QED
    BY <1>1 DEF SerialBlock, FoldLeft, MapThenFoldSet, seq
<1>3. DOMAIN seq = {1, 2} /\ seq[1] = 0 /\ seq[2] = 1
  BY DEF Indices
<1>4. two = BlockOfTwo(table, a, k)
  BY DEF BlockOfTwo
<1> HIDE DEF Step, seq
<1>5. Rec(f0)
  <2>1. /\ f0[{}] = a /\ f0[{1}] = one /\ f0[{2}] = other /\ f0[{1, 2}] = two
        /\ {1} \in SUBSET {1, 2} /\ {} \in SUBSET {1, 2}
    OBVIOUS
  <2> HIDE DEF f0
  <2>2. \A s \in SUBSET {1, 2} : s # {} => f0[s] = Step(f0[s \ {Max(s)}], seq[Max(s)])
    <3> SUFFICES ASSUME NEW s \in SUBSET {1, 2}, s # {}
                 PROVE  f0[s] = Step(f0[s \ {Max(s)}], seq[Max(s)])
      OBVIOUS
    <3>1. CASE s = {1}
      BY <1>3, <2>1, <3>1, SubsetsOfOne
    <3>2. CASE s = {2}
      BY <1>3, <2>1, <3>2, SubsetsOfTwo
    <3>3. CASE s = {1, 2}
      BY <1>3, <2>1, <3>3, SubsetsOfTwo
    <3> QED
      BY <3>1, <3>2, <3>3, SubsetsOfTwo
  <2>3. f0 = [s \in SUBSET {1, 2} |-> f0[s]]
    BY DEF f0
  <2> QED
    BY <1>3, <2>1, <2>2, <2>3
<1>6. ASSUME NEW f, Rec(f)
      PROVE  f[{1, 2}] = two
  <2>1. f[{}] = a /\ \A s \in SUBSET {1, 2} : s # {} => f[s] = Step(f[s \ {Max(s)}], seq[Max(s)])
    BY <1>3, <1>6
  <2>2. f[{1}] = Step(f[{1} \ {Max({1})}], seq[Max({1})])
    BY <2>1
  <2>3. f[{1, 2}] = Step(f[{1, 2} \ {Max({1, 2})}], seq[Max({1, 2})])
    BY <2>1
  <2> HIDE DEF Rec
  <2>4. f[{1}] = one
    BY <1>3, <2>1, <2>2, SubsetsOfOne
  <2> QED
    BY <1>3, <2>3, <2>4, SubsetsOfTwo
<1> HIDE DEF Rec, f0, two
<1>7. (CHOOSE f : Rec(f))[{1, 2}] = two
  BY <1>5, <1>6
<1> QED
  BY <1>2, <1>3, <1>4, <1>7

(* Of four elements the round for m = 2 has one block.                       *)
LEMMA RoundHasOne ==
    ASSUME NEW table, NEW a
    PROVE  SerialRound(table, 4, a, 2) = SerialBlock(table, 2, a, 0)
<1> DEFINE seq == Stepped(0, 4, 2 * 2)
           Rec(f) == f = [s \in SUBSET (DOMAIN seq) |->
                             IF s = {} THEN a ELSE SerialBlock(table, 2, f[s \ {Max(s)}], seq[Max(s)])]
           one == SerialBlock(table, 2, a, 0)
           f0 == [s \in SUBSET {1} |-> IF s = {} THEN a ELSE one]
<1>1. SerialRound(table, 4, a, 2) = (CHOOSE f : Rec(f))[DOMAIN seq]
  BY DEF SerialRound, FoldLeft, MapThenFoldSet
<1>2. DOMAIN seq = {1} /\ seq[1] = 0
  BY FewStepped
<1> HIDE DEF seq, one
<1>3. Rec(f0)
  <2>1. f0[{}] = a
    OBVIOUS
  <2>2. \A s \in SUBSET {1} : s # {} => one = SerialBlock(table, 2, f0[s \ {Max(s)}], seq[Max(s)])
    BY <1>2, <2>1, SubsetsOfOne DEF one
  <2> QED
    BY <1>2, <2>2
<1>4. ASSUME NEW f, Rec(f)
      PROVE  f[{1}] = one
  <2>1. f[{}] = a
    BY <1>2, <1>4
  <2>2. f[{1}] = SerialBlock(table, 2, f[{1} \ {Max({1})}], seq[Max({1})])
    BY <1>2, <1>4
  <2> QED
    BY <1>2, <2>1, <2>2, SubsetsOfOne DEF one
<1> HIDE DEF Rec
<1> QED
  BY <1>1, <1>2, <1>3, <1>4 DEF one

(* Four coefficients take the first pairs and that round.                    *)
LEMMA SerialOfFour ==
    ASSUME NEW table, NEW input
    PROVE  fft_inner_serial(input, 4, table) = BlockOfTwo(table, FirstPairs(BitReversed(input, 4)), 0)
<1> DEFINE seq == Stepped(2, 4, 2)
           a == FirstPairs(BitReversed(input, 4))
           Rec(f) == f = [s \in SUBSET (DOMAIN seq) |->
                             IF s = {} THEN a ELSE SerialRound(table, 4, f[s \ {Max(s)}], seq[Max(s)])]
           one == SerialRound(table, 4, a, 2)
           f0 == [s \in SUBSET {1} |-> IF s = {} THEN a ELSE one]
<1>1. fft_inner_serial(input, 4, table) = (CHOOSE f : Rec(f))[DOMAIN seq]
  BY DEF fft_inner_serial, FoldLeft, MapThenFoldSet
<1>2. DOMAIN seq = {1} /\ seq[1] = 2
  BY FewStepped
<1>3. one = BlockOfTwo(table, a, 0)
  BY RoundHasOne, BlockHasTwo
<1> HIDE DEF seq, one, a
<1>4. Rec(f0)
  <2>1. f0[{}] = a
    OBVIOUS
  <2>2. \A s \in SUBSET {1} : s # {} => one = SerialRound(table, 4, f0[s \ {Max(s)}], seq[Max(s)])
    BY <1>2, <2>1, SubsetsOfOne DEF one
  <2> QED
    BY <1>2, <2>2
<1>5. ASSUME NEW f, Rec(f)
      PROVE  f[{1}] = one
  <2>1. f[{}] = a
    BY <1>2, <1>5
  <2>2. f[{1}] = SerialRound(table, 4, f[{1} \ {Max({1})}], seq[Max({1})])
    BY <1>2, <1>5
  <2> QED
    BY <1>2, <2>1, <2>2, SubsetsOfOne DEF one
<1> HIDE DEF Rec
<1> QED
  BY <1>1, <1>2, <1>3, <1>4, <1>5 DEF a

(* Two take the first pair only.                                             *)
LEMMA SerialOfTwo ==
    ASSUME NEW table, NEW input
    PROVE  fft_inner_serial(input, 2, table) = FirstPairs(BitReversed(input, 2))
<1> DEFINE seq == Stepped(2, 2, 2)
           a == FirstPairs(BitReversed(input, 2))
           Rec(f) == f = [s \in SUBSET (DOMAIN seq) |->
                             IF s = {} THEN a ELSE SerialRound(table, 2, f[s \ {Max(s)}], seq[Max(s)])]
           f0 == [s \in SUBSET {} |-> a]
<1>1. fft_inner_serial(input, 2, table) = (CHOOSE f : Rec(f))[DOMAIN seq]
  BY DEF fft_inner_serial, FoldLeft, MapThenFoldSet
<1>2. DOMAIN seq = {}
  BY FewStepped
<1> HIDE DEF seq, a
<1>3. Rec(f0)
  BY <1>2
<1>4. \A f : Rec(f) => f[{}] = a
  BY <1>2
<1> HIDE DEF Rec
<1> QED
  BY <1>1, <1>2, <1>3, <1>4 DEF a
=============================================================================
