----------------------- MODULE ArithmeticCalls_proofs -----------------------
(***************************************************************************)
(* Theorems about the calls, for every field and all arguments.            *)
(*                                                                         *)
(* A polynomial whose vector is resized, to more or to less than it had,   *)
(* can still be indexed up to its size; and sums and products of           *)
(* polynomials are right as long as no right side cuts the vector and      *)
(* nothing is scaled past the size.  The second needs to know how long the *)
(* vector is (VectorOK): as long as the size, or as the last right side    *)
(* that made it grow.  Then a right side at least as large as those before *)
(* it only ever adds to it, and a product before anything has grown        *)
(* reaches all of it.                                                      *)
(*                                                                         *)
(* The results of the other calls are what a call has just computed, or    *)
(* were there before (ResultsAreComputed); what it computes is a lemma     *)
(* about operators for each.                                               *)
(*                                                                         *)
(* A transform keeps its state from call to return, so that the invariant  *)
(* of its rounds (RoundsInv) says where the array is that the rounds have  *)
(* made and that each of its blocks is the transform of the coefficients   *)
(* that belong to it.  A round keeps it: a block of twice the length is    *)
(* the transform of the even coefficients and of the odd ones, combined.   *)
(***************************************************************************)
EXTENDS ArithmeticCalls, Arithmetic_proofs

\* The part of TypeOK about one polynomial.
Covers(p) ==
    /\ DOMAIN p = {"size", "coefficients"}
    /\ p.size \in Nat
    /\ 0 .. p.size - 1 \subseteq DOMAIN p.coefficients
    /\ \A i \in DOMAIN p.coefficients : i \in Nat /\ 0 .. i \subseteq DOMAIN p.coefficients

\* A new polynomial has as many coefficients as its size.
LEMMA NewCovers == ASSUME NEW size \in Nat PROVE Covers(new_polynomial(size))
  BY DEF new_polynomial, Covers

\* The left side that the loop over the right side's coefficients works on has
\* all of those, and keeps its own size.
LEMMA PaddedCovers ==
    ASSUME NEW p, NEW rhs \in Polynomials, Covers(p)
    PROVE  /\ Covers(Padded(p, rhs))
           /\ 0 .. rhs.size - 1 \subseteq DOMAIN Padded(p, rhs).coefficients
<1> USE PolynomialsAssumption
<1>1. CASE p.size < rhs.size
  <2> DEFINE q == resize(p, rhs.size)
  <2>1. /\ DOMAIN q = DOMAIN p
        /\ q.size = p.size
        /\ DOMAIN q.coefficients = 0 .. rhs.size - 1
    BY DEF resize, Covers
  <2>2. Padded(p, rhs) = q
    BY <1>1 DEF Padded
  <2> HIDE DEF q
  <2>3. QED
    BY <1>1, <2>1, <2>2 DEF Covers
<1>2. CASE ~ (p.size < rhs.size)
  <2>1. Padded(p, rhs) = p
    BY <1>2 DEF Padded
  <2>2. QED
    BY <1>2, <2>1 DEF Covers
<1>3. QED
  BY <1>1, <1>2

\* What the operators do to the vector keeps which coefficients there are.
LEMMA RewritingCovers ==
    ASSUME NEW p, NEW coefficients, Covers(p), DOMAIN coefficients = DOMAIN p.coefficients
    PROVE  Covers([p EXCEPT !.coefficients = coefficients])
  BY DEF Covers

LEMMA AddCovers ==
    ASSUME NEW p, NEW rhs \in Polynomials, Covers(p)
    PROVE  Covers(add_assign(p, rhs)) /\ Covers(sub_assign(p, rhs))
<1>1. Covers(Padded(p, rhs))
  BY PaddedCovers
<1>2. Covers(add_assign(p, rhs))
  BY <1>1, RewritingCovers DEF add_assign, Combined
<1>3. Covers(sub_assign(p, rhs))
  BY <1>1, RewritingCovers DEF sub_assign, Combined
<1>4. QED
  BY <1>2, <1>3

LEMMA ScaleCovers ==
    ASSUME NEW p, NEW value, Covers(p)
    PROVE  Covers(mul_assign(p, value))
  BY RewritingCovers DEF mul_assign, ScaledBy

LEMMA TypeIsCovers ==
    TypeOK <=> /\ phase \in {"idle", "rounds", "operators", "done", "failed", "panicked"}
               /\ Covers(polynomial)
  BY DEF TypeOK, Covers

(* A call that leaves the polynomial alone needs only its phase looked at.   *)
LEMMA OtherCallsTypeOK ==
    ASSUME TypeOK, UNCHANGED polynomial,
           phase' \in {"idle", "rounds", "operators", "done", "failed", "panicked"}
    PROVE  TypeOK'
  BY DEF TypeOK

LEMMA NextTypeOK == ASSUME TypeOK, [Next]_vars PROVE TypeOK'
<1> DEFINE Phases == {"idle", "rounds", "operators", "done", "failed", "panicked"}
<1>0. phase \in Phases /\ Covers(polynomial)
  BY TypeIsCovers
<1>1. ASSUME NEW op \in Ffts, NEW size \in Sizes, NEW input \in Inputs(size),
             NEW room \in {1, 2}, CallFft(op, size, input, room * size)
      PROVE  TypeOK'
  BY <1>1, OtherCallsTypeOK DEF CallFft
<1>2. ASSUME FftRound PROVE TypeOK'
  BY <1>0, <1>2, OtherCallsTypeOK DEF FftRound
<1>3. ASSUME FftPanics PROVE TypeOK'
  BY <1>3, OtherCallsTypeOK DEF FftPanics
<1>4. ASSUME NEW value \in Scalars, FftReturns(value) PROVE TypeOK'
  BY <1>4, OtherCallsTypeOK DEF FftReturns
<1>5. ASSUME NEW arguments, NEW panics, NEW fails, NEW result, NEW unfinished,
             Computes(arguments, panics, fails, result, unfinished)
      PROVE  TypeOK'
  BY <1>5, OtherCallsTypeOK DEF Computes
<1>6. ASSUME NEW size \in Sizes, NEW input \in Inputs(size),
             \/ \E num_polys \in {1, 2} : CallSerialFft(num_polys, size, input)
             \/ CallPartialFft(size, input)
             \/ \E constant \in Scalars, is_coset, overflow_checks \in BOOLEAN :
                   CallPartialFftInPlace(size, input, constant, is_coset, overflow_checks)
             \/ \E z \in Scalars, n \in 0 .. size + 1 : CallEvaluate(input, z, n)
      PROVE  TypeOK'
  BY <1>5, <1>6 DEF CallSerialFft, CallPartialFft, CallPartialFftInPlace, CallEvaluate
<1>7. ASSUME NEW sizes \in Extensions, NEW extra \in {<<>>, <<One>>, <<Zero, Zero>>},
             CallLagrange(sizes[1], sizes[2], extra)
      PROVE  TypeOK'
  BY <1>5, <1>7 DEF CallLagrange
<1>8. ASSUME NEW n \in 1 .. 3, NEW points \in [0 .. n - 1 -> Scalars],
             \/ CallProduct(points, n)
             \/ \E values \in [0 .. n - 1 -> InterpolatedValues] :
                   CallInterpolate(points, values, n)
      PROVE  TypeOK'
  BY <1>5, <1>8 DEF CallProduct, CallInterpolate
<1>9. ASSUME NEW p \in Polynomials, CallNew(p.size) \/ AddAssign(p) \/ SubAssign(p)
      PROVE  TypeOK'
  <2>1. CASE CallNew(p.size)
    <3>1. phase' \in Phases /\ polynomial' = new_polynomial(p.size)
      BY <2>1 DEF CallNew
    <3>2. Covers(polynomial')
      BY <3>1, NewCovers, PolynomialsAssumption
    <3>3. QED
      BY <3>1, <3>2 DEF TypeOK, Covers
  <2>2. CASE AddAssign(p) \/ SubAssign(p)
    <3>1. /\ phase' \in Phases
          /\ polynomial' = add_assign(polynomial, p) \/ polynomial' = sub_assign(polynomial, p)
      BY <1>0, <2>2 DEF AddAssign, SubAssign, Operates
    <3>2. Covers(polynomial')
      BY <1>0, <3>1, AddCovers
    <3>3. QED
      BY <3>1, <3>2 DEF TypeOK, Covers
  <2>3. QED
    BY <1>9, <2>1, <2>2
<1>10. ASSUME NEW value \in Scalars, MulAssign(value) PROVE TypeOK'
  <2>1. phase' \in Phases /\ polynomial' = mul_assign(polynomial, value)
    BY <1>0, <1>10 DEF MulAssign, Operates
  <2>2. Covers(polynomial')
    BY <1>0, <2>1, ScaleCovers
  <2>3. QED
    BY <2>1, <2>2 DEF TypeOK, Covers
<1>11. ASSUME Return PROVE TypeOK'
  <2>1. phase' \in Phases /\ polynomial' = new_polynomial(0)
    BY <1>11 DEF Return
  <2>2. Covers(polynomial')
    BY <2>1, NewCovers
  <2>3. QED
    BY <2>1, <2>2 DEF TypeOK, Covers
<1>12. ASSUME UNCHANGED vars PROVE TypeOK'
  BY <1>0, <1>12, OtherCallsTypeOK DEF vars
<1>13. QED
  BY <1>1, <1>2, <1>3, <1>4, <1>6, <1>7, <1>8, <1>9, <1>10, <1>11, <1>12 DEF Next

(* A polynomial can be indexed up to its size, after any sequence of sums,   *)
(* differences and products with polynomials of any sizes: add_assign,       *)
(* sub_assign and mul_assign of polynomial.rs never run off its vector.      *)
THEOREM PolynomialsKeepTheirSize == Spec => []TypeOK
<1>1. Init => TypeOK
  <2> SUFFICES ASSUME Init PROVE TypeOK
    OBVIOUS
  <2>1. phase = "idle" /\ polynomial = new_polynomial(0)
    BY DEF Init
  <2>2. Covers(polynomial)
    BY <2>1, NewCovers
  <2>3. QED
    BY <2>1, <2>2, TypeIsCovers
<1>2. TypeOK /\ [Next]_vars => TypeOK'
  BY NextTypeOK
<1>3. QED
  BY <1>1, <1>2, PTL DEF Spec

-----------------------------------------------------------------------------
(* Sums and products of polynomials.                                         *)

\* The identities that a coefficient which is not stored stands for.
OperandsIn(F) ==
    /\ Zero \in F
    /\ \A x, y \in F : field_add(x, y) \in F /\ field_sub(x, y) \in F /\ field_mul(x, y) \in F
    /\ \A x \in F : /\ field_add(x, Zero) = x /\ field_sub(x, Zero) = x
                    /\ field_mul(Zero, x) = Zero
    /\ Scalars \subseteq F
    /\ \A p \in Polynomials : \A i \in DOMAIN p.coefficients : p.coefficients[i] \in F

OperandsFit == \E F : OperandsIn(F)
Operands == CHOOSE F : OperandsIn(F)

\* The coefficient of X^i in what a polynomial stands for.
At(p, i) == IF i \in DOMAIN p.coefficients THEN p.coefficients[i] ELSE Zero

\* Nothing has been scaled past the size, and no right side has cut the vector.
SizesAllow(sizes, scaled, size) ==
    /\ \A s \in scaled : ~ (s > size)
    /\ \A i, j \in DOMAIN sizes : i < j /\ sizes[j] > size => sizes[i] <= sizes[j]

\* The vector is as long as the polynomial's size, or as a right side's.
VectorOK(sizes, p) ==
    \E length \in Nat :
        /\ DOMAIN p.coefficients = 0 .. length - 1
        /\ \/ length = p.size
           \/ length > p.size /\ \E i \in DOMAIN sizes : sizes[i] = length

CallOK ==
    /\ DOMAIN call = {"op", "sizes", "scaled"}
    /\ call.sizes \in Seq(Nat)

\* What the operators keep of a polynomial and the sum it stands for.
Summed(sizes, scaled, p, sum) ==
    /\ VectorOK(sizes, p)
    /\ \A i \in DOMAIN p.coefficients : p.coefficients[i] \in Operands
    /\ SizesAllow(sizes, scaled, p.size) => \A i \in DOMAIN sum : sum[i] = At(p, i)

SumOK(sum) == DOMAIN sum \subseteq Nat /\ \A i \in DOMAIN sum : sum[i] \in Operands

SumInv ==
    /\ SumOK(expected)
    /\ phase # "operators" => \A i \in DOMAIN expected : expected[i] = Zero
    /\ phase = "operators" => CallOK /\ Summed(call.sizes, call.scaled, polynomial, expected)

LEMMA OperandsAreIn == ASSUME OperandsFit PROVE OperandsIn(Operands)
  BY DEF OperandsFit, Operands

LEMMA AgreeIsSummed ==
    ASSUME SumInv
    PROVE  OperatorsAgree
  BY DEF SumInv, OperatorsAgree, Summed, SizesAllow, At

(* A right side at least as large as those that made the vector grow: what   *)
(* it is padded to is the same polynomial, and covers both.                  *)
LEMMA PaddedIsSame ==
    ASSUME NEW p, NEW rhs \in Polynomials, Covers(p), NEW sizes \in Seq(Nat), VectorOK(sizes, p),
           OperandsFit, \A i \in DOMAIN p.coefficients : p.coefficients[i] \in Operands
    PROVE  /\ VectorOK(Append(sizes, rhs.size), Padded(p, rhs))
           /\ Padded(p, rhs).size = p.size
           /\ \A i \in DOMAIN Padded(p, rhs).coefficients : Padded(p, rhs).coefficients[i] \in Operands
           /\ (rhs.size > p.size => \A i \in DOMAIN sizes : sizes[i] <= rhs.size)
              => \A i \in Nat : At(Padded(p, rhs), i) = At(p, i)
<1>1. rhs.size \in Nat /\ p.size \in Nat /\ DOMAIN p = {"size", "coefficients"}
  BY PolynomialsAssumption DEF Covers
<1>2. /\ Append(sizes, rhs.size)[Len(sizes) + 1] = rhs.size
      /\ DOMAIN Append(sizes, rhs.size) = 1 .. Len(sizes) + 1
      /\ DOMAIN sizes = 1 .. Len(sizes) /\ Len(sizes) \in Nat
      /\ \A i \in DOMAIN sizes : Append(sizes, rhs.size)[i] = sizes[i] /\ sizes[i] \in Nat
  BY <1>1
<1>3. PICK length \in Nat :
        /\ DOMAIN p.coefficients = 0 .. length - 1
        /\ \/ length = p.size
           \/ length > p.size /\ \E i \in DOMAIN sizes : sizes[i] = length
  BY DEF VectorOK
<1>4. CASE p.size < rhs.size
  <2>1. PICK q : q = Padded(p, rhs)
    OBVIOUS
  <2>2. /\ q.size = p.size /\ DOMAIN q.coefficients = 0 .. rhs.size - 1
        /\ \A i \in 0 .. rhs.size - 1 : q.coefficients[i] = At(p, i)
    BY <1>1, <1>4, <2>1 DEF Padded, resize, At
  <2>3. VectorOK(Append(sizes, rhs.size), q)
    <3>1. Len(sizes) + 1 \in DOMAIN Append(sizes, rhs.size) /\ rhs.size > q.size
      BY <1>1, <1>2, <1>4, <2>2
    <3>2. QED
      BY <1>1, <1>2, <2>2, <3>1 DEF VectorOK
  <2>4. \A i \in DOMAIN q.coefficients : q.coefficients[i] \in Operands
    BY <2>2, OperandsAreIn DEF At, OperandsIn
  <2>5. ASSUME \A i \in DOMAIN sizes : sizes[i] <= rhs.size, NEW i \in Nat
        PROVE  At(q, i) = At(p, i)
    <3>1. length <= rhs.size
      BY <1>1, <1>3, <1>4, <2>5
    <3>2. CASE i \in 0 .. rhs.size - 1
      BY <2>2, <3>2 DEF At
    <3>3. CASE i \notin 0 .. rhs.size - 1
      BY <1>1, <1>3, <2>2, <3>1, <3>3 DEF At
    <3>4. QED
      BY <3>2, <3>3
  <2>6. QED
    BY <1>1, <1>4, <2>1, <2>2, <2>3, <2>4, <2>5
<1>5. CASE ~ (p.size < rhs.size)
  <2>1. Padded(p, rhs) = p
    BY <1>5 DEF Padded
  <2>2. VectorOK(Append(sizes, rhs.size), p)
    BY <1>2, <1>3 DEF VectorOK
  <2>3. QED
    BY <2>1, <2>2
<1>6. QED
  BY <1>4, <1>5

(* A right side before it was appended, among those a cut is told from.      *)
LEMMA AppendAllows ==
    ASSUME NEW sizes \in Seq(Nat), NEW scaled, NEW size \in Nat, NEW new \in Nat,
           SizesAllow(Append(sizes, new), scaled, size)
    PROVE  /\ SizesAllow(sizes, scaled, size)
           /\ new > size => \A i \in DOMAIN sizes : sizes[i] <= new
<1> DEFINE longer == Append(sizes, new)
<1>1. /\ DOMAIN longer = 1 .. Len(sizes) + 1 /\ DOMAIN sizes = 1 .. Len(sizes)
      /\ Len(sizes) \in Nat /\ longer[Len(sizes) + 1] = new
      /\ \A i \in DOMAIN sizes : longer[i] = sizes[i]
  OBVIOUS
<1>2. /\ \A s \in scaled : ~ (s > size)
      /\ \A i, j \in DOMAIN longer : i < j /\ longer[j] > size => longer[i] <= longer[j]
  BY DEF SizesAllow
<1> HIDE DEF longer
<1>3. SizesAllow(sizes, scaled, size)
  <2> SUFFICES ASSUME NEW i \in DOMAIN sizes, NEW j \in DOMAIN sizes, i < j, sizes[j] > size
               PROVE  sizes[i] <= sizes[j]
    BY <1>2 DEF SizesAllow
  <2>1. i \in DOMAIN longer /\ j \in DOMAIN longer
    BY <1>1
  <2>2. QED
    BY <1>1, <1>2, <2>1
<1>4. ASSUME new > size, NEW i \in DOMAIN sizes
      PROVE  sizes[i] <= new
  <2>1. i \in DOMAIN longer /\ Len(sizes) + 1 \in DOMAIN longer /\ i < Len(sizes) + 1
    BY <1>1
  <2>2. QED
    BY <1>1, <1>2, <1>4, <2>1
<1>5. QED
  BY <1>3, <1>4

\* A sum or a difference as a function, which leaves what Zero is added to, or
\* taken from, as it is.
IsOperation(g) ==
    g \in [Operands -> [Operands -> Operands]] /\ \A x \in Operands : g[x][Zero] = x

\* What the loop over the right side makes of the padded left side, and what
\* the operation makes of the sum it stands for.
CombinedBy(g, padded, rhs, q) ==
    /\ q.size = padded.size /\ DOMAIN q.coefficients = DOMAIN padded.coefficients
    /\ \A i \in DOMAIN q.coefficients :
           q.coefficients[i] = IF i < rhs.size
                               THEN g[padded.coefficients[i]][rhs.coefficients[i]]
                               ELSE padded.coefficients[i]
SummedBy(g, sum, rhs, total) ==
    /\ DOMAIN total = DOMAIN sum
    /\ \A i \in DOMAIN sum : total[i] = g[sum[i]][Coefficient(rhs, i)]

LEMMA CombinedIsSummed ==
    ASSUME OperandsFit, NEW p, Covers(p), NEW rhs \in Polynomials,
           NEW sizes \in Seq(Nat), NEW scaled, NEW sum, SumOK(sum), Summed(sizes, scaled, p, sum),
           NEW g, IsOperation(g), NEW q, CombinedBy(g, Padded(p, rhs), rhs, q),
           NEW total, SummedBy(g, sum, rhs, total)
    PROVE  SumOK(total) /\ Summed(Append(sizes, rhs.size), scaled, q, total)
<1> DEFINE longer == Append(sizes, rhs.size)
<1>1. PICK padded : padded = Padded(p, rhs)
  OBVIOUS
<1>c. CombinedBy(g, padded, rhs, q)
  BY <1>1
<1>2. /\ rhs.size \in Nat /\ p.size \in Nat
      /\ DOMAIN rhs.coefficients = 0 .. rhs.size - 1
      /\ 0 .. rhs.size - 1 \subseteq DOMAIN padded.coefficients
      /\ Covers(padded)
  BY <1>1, PaddedCovers, PolynomialsAssumption DEF Covers
<1>3. /\ VectorOK(longer, padded) /\ padded.size = p.size
      /\ \A i \in DOMAIN padded.coefficients : padded.coefficients[i] \in Operands
      /\ (rhs.size > p.size => \A i \in DOMAIN sizes : sizes[i] <= rhs.size)
         => \A i \in Nat : At(padded, i) = At(p, i)
  BY <1>1, PaddedIsSame DEF Summed
<1>4. OperandsIn(Operands) /\ Zero \in Operands
  BY OperandsAreIn DEF OperandsIn
<1>a. \A i \in DOMAIN rhs.coefficients : rhs.coefficients[i] \in Operands
  BY <1>4 DEF OperandsIn
<1>b. \A i \in Nat : i < rhs.size => i \in DOMAIN rhs.coefficients /\ i \in DOMAIN padded.coefficients
  <2> SUFFICES ASSUME NEW i \in Nat, i < rhs.size
               PROVE  i \in DOMAIN rhs.coefficients /\ i \in DOMAIN padded.coefficients
    OBVIOUS
  <2>1. i \in 0 .. rhs.size - 1
    BY <1>2
  <2>2. QED
    BY <1>2, <2>1
<1>5. \A i \in Nat : Coefficient(rhs, i) \in Operands
  BY <1>4, <1>a, <1>b DEF Coefficient
<1>6. SumOK(total)
  BY <1>5 DEF SumOK, SummedBy, IsOperation
<1>7. VectorOK(longer, q)
  BY <1>3, <1>c DEF VectorOK, CombinedBy
<1>8. \A i \in DOMAIN q.coefficients : q.coefficients[i] \in Operands
  <2> SUFFICES ASSUME NEW i \in DOMAIN q.coefficients
               PROVE  q.coefficients[i] \in Operands
    OBVIOUS
  <2>1. padded.coefficients[i] \in Operands /\ i \in Nat
    BY <1>2, <1>3, <1>c DEF Covers, CombinedBy
  <2>2. i < rhs.size => rhs.coefficients[i] \in Operands
    BY <1>a, <1>b, <2>1
  <2>3. QED
    BY <1>c, <2>1, <2>2 DEF CombinedBy, IsOperation
<1>9. ASSUME SizesAllow(longer, scaled, q.size), NEW i \in DOMAIN total
      PROVE  total[i] = At(q, i)
  <2>1. /\ SizesAllow(sizes, scaled, p.size)
        /\ rhs.size > p.size => \A j \in DOMAIN sizes : sizes[j] <= rhs.size
    BY <1>2, <1>3, <1>9, <1>c, AppendAllows DEF CombinedBy
  <2>2. i \in Nat /\ sum[i] = At(p, i) /\ sum[i] \in Operands
    BY <1>9, <2>1 DEF Summed, SumOK, SummedBy
  <2>3. sum[i] = At(padded, i)
    BY <1>3, <2>1, <2>2
  <2>4. CASE i < rhs.size
    <3>1. i \in DOMAIN padded.coefficients
      BY <1>b, <2>2, <2>4
    <3>2. sum[i] = padded.coefficients[i] /\ Coefficient(rhs, i) = rhs.coefficients[i]
      BY <2>3, <2>4, <3>1 DEF At, Coefficient
    <3>3. QED
      BY <1>9, <1>c, <2>4, <3>1, <3>2 DEF At, CombinedBy, SummedBy
  <2>5. CASE ~ (i < rhs.size)
    <3>1. total[i] = sum[i]
      BY <1>9, <2>2, <2>5 DEF Coefficient, SummedBy, IsOperation
    <3>2. At(q, i) = At(padded, i)
      BY <1>c, <2>5 DEF At, CombinedBy
    <3>3. QED
      BY <2>3, <3>1, <3>2
  <2>6. QED
    BY <2>4, <2>5
<1>10. QED
  BY <1>6, <1>7, <1>8, <1>9 DEF Summed

LEMMA AddIsSummed ==
    ASSUME OperandsFit, NEW p, Covers(p), NEW rhs \in Polynomials,
           NEW sizes \in Seq(Nat), NEW scaled, NEW sum, SumOK(sum), Summed(sizes, scaled, p, sum),
           NEW total, total = [i \in DOMAIN sum |-> field_add(sum[i], Coefficient(rhs, i))]
    PROVE  SumOK(total) /\ Summed(Append(sizes, rhs.size), scaled, add_assign(p, rhs), total)
<1> DEFINE g == [x \in Operands |-> [y \in Operands |-> field_add(x, y)]]
<1>1. OperandsIn(Operands)
  BY OperandsAreIn
<1>2. IsOperation(g)
  BY <1>1 DEF OperandsIn, IsOperation
<1>3. \A x, y \in Operands : field_add(x, y) = g[x][y]
  OBVIOUS
<1> HIDE DEF g
<1>4. PICK q : q = add_assign(p, rhs)
  OBVIOUS
<1>5. PICK padded : padded = Padded(p, rhs)
  OBVIOUS
<1>6. /\ DOMAIN padded = {"size", "coefficients"} /\ padded.size = p.size
      /\ \A i \in DOMAIN padded.coefficients : padded.coefficients[i] \in Operands /\ i \in Nat
  BY <1>5, PaddedIsSame, PaddedCovers DEF Summed, Covers
<1>7. /\ q.size = p.size /\ DOMAIN q.coefficients = DOMAIN padded.coefficients
      /\ \A i \in DOMAIN q.coefficients :
             q.coefficients[i] = IF i < rhs.size
                                 THEN field_add(padded.coefficients[i], rhs.coefficients[i])
                                 ELSE padded.coefficients[i]
  BY <1>4, <1>5, <1>6 DEF add_assign, Combined
<1>8. rhs.size \in Nat /\ DOMAIN rhs.coefficients = 0 .. rhs.size - 1
  BY PolynomialsAssumption
<1>9. \A i \in Nat : i < rhs.size => rhs.coefficients[i] \in Operands
  BY <1>1, <1>8 DEF OperandsIn
<1>10. CombinedBy(g, padded, rhs, q)
  BY <1>3, <1>6, <1>7, <1>9 DEF CombinedBy
<1>11. \A i \in DOMAIN sum : sum[i] \in Operands /\ Coefficient(rhs, i) \in Operands
  BY <1>1, <1>9 DEF SumOK, Coefficient, OperandsIn
<1>12. SummedBy(g, sum, rhs, total)
  BY <1>3, <1>11 DEF SummedBy
<1>13. SumOK(total) /\ Summed(Append(sizes, rhs.size), scaled, q, total)
  BY <1>2, <1>5, <1>10, <1>12, CombinedIsSummed
<1>14. QED
  BY <1>4, <1>13

LEMMA SubIsSummed ==
    ASSUME OperandsFit, NEW p, Covers(p), NEW rhs \in Polynomials,
           NEW sizes \in Seq(Nat), NEW scaled, NEW sum, SumOK(sum), Summed(sizes, scaled, p, sum),
           NEW total, total = [i \in DOMAIN sum |-> field_sub(sum[i], Coefficient(rhs, i))]
    PROVE  SumOK(total) /\ Summed(Append(sizes, rhs.size), scaled, sub_assign(p, rhs), total)
<1> DEFINE g == [x \in Operands |-> [y \in Operands |-> field_sub(x, y)]]
<1>1. OperandsIn(Operands)
  BY OperandsAreIn
<1>2. IsOperation(g)
  BY <1>1 DEF OperandsIn, IsOperation
<1>3. \A x, y \in Operands : field_sub(x, y) = g[x][y]
  OBVIOUS
<1> HIDE DEF g
<1>4. PICK q : q = sub_assign(p, rhs)
  OBVIOUS
<1>5. PICK padded : padded = Padded(p, rhs)
  OBVIOUS
<1>6. /\ DOMAIN padded = {"size", "coefficients"} /\ padded.size = p.size
      /\ \A i \in DOMAIN padded.coefficients : padded.coefficients[i] \in Operands /\ i \in Nat
  BY <1>5, PaddedIsSame, PaddedCovers DEF Summed, Covers
<1>7. /\ q.size = p.size /\ DOMAIN q.coefficients = DOMAIN padded.coefficients
      /\ \A i \in DOMAIN q.coefficients :
             q.coefficients[i] = IF i < rhs.size
                                 THEN field_sub(padded.coefficients[i], rhs.coefficients[i])
                                 ELSE padded.coefficients[i]
  BY <1>4, <1>5, <1>6 DEF sub_assign, Combined
<1>8. rhs.size \in Nat /\ DOMAIN rhs.coefficients = 0 .. rhs.size - 1
  BY PolynomialsAssumption
<1>9. \A i \in Nat : i < rhs.size => rhs.coefficients[i] \in Operands
  BY <1>1, <1>8 DEF OperandsIn
<1>10. CombinedBy(g, padded, rhs, q)
  BY <1>3, <1>6, <1>7, <1>9 DEF CombinedBy
<1>11. \A i \in DOMAIN sum : sum[i] \in Operands /\ Coefficient(rhs, i) \in Operands
  BY <1>1, <1>9 DEF SumOK, Coefficient, OperandsIn
<1>12. SummedBy(g, sum, rhs, total)
  BY <1>3, <1>11 DEF SummedBy
<1>13. SumOK(total) /\ Summed(Append(sizes, rhs.size), scaled, q, total)
  BY <1>2, <1>5, <1>10, <1>12, CombinedIsSummed
<1>14. QED
  BY <1>4, <1>13

(* A product that is allowed finds a vector that has not grown, and reaches  *)
(* all of it.                                                                *)
LEMMA MulIsSummed ==
    ASSUME OperandsFit, NEW p, Covers(p), NEW value \in Scalars,
           NEW sizes \in Seq(Nat), NEW scaled, NEW sum, SumOK(sum), Summed(sizes, scaled, p, sum),
           NEW total, total = [i \in DOMAIN sum |-> field_mul(sum[i], value)]
    PROVE  SumOK(total) /\ Summed(sizes, scaled \cup ToSet(sizes), mul_assign(p, value), total)
<1>1. /\ OperandsIn(Operands) /\ value \in Operands
      /\ \A x \in Operands : field_mul(x, value) \in Operands
      /\ field_mul(Zero, value) = Zero
  BY OperandsAreIn DEF OperandsIn
<1>2. p.size \in Nat /\ DOMAIN p = {"size", "coefficients"}
  BY DEF Covers
<1>3. PICK length \in Nat :
        /\ DOMAIN p.coefficients = 0 .. length - 1
        /\ \/ length = p.size
           \/ length > p.size /\ \E i \in DOMAIN sizes : sizes[i] = length
  BY DEF Summed, VectorOK
<1>4. PICK q : q = mul_assign(p, value)
  OBVIOUS
<1>5. /\ q.size = p.size /\ DOMAIN q.coefficients = DOMAIN p.coefficients
      /\ \A i \in DOMAIN q.coefficients :
             q.coefficients[i] = IF i < p.size THEN field_mul(p.coefficients[i], value)
                                 ELSE p.coefficients[i]
  BY <1>2, <1>4 DEF mul_assign, ScaledBy
<1>6. SumOK(total)
  BY <1>1 DEF SumOK
<1>7. VectorOK(sizes, q)
  BY <1>5 DEF Summed, VectorOK
<1>8. \A i \in DOMAIN q.coefficients : q.coefficients[i] \in Operands
  BY <1>1, <1>5 DEF Summed
<1>9. ASSUME SizesAllow(sizes, scaled \cup ToSet(sizes), q.size), NEW i \in DOMAIN total
      PROVE  total[i] = At(q, i)
  <2>1. \A j \in DOMAIN sizes : sizes[j] \in ToSet(sizes)
    BY DEF ToSet
  <2>2. \A j \in DOMAIN sizes : ~ (sizes[j] > p.size)
    BY <1>5, <1>9, <2>1 DEF SizesAllow
  <2>3. length = p.size
    BY <1>3, <2>2
  <2>4. SizesAllow(sizes, scaled, p.size)
    BY <1>5, <1>9 DEF SizesAllow
  <2>5. sum[i] = At(p, i)
    BY <2>4 DEF Summed
  <2>6. \A j \in DOMAIN q.coefficients : q.coefficients[j] = field_mul(p.coefficients[j], value)
    BY <1>2, <1>3, <1>5, <2>3
  <2>7. QED
    BY <1>1, <1>5, <2>5, <2>6 DEF At
<1>10. QED
  BY <1>4, <1>6, <1>7, <1>8, <1>9 DEF Summed

-----------------------------------------------------------------------------
(* The invariant.                                                            *)

LEMMA InitSumInv == ASSUME OperandsFit, Init PROVE SumInv
<1>1. phase = "idle" /\ expected = Array(LongestPolynomial)
  BY DEF Init
<1>2. LongestPolynomial \in Nat
  BY PolynomialsAssumption DEF LongestPolynomial
<1>3. DOMAIN expected \subseteq Nat /\ \A i \in DOMAIN expected : expected[i] = Zero
  BY <1>1, <1>2 DEF Array
<1>4. QED
  BY <1>1, <1>3, OperandsAreIn DEF SumInv, SumOK, OperandsIn

LEMMA NewIsSummed ==
    ASSUME NEW size \in Nat, OperandsFit, NEW sum, \A i \in DOMAIN sum : sum[i] = Zero
    PROVE  Summed(<<>>, {}, new_polynomial(size), sum)
<1>1. Zero \in Operands
  BY OperandsAreIn DEF OperandsIn
<1>2. PICK p : p = new_polynomial(size)
  OBVIOUS
<1>3. /\ p.size = size /\ DOMAIN p.coefficients = 0 .. size - 1
      /\ \A i \in DOMAIN p.coefficients : p.coefficients[i] = Zero
  BY <1>2 DEF new_polynomial
<1>4. VectorOK(<<>>, p)
  BY <1>3 DEF VectorOK
<1>5. QED
  BY <1>1, <1>2, <1>3, <1>4 DEF Summed, At

LEMMA NextSumInv ==
    ASSUME OperandsFit, TypeOK, SumInv, [Next]_vars
    PROVE  SumInv'
<1>0. Covers(polynomial)
  BY TypeIsCovers
<1>1. ASSUME UNCHANGED <<expected, call, polynomial>>, phase = "operators" <=> phase' = "operators"
      PROVE  SumInv'
  BY <1>1 DEF SumInv, CallOK
<1>2. ASSUME UNCHANGED expected, phase # "operators", phase' # "operators"
      PROVE  SumInv'
  BY <1>2 DEF SumInv
<1>3. ASSUME NEW arguments, NEW panics, NEW fails, NEW result, NEW unfinished,
             Computes(arguments, panics, fails, result, unfinished)
      PROVE  SumInv'
  BY <1>2, <1>3 DEF Computes
<1>4. ASSUME \/ \E op \in Ffts, size \in Sizes : \E input \in Inputs(size), room \in {1, 2} :
                   CallFft(op, size, input, room * size)
             \/ FftRound
             \/ FftPanics
             \/ \E value \in Scalars : FftReturns(value)
      PROVE  SumInv'
  <2>1. UNCHANGED expected /\ phase # "operators" /\ phase' # "operators"
    BY <1>4 DEF CallFft, FftRound, MoreRounds, FftPanics, FftReturns
  <2>2. QED
    BY <1>2, <2>1
<1>5. ASSUME \/ \E size \in Sizes : \E input \in Inputs(size) :
                   \/ \E num_polys \in {1, 2} : CallSerialFft(num_polys, size, input)
                   \/ CallPartialFft(size, input)
                   \/ \E constant \in Scalars, is_coset, overflow_checks \in BOOLEAN :
                         CallPartialFftInPlace(size, input, constant, is_coset, overflow_checks)
                   \/ \E z \in Scalars, n \in 0 .. size + 1 : CallEvaluate(input, z, n)
             \/ \E sizes \in Extensions, extra \in {<<>>, <<One>>, <<Zero, Zero>>} :
                   CallLagrange(sizes[1], sizes[2], extra)
             \/ \E n \in 1 .. 3 : \E points \in [0 .. n - 1 -> Scalars] :
                   \/ CallProduct(points, n)
                   \/ \E values \in [0 .. n - 1 -> InterpolatedValues] :
                         CallInterpolate(points, values, n)
      PROVE  SumInv'
  <2>1. CASE \E size \in Sizes : \E input \in Inputs(size) :
                \E num_polys \in {1, 2} : CallSerialFft(num_polys, size, input)
    BY <1>3, <2>1 DEF CallSerialFft
  <2>2. CASE \E size \in Sizes : \E input \in Inputs(size) : CallPartialFft(size, input)
    BY <1>3, <2>2 DEF CallPartialFft
  <2>3. CASE \E size \in Sizes : \E input \in Inputs(size) :
                \E constant \in Scalars, is_coset, overflow_checks \in BOOLEAN :
                   CallPartialFftInPlace(size, input, constant, is_coset, overflow_checks)
    BY <1>3, <2>3 DEF CallPartialFftInPlace
  <2>4. CASE \E size \in Sizes : \E input \in Inputs(size) :
                \E z \in Scalars, n \in 0 .. size + 1 : CallEvaluate(input, z, n)
    BY <1>3, <2>4 DEF CallEvaluate
  <2>5. CASE \E sizes \in Extensions, extra \in {<<>>, <<One>>, <<Zero, Zero>>} :
                CallLagrange(sizes[1], sizes[2], extra)
    BY <1>3, <2>5 DEF CallLagrange
  <2>6. CASE \E n \in 1 .. 3 : \E points \in [0 .. n - 1 -> Scalars] : CallProduct(points, n)
    BY <1>3, <2>6 DEF CallProduct
  <2>7. CASE \E n \in 1 .. 3 : \E points \in [0 .. n - 1 -> Scalars] :
                \E values \in [0 .. n - 1 -> InterpolatedValues] :
                   CallInterpolate(points, values, n)
    BY <1>3, <2>7 DEF CallInterpolate
  <2> QED
    BY <1>5, <2>1, <2>2, <2>3, <2>4, <2>5, <2>6, <2>7
<1>6. ASSUME NEW p \in Polynomials, CallNew(p.size)
      PROVE  SumInv'
  <2>1. /\ phase = "idle" /\ phase' = "operators" /\ expected' = expected
        /\ call' = [op |-> "polynomial", sizes |-> <<>>, scaled |-> {}]
        /\ polynomial' = new_polynomial(p.size) /\ p.size \in Nat
    BY <1>6, PolynomialsAssumption DEF CallNew
  <2>2. Summed(<<>>, {}, polynomial', expected')
    BY <2>1, NewIsSummed DEF SumInv
  <2>3. CallOK' /\ call'.sizes = <<>> /\ call'.scaled = {}
    BY <2>1 DEF CallOK
  <2>4. QED
    BY <2>1, <2>2, <2>3 DEF SumInv
<1>a. ASSUME phase = "operators"
      PROVE  /\ DOMAIN call = {"op", "sizes", "scaled"} /\ call.sizes \in Seq(Nat)
             /\ SumOK(expected) /\ Summed(call.sizes, call.scaled, polynomial, expected)
  BY <1>a DEF SumInv, CallOK
<1>7. ASSUME NEW rhs \in Polynomials, AddAssign(rhs) \/ SubAssign(rhs)
      PROVE  SumInv'
  <2>1. phase = "operators" /\ phase' = "operators" /\ call' = WithSize(rhs.size)
    BY <1>7 DEF AddAssign, SubAssign, Operates
  <2>2. SumOK(expected') /\ Summed(Append(call.sizes, rhs.size), call.scaled, polynomial', expected')
    <3>1. CASE AddAssign(rhs)
      <4>1. /\ polynomial' = add_assign(polynomial, rhs)
            /\ expected' = [i \in DOMAIN expected |-> field_add(expected[i], Coefficient(rhs, i))]
        BY <3>1 DEF AddAssign, Operates
      <4>2. QED
        BY <1>0, <1>a, <2>1, <4>1, AddIsSummed
    <3>2. CASE SubAssign(rhs)
      <4>1. /\ polynomial' = sub_assign(polynomial, rhs)
            /\ expected' = [i \in DOMAIN expected |-> field_sub(expected[i], Coefficient(rhs, i))]
        BY <3>2 DEF SubAssign, Operates
      <4>2. QED
        BY <1>0, <1>a, <2>1, <4>1, SubIsSummed
    <3>3. QED
      BY <1>7, <3>1, <3>2
  <2>3. /\ DOMAIN call' = {"op", "sizes", "scaled"} /\ call'.scaled = call.scaled
        /\ call'.sizes = Append(call.sizes, rhs.size)
    BY <1>a, <2>1 DEF WithSize
  <2>4. call'.sizes \in Seq(Nat)
    BY <1>a, <2>1, <2>3, PolynomialsAssumption
  <2>5. QED
    BY <2>1, <2>2, <2>3, <2>4 DEF SumInv, CallOK
<1>8. ASSUME NEW value \in Scalars, MulAssign(value)
      PROVE  SumInv'
  <2>1. /\ phase = "operators" /\ phase' = "operators"
        /\ call' = [call EXCEPT !.scaled = @ \cup ToSet(call.sizes)]
        /\ polynomial' = mul_assign(polynomial, value)
        /\ expected' = [i \in DOMAIN expected |-> field_mul(expected[i], value)]
    BY <1>8 DEF MulAssign, Operates
  <2>2. /\ SumOK(expected')
        /\ Summed(call.sizes, call.scaled \cup ToSet(call.sizes), polynomial', expected')
    BY <1>0, <1>a, <2>1, MulIsSummed
  <2>3. /\ DOMAIN call' = {"op", "sizes", "scaled"} /\ call'.sizes = call.sizes
        /\ call'.scaled = call.scaled \cup ToSet(call.sizes)
    BY <1>a, <2>1
  <2>4. QED
    BY <1>a, <2>1, <2>2, <2>3 DEF SumInv, CallOK
<1>9. ASSUME Return
      PROVE  SumInv'
  <2>1. phase' = "idle" /\ expected' = Array(LongestPolynomial)
    BY <1>9 DEF Return
  <2>2. LongestPolynomial \in Nat
    BY PolynomialsAssumption DEF LongestPolynomial
  <2>3. DOMAIN expected' \subseteq Nat /\ \A i \in DOMAIN expected' : expected'[i] = Zero
    BY <2>1, <2>2 DEF Array
  <2>4. QED
    BY <2>1, <2>3, OperandsAreIn DEF SumInv, SumOK, OperandsIn
<1>10. CASE UNCHANGED vars
  BY <1>1, <1>10 DEF vars
<1>11. QED
  BY <1>4, <1>5, <1>6, <1>7, <1>8, <1>9, <1>10 DEF Next

(* Sums, differences and products of polynomials of any sizes are right      *)
(* under the two conditions on the sizes, however many operators are applied *)
(* one after the other: add_assign, sub_assign and mul_assign lose nothing   *)
(* but what a cut or a product past the size loses.                          *)
THEOREM OperatorsAreRight ==
    ASSUME OperandsFit
    PROVE  Spec => []OperatorsAgree
<1>1. Init => SumInv
  BY InitSumInv
<1>2. TypeOK /\ SumInv /\ [Next]_vars => SumInv'
  BY NextSumInv
<1>3. SumInv => OperatorsAgree
  BY AgreeIsSummed
<1>4. QED
  BY <1>1, <1>2, <1>3, PolynomialsKeepTheirSize, PTL DEF Spec

-----------------------------------------------------------------------------
(* Evaluations, products and interpolations.                                 *)

\* The field that the callers' arguments are in.
FieldIn(F) ==
    /\ Field(F)
    /\ Scalars \cup InterpolatedValues \subseteq F
    /\ \A size \in Sizes : \A input \in Inputs(size) : \A i \in DOMAIN input : input[i] \in F
    /\ Sizes \subseteq Nat

FieldFits == \E F : FieldIn(F)

\* The calls that are a step each, and give an array of their own.
Called(op) ==
    \/ /\ op = "fft_inner_serial"
       /\ \E size \in Sizes : \E input \in Inputs(size), num_polys \in {1, 2} :
             CallSerialFft(num_polys, size, input)
    \/ /\ op = "partial_fft_serial"
       /\ \E size \in Sizes : \E input \in Inputs(size) : CallPartialFft(size, input)
    \/ /\ op = "partial_fft"
       /\ \E size \in Sizes : \E input \in Inputs(size), constant \in Scalars,
             is_coset, overflow_checks \in BOOLEAN :
             CallPartialFftInPlace(size, input, constant, is_coset, overflow_checks)
    \/ /\ op = "evaluate"
       /\ \E size \in Sizes : \E input \in Inputs(size), z \in Scalars, n \in 0 .. size + 1 :
             CallEvaluate(input, z, n)
    \/ /\ op = "compute_lagrange_polynomial_fft"
       /\ \E sizes \in Extensions, extra \in {<<>>, <<One>>, <<Zero, Zero>>} :
             CallLagrange(sizes[1], sizes[2], extra)
    \/ /\ op = "compute_linear_polynomial_product"
       /\ \E n \in 1 .. 3 : \E points \in [0 .. n - 1 -> Scalars] : CallProduct(points, n)
    \/ /\ op = "from_interpolations"
       /\ \E n \in 1 .. 3 : \E points \in [0 .. n - 1 -> Scalars] :
             \E values \in [0 .. n - 1 -> InterpolatedValues] : CallInterpolate(points, values, n)

(* A result that is there was there before, or has just been computed.       *)
LEMMA ResultsAreComputed ==
    ASSUME NEW op, op \notin Ffts, [Next]_vars, Finished(op)'
    PROVE  \/ Finished(op) /\ UNCHANGED <<call, target>>
           \/ Called(op)
<1>1. phase' = "done" /\ call'.op = op
  BY DEF Finished
<1>2. CASE UNCHANGED vars
  BY <1>1, <1>2 DEF vars, Finished
<1>3. ASSUME NEW op2 \in Ffts, NEW size \in Sizes, NEW input \in Inputs(size),
             NEW room \in {1, 2}, CallFft(op2, size, input, room * size)
      PROVE  FALSE
  BY <1>1, <1>3 DEF CallFft
<1>4. CASE FftRound
  BY <1>1, <1>4 DEF FftRound, MoreRounds
<1>5. CASE FftPanics
  BY <1>1, <1>5 DEF FftPanics
<1>6. ASSUME NEW value \in Scalars, FftReturns(value)
      PROVE  FALSE
  BY <1>1, <1>6 DEF FftReturns, Ffts
<1>7. ASSUME NEW size \in Sizes, NEW input \in Inputs(size),
             \/ \E num_polys \in {1, 2} : CallSerialFft(num_polys, size, input)
             \/ CallPartialFft(size, input)
             \/ \E constant \in Scalars, is_coset, overflow_checks \in BOOLEAN :
                   CallPartialFftInPlace(size, input, constant, is_coset, overflow_checks)
      PROVE  Called(op)
  <2>1. ASSUME NEW num_polys \in {1, 2}, CallSerialFft(num_polys, size, input)
        PROVE  Called(op)
    <3>1. op = "fft_inner_serial"
      BY <1>1, <2>1 DEF CallSerialFft, Computes
    <3>2. QED
      BY <2>1, <3>1 DEF Called
  <2>2. CASE CallPartialFft(size, input)
    <3>1. op = "partial_fft_serial"
      BY <1>1, <2>2 DEF CallPartialFft, Computes
    <3>2. QED
      BY <2>2, <3>1 DEF Called
  <2>3. ASSUME NEW constant \in Scalars, NEW is_coset \in BOOLEAN, NEW overflow_checks \in BOOLEAN,
               CallPartialFftInPlace(size, input, constant, is_coset, overflow_checks)
        PROVE  Called(op)
    <3>1. op = "partial_fft"
      BY <1>1, <2>3 DEF CallPartialFftInPlace, Computes
    <3>2. QED
      BY <2>3, <3>1 DEF Called
  <2>4. QED
    BY <1>7, <2>1, <2>2, <2>3
<1>8. ASSUME NEW size \in Sizes, NEW input \in Inputs(size), NEW z \in Scalars,
             NEW n \in 0 .. size + 1, CallEvaluate(input, z, n)
      PROVE  op = "evaluate"
  BY <1>1, <1>8 DEF CallEvaluate, Computes
<1>9. ASSUME NEW sizes \in Extensions, NEW extra \in {<<>>, <<One>>, <<Zero, Zero>>},
             CallLagrange(sizes[1], sizes[2], extra)
      PROVE  op = "compute_lagrange_polynomial_fft"
  BY <1>1, <1>9 DEF CallLagrange, Computes
<1>10. ASSUME NEW n \in 1 .. 3, NEW points \in [0 .. n - 1 -> Scalars], CallProduct(points, n)
       PROVE  op = "compute_linear_polynomial_product"
  BY <1>1, <1>10 DEF CallProduct, Computes
<1>11. ASSUME NEW n \in 1 .. 3, NEW points \in [0 .. n - 1 -> Scalars],
              NEW values \in [0 .. n - 1 -> InterpolatedValues],
              CallInterpolate(points, values, n)
       PROVE  op = "from_interpolations"
  BY <1>1, <1>11 DEF CallInterpolate, Computes
<1>12. ASSUME \/ \E p \in Polynomials : CallNew(p.size) \/ AddAssign(p) \/ SubAssign(p)
              \/ \E value \in Scalars : MulAssign(value)
              \/ Return
       PROVE  FALSE
  BY <1>1, <1>12 DEF CallNew, AddAssign, SubAssign, MulAssign, Operates, Return
<1>13. QED
  BY <1>2, <1>3, <1>4, <1>5, <1>6, <1>7, <1>8, <1>9, <1>10, <1>11, <1>12 DEF Next, Called

LEMMA NextEvaluates ==
    ASSUME FieldFits, EvaluateIsTheValue, [Next]_vars
    PROVE  EvaluateIsTheValue'
<1> SUFFICES ASSUME Finished("evaluate")'
             PROVE  target' = field_sum([i \in DOMAIN call'.input \cap 0 .. call'.n - 1 |->
                                  field_mul(call'.input[i], field_pow(call'.z, i))])
  BY DEF EvaluateIsTheValue
<1>1. \/ Finished("evaluate") /\ UNCHANGED <<call, target>>
      \/ Called("evaluate")
  BY ResultsAreComputed DEF Ffts, InPlace
<1>2. CASE Finished("evaluate") /\ UNCHANGED <<call, target>>
  BY <1>2 DEF EvaluateIsTheValue
<1>3. CASE Called("evaluate")
  <2>0. PICK size \in Sizes : \E input \in Inputs(size), z \in Scalars, n \in 0 .. size + 1 :
           CallEvaluate(input, z, n)
    BY <1>3 DEF Called
  <2>1. PICK input \in Inputs(size), z \in Scalars, n \in 0 .. size + 1 :
           CallEvaluate(input, z, n)
    BY <2>0
  <2>2. PICK F : FieldIn(F)
    BY DEF FieldFits
  <2>3. /\ Field(F) /\ z \in F /\ n \in Nat
        /\ \A i \in DOMAIN input : input[i] \in F
    BY <2>2 DEF FieldIn
  <2>4. evaluate(input, z, n) = field_sum([i \in DOMAIN input \cap 0 .. n - 1 |->
                                              field_mul(input[i], field_pow(z, i))])
    BY <2>3, EvaluateIsTheSum
  <2>5. call'.input = input /\ call'.z = z /\ call'.n = n /\ target' = evaluate(input, z, n)
    BY <2>1 DEF CallEvaluate, Computes
  <2>6. QED
    BY <2>4, <2>5
<1>4. QED
  BY <1>1, <1>2, <1>3

(* A polynomial's value does not depend on how its coefficients are shared   *)
(* among the threads: for every number of threads and of coefficients,       *)
(* those left over when it does not divide them included, evaluate gives the *)
(* sum it stands for.                                                        *)
THEOREM EvaluationIsRight ==
    ASSUME FieldFits
    PROVE  Spec => []EvaluateIsTheValue
<1>1. Init => EvaluateIsTheValue
  BY DEF Init, EvaluateIsTheValue, Finished
<1>2. EvaluateIsTheValue /\ [Next]_vars => EvaluateIsTheValue'
  BY NextEvaluates
<1>3. QED
  BY <1>1, <1>2, PTL DEF Spec

(* Products of more than two factors read past the scratch space.            *)
LEMMA ProductsAreShort ==
    ASSUME NEW n \in 1 .. 3, ~ ProductPanics(n)
    PROVE  n \in {1, 2}
<1> SUFFICES ASSUME n = 3 PROVE FALSE
  OBVIOUS
<1>1. 0 \in 0 .. n - 2 /\ 1 \in 0 .. n - 2 - 0 /\ 1 + 1 > n - 1 - 0 - 1
  OBVIOUS
<1>2. QED
  BY <1>1 DEF ProductPanics

LEMMA ValueOfTwo ==
    ASSUME NEW F, Field(F), NEW c, NEW x \in F, c[0] \in F, c[1] \in F
    PROVE  ValueOf(c, 2, x) = field_add(c[0], field_mul(c[1], x))
<1> DEFINE f == [i \in 0 .. 1 |-> field_mul(c[i], field_pow(x, i))]
<1>1. field_pow(x, 0) = One /\ field_pow(x, 0 + 1) = field_mul(x, field_pow(x, 0))
  BY DEF Field
<1>2. field_pow(x, 1) = x
  BY <1>1, MulLaws
<1>3. f[0] = field_mul(c[0], One) /\ f[1] = field_mul(c[1], x)
  BY <1>1, <1>2
<1>4. ValueOf(c, 2, x) = SumOver(f, 0 .. 1)
  BY DEF ValueOf, SumOver
<1> HIDE DEF f
<1>5. f[0] = c[0] /\ f[1] \in F
  BY <1>3, MulLaws
<1>6. SumOver(f, 0 .. 1) = field_add(f[0], f[1])
  BY <1>5, SumOfTwo
<1>7. QED
  BY <1>3, <1>4, <1>5, <1>6

LEMMA ValueOfThree ==
    ASSUME NEW F, Field(F), NEW c, NEW x \in F, c[0] \in F, c[1] \in F, c[2] \in F
    PROVE  ValueOf(c, 3, x) =
           field_add(field_add(c[0], field_mul(c[1], x)), field_mul(c[2], field_mul(x, x)))
<1> DEFINE f == [i \in 0 .. 2 |-> field_mul(c[i], field_pow(x, i))]
<1>1. /\ field_pow(x, 0) = One /\ field_pow(x, 0 + 1) = field_mul(x, field_pow(x, 0))
      /\ field_pow(x, 1 + 1) = field_mul(x, field_pow(x, 1))
  BY DEF Field
<1>2. field_pow(x, 1) = x /\ field_pow(x, 2) = field_mul(x, x)
  BY <1>1, MulLaws
<1>3. /\ f[0] = field_mul(c[0], One) /\ f[1] = field_mul(c[1], x)
      /\ f[2] = field_mul(c[2], field_mul(x, x))
  BY <1>1, <1>2
<1>4. ValueOf(c, 3, x) = SumOver(f, 0 .. 2)
  BY DEF ValueOf, SumOver
<1> HIDE DEF f
<1>5. f[0] = c[0] /\ f[1] \in F /\ f[2] \in F
  <2>1. \A a, b \in F : field_mul(a, b) \in F /\ field_mul(a, One) = a
    BY MulLaws
  <2>2. field_mul(x, x) \in F
    BY <2>1
  <2>3. QED
    BY <1>3, <2>1, <2>2
<1>6. PICK k \in Nat : k = 2
  OBVIOUS
<1>7. SumOver(f, 0 .. k) = field_add(SumOver(f, 0 .. k - 1), f[k])
  <2>1. \A i \in 0 .. k : f[i] \in F
    BY <1>5, <1>6
  <2>2. QED
    BY ONLY k \in Nat, <2>1, SumUpTo, Field(F)
<1>8. SumOver(f, 0 .. 1) = field_add(f[0], f[1]) /\ 2 - 1 = 1
  BY <1>5, SumOfTwo
<1>9. QED
  BY <1>3, <1>4, <1>5, <1>6, <1>7, <1>8

LEMMA SumsOfRoots ==
    ASSUME NEW F, Field(F), NEW roots, roots[0] \in F
    PROVE  /\ compute_sum(roots, 0, 1) = roots[0]
           /\ compute_sum(roots, 1, 1) = Zero
           /\ roots[1] \in F => compute_sum(roots, 0, 2) = field_add(roots[0], roots[1])
<1>1. \A first, end : compute_sum(roots, first, end) = SumOver(roots, first .. end - 1)
  BY DEF compute_sum, SumOver
<1>2. 1 .. 1 - 1 = {} /\ 0 .. 1 - 1 = 0 .. 0 /\ 0 .. 2 - 1 = 0 .. 1
  OBVIOUS
<1>3. QED
  BY <1>1, <1>2, SumOfOne, SumOfTwo

LEMMA ProductOfNone ==
    ASSUME NEW F, Field(F), NEW f
    PROVE  ProductOver(f, {}) = One
<1>1. Monoid(F, Times(F), One) /\ IsFiniteSet({}) /\ \A i \in {} : f[i] \in F
  BY FS_EmptySet DEF Field
<1>2. QED
  BY ONLY <1>1, ProductLaws

LEMMA ProductOfFactors ==
    ASSUME NEW F, Field(F), NEW f, f[0] \in F, f[1] \in F
    PROVE  ProductOver(f, {0}) = f[0] /\ ProductOver(f, {0, 1}) = field_mul(f[0], f[1])
<1> DEFINE S == {0, 1}
<1>1. Monoid(F, Times(F), One) /\ IsFiniteSet(S) /\ \A i \in S : f[i] \in F
  <2>1. IsFiniteSet({0}) /\ IsFiniteSet({0} \cup {1}) /\ {0} \cup {1} = S
    BY FS_Singleton, FS_AddElement
  <2>2. QED
    BY <2>1 DEF Field
<1>2. /\ 0 \in S /\ 1 \in S /\ {0} \in SUBSET S /\ {1} \in SUBSET S
      /\ {0} \cap {1} = {} /\ {0} \cup {1} = {0, 1}
  OBVIOUS
<1> HIDE DEF S
<1>3. /\ ProductOver(f, {}) = One
      /\ \A s \in SUBSET S : ProductOver(f, s) \in F
      /\ \A x \in S : ProductOver(f, {x}) = f[x]
      /\ \A A, B \in SUBSET S : A \cap B = {} =>
            ProductOver(f, A \cup B) = field_mul(ProductOver(f, A), ProductOver(f, B))
  BY ONLY <1>1, ProductLaws
<1>4. ProductOver(f, {0} \cup {1}) = field_mul(ProductOver(f, {0}), ProductOver(f, {1}))
  BY ONLY <1>2, <1>3
<1>5. QED
  BY ONLY <1>2, <1>3, <1>4

(* X - r is what it is.                                                      *)
LEMMA OneFactor ==
    ASSUME NEW F, Field(F), NEW roots, roots[0] \in F, NEW z \in F
    PROVE  ValueOf(compute_linear_polynomial_product(roots, 1), 2, z) = field_sub(z, roots[0])
<1> DEFINE c == compute_linear_polynomial_product(roots, 1)
<1>1. c = [Array(2) EXCEPT ![1] = One, ![0] = negated(roots[0])]
  BY ProductOfOne, SumsOfRoots
<1> HIDE DEF c
<1>2. c[0] = negated(roots[0]) /\ c[1] = One
  BY <1>1 DEF Array
<1>3. c[0] \in F /\ c[1] \in F
  BY <1>2, MulLaws, ZeroLaws
<1>4. ValueOf(c, 2, z) = field_add(c[0], field_mul(c[1], z))
  BY <1>3, ValueOfTwo
<1>5. field_mul(c[1], z) = z
  BY <1>2, MulLaws
<1>6. field_add(c[0], z) = field_add(z, c[0])
  BY <1>3, AddLaws
<1>7. field_sub(z, roots[0]) = field_add(z, negated(roots[0]))
  BY ZeroLaws
<1>8. QED
  BY <1>2, <1>4, <1>5, <1>6, <1>7 DEF c

(* (X - x) X is X X - x X.                                                   *)
LEMMA FactorTimesX ==
    ASSUME NEW F, Field(F), NEW x \in F, NEW z \in F
    PROVE  /\ field_mul(field_sub(z, x), field_sub(z, Zero)) =
              field_add(negated(field_mul(x, z)), field_mul(z, z))
           /\ field_mul(field_sub(z, Zero), field_sub(z, x)) =
              field_add(negated(field_mul(x, z)), field_mul(z, z))
<1> DEFINE nx == negated(x)
           square == field_mul(z, z)
           xz == field_mul(x, z)
<1>1. /\ nx \in F /\ square \in F /\ xz \in F /\ negated(xz) \in F /\ Zero \in F
      /\ field_mul(nx, z) = negated(xz)
  BY AddLaws, MulLaws, ZeroLaws
<1>2. field_sub(z, Zero) = z
  <2>1. field_sub(z, Zero) \in F /\ field_add(field_sub(z, Zero), Zero) = z
    BY <1>1 DEF Field
  <2>2. QED
    BY <2>1, AddLaws
<1>3. field_sub(z, x) = field_add(z, nx) /\ field_add(z, nx) \in F
  BY <1>1, ZeroLaws, AddLaws
<1>4. field_mul(z, field_add(z, nx)) = field_add(square, field_mul(z, nx))
  BY <1>1 DEF Field
<1> HIDE DEF nx, square, xz
<1>5. field_mul(z, nx) = negated(xz)
  <2>1. field_mul(z, nx) = field_mul(nx, z)
    BY <1>1, MulLaws
  <2>2. QED
    BY <1>1, <2>1
<1>6. field_add(square, negated(xz)) = field_add(negated(xz), square)
  BY <1>1, AddLaws
<1>7. field_mul(field_add(z, nx), z) = field_mul(z, field_add(z, nx))
  BY <1>3, MulLaws
<1>8. QED
  BY <1>2, <1>3, <1>4, <1>5, <1>6, <1>7 DEF square, xz

(* X X - (x + y) X, which is what the product of two factors is without its  *)
(* constant term, is the product if one of them is X.                        *)
LEMMA TwoFactors ==
    ASSUME NEW F, Field(F), NEW x \in F, NEW y \in F, x = Zero \/ y = Zero, NEW z \in F, NEW c,
           c[0] = Zero, c[1] = negated(field_add(x, y)), c[2] = One
    PROVE  ValueOf(c, 3, z) = field_mul(field_sub(z, x), field_sub(z, y))
<1> DEFINE s == field_add(x, y)
           square == field_mul(z, z)
           sz == field_mul(s, z)
<1>1. /\ s \in F /\ square \in F /\ sz \in F /\ negated(s) \in F /\ negated(sz) \in F
      /\ Zero \in F /\ One \in F
  BY AddLaws, MulLaws, ZeroLaws
<1>2. ValueOf(c, 3, z) =
      field_add(field_add(Zero, field_mul(negated(s), z)), field_mul(One, square))
  BY <1>1, ValueOfThree
<1>3. field_mul(negated(s), z) = negated(sz)
  BY <1>1, ZeroLaws
<1> HIDE DEF s, square, sz
<1>4. ValueOf(c, 3, z) = field_add(negated(sz), square)
  BY <1>1, <1>2, <1>3, AddLaws, MulLaws
<1>5. CASE y = Zero
  <2>1. s = x
    BY <1>5, AddLaws DEF s
  <2>2. QED
    BY <1>4, <1>5, <2>1, FactorTimesX DEF sz, square
<1>6. CASE x = Zero
  <2>1. s = y
    BY <1>6, AddLaws DEF s
  <2>2. QED
    BY <1>4, <1>6, <2>1, FactorTimesX DEF sz, square
<1>7. QED
  BY <1>5, <1>6

\* One root, or two of which one is zero.
FewRoots(F, n, roots) ==
    /\ n \in {1, 2} /\ roots \in [0 .. n - 1 -> F]
    /\ n = 1 \/ \E i \in 0 .. n - 1 : roots[i] = Zero

LEMMA ProductsMultiply ==
    ASSUME NEW F, Field(F), NEW n, NEW roots, FewRoots(F, n, roots), NEW z \in F
    PROVE  ValueOf(compute_linear_polynomial_product(roots, n), n + 1, z) =
           field_product([i \in 0 .. n - 1 |-> field_sub(z, roots[i])])
<1> DEFINE c == compute_linear_polynomial_product(roots, n)
           f == [i \in 0 .. n - 1 |-> field_sub(z, roots[i])]
<1>0. n \in {1, 2} /\ roots \in [0 .. n - 1 -> F] /\ (n = 1 \/ \E i \in 0 .. n - 1 : roots[i] = Zero)
  BY DEF FewRoots
<1>1. CASE n = 1
  <2>1. roots[0] \in F /\ 0 .. n - 1 = {0} /\ n + 1 = 2
    BY <1>0, <1>1
  <2>2. ValueOf(c, 2, z) = field_sub(z, roots[0])
    BY <1>1, <2>1, OneFactor
  <2> DEFINE g == [i \in {0, 1} |-> field_sub(z, roots[0])]
  <2>3. g[0] = field_sub(z, roots[0]) /\ g[1] = field_sub(z, roots[0]) /\ field_sub(z, roots[0]) \in F
    BY <2>1 DEF Field
  <2>4. field_product(f) = ProductOver(g, {0})
    <3>1. f = [i \in {0} |-> g[i]]
      BY <2>1
    <3>2. QED
      BY <3>1 DEF ProductOver
  <2> HIDE DEF g, f
  <2>5. ProductOver(g, {0}) = g[0]
    BY <2>3, ProductOfFactors
  <2>6. QED
    BY <2>1, <2>2, <2>3, <2>4, <2>5 DEF f
<1>2. CASE n = 2
  <2>1. /\ roots[0] \in F /\ roots[1] \in F /\ DOMAIN roots = {0, 1} /\ 0 .. n - 1 = {0, 1}
        /\ n + 1 = 3 /\ (roots[0] = Zero \/ roots[1] = Zero)
    BY <1>0, <1>2
  <2>2. c = [Array(3) EXCEPT ![2] = One, ![1] = negated(field_add(roots[0], roots[1])),
                             ![0] = field_mul(field_add(Zero, field_mul(roots[0], Zero)), One)]
    BY <1>2, <2>1, ProductOfTwo, SumsOfRoots
  <2>3. field_mul(field_add(Zero, field_mul(roots[0], Zero)), One) = Zero
    <3>1. field_mul(roots[0], Zero) = Zero
      BY <2>1, ZeroLaws
    <3>2. QED
      BY <3>1, AddLaws, MulLaws
  <2>4. /\ c[0] = Zero /\ c[1] = negated(field_add(roots[0], roots[1])) /\ c[2] = One
    BY <2>1, <2>2, <2>3 DEF Array
  <2>5. ValueOf(c, 3, z) = field_mul(field_sub(z, roots[0]), field_sub(z, roots[1]))
    BY <2>1, <2>4, TwoFactors
  <2>6. /\ f[0] = field_sub(z, roots[0]) /\ f[1] = field_sub(z, roots[1])
        /\ f[0] \in F /\ f[1] \in F
    BY <2>1 DEF Field
  <2>7. field_product(f) = ProductOver(f, {0, 1})
    BY <2>1 DEF ProductOver
  <2> HIDE DEF f
  <2>8. ProductOver(f, {0, 1}) = field_mul(f[0], f[1])
    BY <2>6, ProductOfFactors
  <2>9. QED
    BY <2>1, <2>5, <2>6, <2>7, <2>8 DEF f
<1>3. QED
  BY <1>0, <1>1, <1>2

LEMMA NextMultiplies ==
    ASSUME FieldFits, ProductIsOfItsFactors, [Next]_vars
    PROVE  ProductIsOfItsFactors'
<1> SUFFICES ASSUME Finished("compute_linear_polynomial_product")',
                    call'.n = 1 \/ \E i \in 0 .. call'.n - 1 : call'.roots[i] = Zero,
                    NEW z \in Scalars
             PROVE  ValueOf(target', call'.n + 1, z) =
                    field_product([i \in 0 .. call'.n - 1 |-> field_sub(z, call'.roots[i])])
  BY DEF ProductIsOfItsFactors, ValueOf
<1>1. \/ Finished("compute_linear_polynomial_product") /\ UNCHANGED <<call, target>>
      \/ Called("compute_linear_polynomial_product")
  BY ResultsAreComputed DEF Ffts, InPlace
<1>2. CASE Finished("compute_linear_polynomial_product") /\ UNCHANGED <<call, target>>
  BY <1>2 DEF ProductIsOfItsFactors
<1>3. CASE Called("compute_linear_polynomial_product")
  <2>1. PICK n \in 1 .. 3 : \E points \in [0 .. n - 1 -> Scalars] : CallProduct(points, n)
    BY <1>3 DEF Called
  <2>2. PICK points \in [0 .. n - 1 -> Scalars] : CallProduct(points, n)
    BY <2>1
  <2>3. PICK F : FieldIn(F)
    BY DEF FieldFits
  <2>4. /\ call'.n = n /\ call'.roots = points /\ ~ ProductPanics(n)
        /\ target' = compute_linear_polynomial_product(points, n)
    BY <2>2 DEF CallProduct, Computes, Finished
  <2>5. n \in {1, 2} /\ Field(F) /\ points \in [0 .. n - 1 -> F] /\ z \in F
    BY <2>3, <2>4, ProductsAreShort DEF FieldIn
  <2>6. FewRoots(F, n, points)
    BY <2>4, <2>5 DEF FewRoots
  <2>7. ValueOf(compute_linear_polynomial_product(points, n), n + 1, z) =
        field_product([i \in 0 .. n - 1 |-> field_sub(z, points[i])])
    BY ONLY <2>5, <2>6, ProductsMultiply
  <2>8. QED
    BY <2>4, <2>7
<1>4. QED
  BY <1>1, <1>2, <1>3

(* A product of linear factors that does not panic has the value of the      *)
(* product at every point, whatever the field, if there is one factor or one *)
(* of two is X: compute_linear_polynomial_product sums over an empty range   *)
(* where the constant term comes from, which is zero then.                   *)
THEOREM ProductsAreOfTheirFactors ==
    ASSUME FieldFits
    PROVE  Spec => []ProductIsOfItsFactors
<1>1. Init => ProductIsOfItsFactors
  BY DEF Init, ProductIsOfItsFactors, Finished
<1>2. ProductIsOfItsFactors /\ [Next]_vars => ProductIsOfItsFactors'
  BY NextMultiplies
<1>3. QED
  BY <1>1, <1>2, PTL DEF Spec

(* One point: the constant through its value.                                *)
LEMMA OnePointInterpolates ==
    ASSUME NEW F, Field(F), NEW points, points[0] \in F \ {Zero}, NEW values, values[0] \in F
    PROVE  ValueOf(from_interpolations(points, values, 1).coefficients, 1, points[0]) = values[0]
<1> DEFINE p == points[0]
           v == values[0]
           r == roots_and_denominators(points, 1)
           numerator == compute_linear_polynomial_product(points, 1)
           inverse == Inverted(r)
           multiplier == field_mul(v, inverse[1])
           c == from_interpolations(points, values, 1).coefficients
<1>1. p \in F /\ p # Zero /\ v \in F /\ One \in F /\ One # Zero /\ Zero \in F
  BY AddLaws, MulLaws DEF Field
<1>2. negated(p) \in F /\ negated(p) # Zero
  <2>1. negated(p) \in F /\ field_add(negated(p), p) = Zero
    BY <1>1, ZeroLaws
  <2>2. field_add(Zero, p) = p
    BY <1>1, AddLaws
  <2>3. QED
    BY <1>1, <2>1, <2>2
<1>3. DOMAIN r = {0, 1} /\ r[0] = negated(p) /\ r[1] = One
  <2>1. /\ 0 .. 2 * 1 - 1 = {0, 1} /\ 0 < 1 /\ ~ (1 < 1)
        /\ (0 .. 1 - 1) \ {1 - 1} = {}
    OBVIOUS
  <2>2. DOMAIN r = {0, 1} /\ r[0] = negated(p)
    BY <2>1 DEF roots_and_denominators
  <2> DEFINE f == [j \in {} |-> field_sub(points[1 - 1], points[j])]
  <2>3. r[1] = field_product(f)
    BY <2>1 DEF roots_and_denominators
  <2>4. field_product(f) = ProductOver(f, {})
    BY DEF ProductOver
  <2>5. QED
    BY <2>2, <2>3, <2>4, ProductOfNone
<1> HIDE DEF r
<1>4. ~ InterpolationFails(points, 1)
  BY <1>1, <1>2, <1>3 DEF InterpolationFails, Invertible, r
<1>5. inverse[0] = field_inverse(negated(p)) /\ inverse[1] = field_inverse(One)
  <2>1. \A j \in 0 .. 0 : r[j] # Zero
    BY <1>2, <1>3
  <2>2. \A j \in 0 .. 1 : r[j] # Zero
    BY <1>1, <1>2, <1>3
  <2>3. QED
    BY <1>3, <2>1, <2>2 DEF Inverted
<1>6. /\ inverse[0] \in F /\ field_mul(negated(p), inverse[0]) = One
      /\ inverse[1] \in F /\ field_mul(One, inverse[1]) = One
  BY <1>1, <1>2, <1>5 DEF Field
<1>7. inverse[1] = One
  BY <1>6, MulLaws
<1>8. multiplier = v
  BY <1>1, <1>7, MulLaws
<1>9. numerator[0] = negated(p)
  <2>1. numerator = [Array(2) EXCEPT ![1] = One, ![0] = negated(p)]
    BY <1>1, ProductOfOne, SumsOfRoots
  <2>2. QED
    BY <2>1 DEF Array
<1> DEFINE Step(t) == [j \in 0 .. 1 - 1 |->
                          field_mul(inverse[0],
                              IF j = 0 THEN field_mul(field_mul(values[0], inverse[1 + 0]), numerator[0])
                              ELSE field_sub(field_mul(field_mul(values[0], inverse[1 + 0]), numerator[j]),
                                             t[j - 1]))]
           temp == CHOOSE t : t = Step(t)
<1>10. temp[0] = field_mul(inverse[0], field_mul(multiplier, numerator[0]))
  <2> DEFINE only == [j \in 0 .. 0 |-> field_mul(inverse[0], field_mul(multiplier, numerator[0]))]
  <2> HIDE DEF numerator, inverse
  <2>1. 1 + 0 = 1 /\ 1 - 1 = 0 /\ \A j \in 0 .. 0 : j = 0
    OBVIOUS
  <2>2. only = Step(only)
    BY <2>1
  <2>3. \A t : t = Step(t) => t[0] = field_mul(inverse[0], field_mul(multiplier, numerator[0]))
    BY <2>1
  <2> HIDE DEF Step
  <2>4. QED
    BY <2>2, <2>3
<1>11. temp[0] = v
  <2>1. temp[0] = field_mul(inverse[0], field_mul(v, negated(p)))
    BY <1>8, <1>9, <1>10
  <2> DEFINE i == inverse[0]
             np == negated(p)
  <2> HIDE DEF i, np
  <2>2. i \in F /\ np \in F /\ field_mul(np, i) = One
    BY <1>2, <1>6 DEF i, np
  <2>3. field_mul(i, field_mul(v, np)) = field_mul(field_mul(v, np), i)
    <3>1. \A x, y \in F : field_mul(x, y) \in F /\ field_mul(x, y) = field_mul(y, x)
      BY MulLaws
    <3>2. field_mul(v, np) \in F
      BY <1>1, <2>2, <3>1
    <3>3. QED
      BY <2>2, <3>1, <3>2
  <2>4. field_mul(field_mul(v, np), i) = field_mul(v, field_mul(np, i))
    <3>1. \A x, y, z \in F :
             field_mul(x, field_mul(y, z)) = field_mul(field_mul(x, y), z)
      BY MulLaws
    <3>2. QED
      BY <1>1, <2>2, <3>1
  <2>5. field_mul(v, One) = v
    BY <1>1, MulLaws
  <2>6. QED
    BY <2>1, <2>2, <2>3, <2>4, <2>5 DEF i, np
<1>12. c[0] = field_sum([i \in 0 .. 0 |-> temp[0]])
  <2>1. c = compute_efficient_interpolation(values, points, 1)
    BY <1>4 DEF from_interpolations
  <2>2. QED
    BY <2>1 DEF compute_efficient_interpolation, r
<1> HIDE DEF c, temp
<1>13. c[0] = v
  <2> DEFINE f == [i \in 0 .. 0 |-> temp[0]]
  <2>1. f[0] = v /\ field_sum(f) = SumOver(f, 0 .. 0)
    BY <1>11 DEF SumOver
  <2> HIDE DEF f
  <2>2. SumOver(f, 0 .. 0) = v
    BY <1>1, <2>1, SumOfOne
  <2>3. QED
    BY <1>12, <2>1, <2>2 DEF f
<1>14. ValueOf(c, 1, p) = v
  <2> DEFINE f == [i \in 0 .. 0 |-> field_mul(c[i], field_pow(p, i))]
  <2>1. ValueOf(c, 1, p) = SumOver(f, 0 .. 0)
    BY DEF ValueOf, SumOver
  <2>2. f[0] = v
    BY <1>1, <1>13, MulLaws DEF Field
  <2> HIDE DEF f
  <2>3. QED
    BY <1>1, <2>1, <2>2, SumOfOne
<1>15. QED
  BY <1>14 DEF c

LEMMA NextInterpolates ==
    ASSUME FieldFits, InterpolatesOnePoint, [Next]_vars
    PROVE  InterpolatesOnePoint'
<1> SUFFICES ASSUME Finished("from_interpolations")', call'.n = 1, call'.points[0] # Zero
             PROVE  ValueOf(target', 1, call'.points[0]) = call'.values[0]
  BY DEF InterpolatesOnePoint, ValueOf
<1>1. \/ Finished("from_interpolations") /\ UNCHANGED <<call, target>>
      \/ Called("from_interpolations")
  BY ResultsAreComputed DEF Ffts, InPlace
<1>2. CASE Finished("from_interpolations") /\ UNCHANGED <<call, target>>
  BY <1>2 DEF InterpolatesOnePoint
<1>3. CASE Called("from_interpolations")
  <2>1. PICK n \in 1 .. 3 : \E points \in [0 .. n - 1 -> Scalars] :
            \E values \in [0 .. n - 1 -> InterpolatedValues] : CallInterpolate(points, values, n)
    BY <1>3 DEF Called
  <2>2. PICK points \in [0 .. n - 1 -> Scalars] :
            \E values \in [0 .. n - 1 -> InterpolatedValues] : CallInterpolate(points, values, n)
    BY <2>1
  <2>3. PICK values \in [0 .. n - 1 -> InterpolatedValues] : CallInterpolate(points, values, n)
    BY <2>2
  <2>4. PICK F : FieldIn(F)
    BY DEF FieldFits
  <2>5. /\ call'.n = n /\ call'.points = points /\ call'.values = values
        /\ target' = from_interpolations(points, values, n).coefficients
    BY <2>3 DEF CallInterpolate, Computes, Finished
  <2>6. n = 1 /\ Field(F) /\ points[0] \in F \ {Zero} /\ values[0] \in F
    BY <2>4, <2>5 DEF FieldIn
  <2>7. ValueOf(from_interpolations(points, values, 1).coefficients, 1, points[0]) = values[0]
    BY <2>6, OnePointInterpolates
  <2>8. QED
    BY <2>5, <2>6, <2>7
<1>4. QED
  BY <1>1, <1>2, <1>3

(* A single point other than zero is interpolated, whatever the field, by    *)
(* the steps with which compute_efficient_interpolation divides the linear   *)
(* product.                                                                  *)
THEOREM OnePointIsInterpolated ==
    ASSUME FieldFits
    PROVE  Spec => []InterpolatesOnePoint
<1>1. Init => InterpolatesOnePoint
  BY DEF Init, InterpolatesOnePoint, Finished
<1>2. InterpolatesOnePoint /\ [Next]_vars => InterpolatesOnePoint'
  BY NextInterpolates
<1>3. QED
  BY <1>1, <1>2, PTL DEF Spec

-----------------------------------------------------------------------------
(* The evaluations of L_1.                                                   *)

\* The domains of the calls: of powers of two, the target's k times as large,
\* with as many points as its threads have, and a root of its order; the source
\* has an inverse of its size.
DomainsIn(F, size, target_size) ==
    LET k == target_size \div size
    IN  /\ size \in Sizes /\ target_size \in Sizes /\ size \in Nat /\ target_size \in Nat
        /\ k \in Nat \ {0} /\ size * k = target_size
        /\ 2^(get_msb(target_size) - get_msb(size)) = k
        /\ domain_num_threads(target_size) * (target_size \div domain_num_threads(target_size))
           = target_size
        /\ get_root_of_unity(target_size) \in F
        /\ field_pow(get_root_of_unity(target_size), target_size) = One
        /\ field_sum([i \in 1 .. size |-> One]) \in F \ {Zero}

DomainsFit ==
    \E F : /\ Field(F) /\ generator \in F
           /\ \A order : HasRoot(order) => get_root_of_unity(order) \in F
           /\ \A sizes \in Extensions : DomainsIn(F, sizes[1], sizes[2])

\* A point of the coset that the target domain is moved to.
CosetPoint(target_size, i) ==
    field_mul(generator, field_pow(get_root_of_unity(target_size), i))

(* At every k-th point of the coset, X^n is what it is at the generator.     *)
LEMMA PowersOnCoset ==
    ASSUME NEW F, Field(F), generator \in F, NEW size, NEW target_size,
           DomainsIn(F, size, target_size), NEW i \in Nat, i % (target_size \div size) = 0
    PROVE  field_pow(CosetPoint(target_size, i), size) = field_pow(generator, size)
<1> DEFINE k == target_size \div size
           w == get_root_of_unity(target_size)
           c == i \div k
<1>1. /\ size \in Nat /\ target_size \in Nat /\ k \in Nat \ {0} /\ size * k = target_size
      /\ w \in F /\ field_pow(w, target_size) = One
  BY DEF DomainsIn
<1>2. i % k = 0
  OBVIOUS
<1> HIDE DEF k, w
<1>3. c \in Nat /\ i = k * c
  BY ONLY <1>1, <1>2, i \in Nat
<1> HIDE DEF c
<1>4. i * size = target_size * c
  <2>1. i * size = (k * c) * size
    BY <1>3
  <2>2. (k * c) * size = (size * k) * c
    BY ONLY <1>1, <1>3
  <2>3. QED
    BY <1>1, <2>1, <2>2
<1>5. field_pow(field_pow(w, i), size) = One
  <2>1. field_pow(field_pow(w, i), size) = field_pow(w, target_size * c)
    BY <1>1, <1>4, PowerOfPower
  <2>2. field_pow(w, target_size * c) = field_pow(field_pow(w, target_size), c)
    BY <1>1, <1>3, PowerOfPower
  <2>3. field_pow(One, c) = One
    BY <1>3, PowerOfOne
  <2>4. QED
    BY <1>1, <2>1, <2>2, <2>3
<1>6. field_pow(w, i) \in F /\ field_pow(generator, size) \in F
  BY <1>1, PowerLaws
<1>7. field_pow(field_mul(generator, field_pow(w, i)), size)
      = field_mul(field_pow(generator, size), field_pow(field_pow(w, i), size))
  BY <1>1, <1>6, PowerOfProduct
<1>8. field_mul(field_pow(generator, size), One) = field_pow(generator, size)
  BY <1>6, MulLaws
<1>9. QED
  BY <1>5, <1>7, <1>8 DEF CosetPoint, w

(* The value of 1 + X + ... + X^(n-1).                                       *)
LEMMA ValueOfOnes ==
    ASSUME NEW F, Field(F), NEW y \in F, NEW n \in Nat
    PROVE  LET G == ValueOf([x \in 0 .. n - 1 |-> One], n, y)
           IN  G \in F /\ field_mul(field_sub(y, One), G) = field_sub(field_pow(y, n), One)
<1> DEFINE f == [x \in Nat |-> field_pow(y, x)]
<1>1. \A x \in 0 .. n - 1 : field_mul(One, field_pow(y, x)) = f[x]
  <2>1. \A k \in Nat : field_pow(y, k) \in F
    BY PowerLaws
  <2>2. \A a \in F : field_mul(One, a) = a
    BY MulLaws
  <2>3. QED
    BY <2>1, <2>2
<1>2. ValueOf([x \in 0 .. n - 1 |-> One], n, y) = SumOver(f, 0 .. n - 1)
  <2> HIDE DEF f
  <2>1. [i \in 0 .. n - 1 |-> field_mul([x \in 0 .. n - 1 |-> One][i], field_pow(y, i))]
        = [i \in 0 .. n - 1 |-> f[i]]
    BY <1>1
  <2>2. QED
    BY <2>1 DEF ValueOf, SumOver
<1>3. /\ SumOver(f, 0 .. n - 1) \in F
      /\ field_mul(field_sub(y, One), SumOver(f, 0 .. n - 1)) = field_sub(field_pow(y, n), One)
  BY GeometricSum
<1>4. QED
  BY <1>2, <1>3

LEMMA LagrangeAtMultiples ==
    ASSUME NEW F, Field(F), generator \in F,
           \A order : HasRoot(order) => get_root_of_unity(order) \in F,
           NEW size, NEW target_size, DomainsIn(F, size, target_size),
           NEW buffer, NEW length \in Nat, DOMAIN buffer = 0 .. length - 1, target_size <= length,
           ~ LagrangeFails(new_domain(size), buffer, new_domain(target_size)),
           NEW i \in 0 .. target_size - 1, i % (target_size \div size) = 0
    PROVE  compute_lagrange_polynomial_fft(new_domain(size), buffer, new_domain(target_size))[i]
           = field_mul(new_domain(size).domain_inverse,
                       ValueOf([x \in 0 .. size - 1 |-> One], size, CosetPoint(target_size, i)))
<1> DEFINE d1 == new_domain(size)
           d2 == new_domain(target_size)
           y == CosetPoint(target_size, i)
           l == get_msb(target_size) - get_msb(size)
           ones == field_sum([j \in 1 .. size |-> One])
           G == ValueOf([x \in 0 .. size - 1 |-> One], size, y)
           D == field_sub(y, One)
           values == Denominators(d2, buffer)
<1>1. /\ size \in Nat /\ target_size \in Nat
      /\ 2^l = target_size \div size /\ target_size \div size \in Nat \ {0}
      /\ domain_num_threads(target_size) * (target_size \div domain_num_threads(target_size))
         = target_size
      /\ get_root_of_unity(target_size) \in F
      /\ ones \in F \ {Zero}
  BY DEF DomainsIn
<1>2. /\ d2.num_threads * d2.thread_size = target_size
      /\ d2.root = get_root_of_unity(target_size)
      /\ d2.log2_size - d1.log2_size = l
      /\ d1.size = size /\ d1.domain_inverse = field_inverse(ones)
  BY <1>1 DEF new_domain
<1>3. i \in Nat /\ i < target_size /\ 0 .. i \subseteq DOMAIN buffer /\ i \in DOMAIN buffer
  BY <1>1
<1> HIDE DEF d1, d2
<1>4. y \in F /\ G \in F /\ D \in F /\ One \in F
  <2>1. field_pow(get_root_of_unity(target_size), i) \in F
    BY <1>1, <1>3, PowerLaws
  <2>2. y \in F /\ One \in F
    BY <2>1, MulLaws DEF CosetPoint
  <2> HIDE DEF y
  <2>3. G \in F
    BY <1>1, <2>2, ValueOfOnes
  <2>4. QED
    BY <2>2, <2>3 DEF Field
<1>5. Invertible(values) /\ HasRoot(l)
  BY <1>2 DEF LagrangeFails, SubgroupFails, d1, d2
<1>6. values[i] = D /\ DOMAIN values = DOMAIN buffer
  BY <1>2, <1>3 DEF Denominators, CosetPoint
<1>7. \A j \in 0 .. i : values[j] # Zero
  BY <1>3, <1>5, <1>6 DEF Invertible
<1>8. D # Zero
  BY <1>3, <1>6, <1>7
<1>9. Inverted(values)[i] = field_inverse(D)
  BY <1>3, <1>6, <1>7 DEF Inverted
<1> DEFINE power == field_pow(generator, size)
           e == field_inverse(ones)
           u == field_inverse(D)
<1>10. /\ power \in F /\ e \in F /\ u \in F /\ field_mul(D, u) = One
       /\ field_sub(power, One) \in F
  <2>1. power \in F
    BY <1>1, PowerLaws
  <2>2. QED
    BY <1>1, <1>4, <1>8, <2>1 DEF Field
<1>11. compute_multiplicative_subgroup(d1, l)[0] = power
  <2>1. get_root_of_unity(l) \in F
    BY <1>5
  <2>2. field_pow(get_root_of_unity(l), 0) = One
    BY <2>1 DEF Field
  <2>3. field_mul(power, One) = power
    BY <1>10, MulLaws
  <2>4. 0 \in 0 .. 2^l - 1
    <3> HIDE DEF l
    <3>1. QED
      BY <1>1
  <2>5. QED
    BY <1>2, <2>2, <2>3, <2>4 DEF compute_multiplicative_subgroup
<1>12. compute_lagrange_polynomial_fft(d1, buffer, d2)[i]
       = field_mul(u, field_mul(e, field_sub(power, One)))
  <2>1. i % 2^l = 0
    BY <1>1
  <2>2. i < d2.num_threads * d2.thread_size
    BY <1>2, <1>3
  <2> HIDE DEF values, l
  <2>3. compute_lagrange_polynomial_fft(d1, buffer, d2)[i]
        = field_mul(LagrangeUnfinished(buffer, d2)[i],
              field_mul(d1.domain_inverse,
                  field_sub(compute_multiplicative_subgroup(d1, l)[i % 2^l], One)))
    BY <1>2, <1>3, <2>2 DEF compute_lagrange_polynomial_fft
  <2>4. LagrangeUnfinished(buffer, d2)[i] = u
    BY <1>9 DEF LagrangeUnfinished, values
  <2>5. QED
    BY <1>2, <1>11, <2>1, <2>3, <2>4
<1>13. field_mul(D, G) = field_sub(power, One)
  <2>1. field_mul(D, G) = field_sub(field_pow(y, size), One)
    BY <1>1, <1>4, ValueOfOnes
  <2>2. field_pow(y, size) = power
    BY <1>3, PowersOnCoset
  <2>3. QED
    BY <2>1, <2>2
<1> HIDE DEF y, G, D, e, u, power
<1>14. field_mul(u, field_mul(e, field_mul(D, G))) = field_mul(e, G)
  <2>1. \A a, b \in F : field_mul(a, b) \in F /\ field_mul(a, b) = field_mul(b, a)
    BY MulLaws
  <2>2. \A a, b, c \in F : field_mul(a, field_mul(b, c)) = field_mul(field_mul(a, b), c)
    BY MulLaws
  <2>3. field_mul(e, field_mul(D, G)) = field_mul(field_mul(D, G), e)
    BY <1>4, <1>10, <2>1
  <2>4. field_mul(field_mul(D, G), e) = field_mul(D, field_mul(G, e))
    BY <1>4, <1>10, <2>2
  <2>5. field_mul(u, field_mul(D, field_mul(G, e))) = field_mul(field_mul(u, D), field_mul(G, e))
    BY <1>4, <1>10, <2>1, <2>2
  <2>6. field_mul(u, D) = One
    BY <1>4, <1>10, <2>1
  <2>7. field_mul(G, e) \in F /\ field_mul(G, e) = field_mul(e, G)
    BY <1>4, <1>10, <2>1
  <2>8. field_mul(One, field_mul(G, e)) = field_mul(G, e)
    BY <2>7, MulLaws
  <2>9. QED
    BY <2>3, <2>4, <2>5, <2>6, <2>7, <2>8
<1>15. compute_lagrange_polynomial_fft(d1, buffer, d2)[i] = field_mul(e, G)
  BY <1>12, <1>13, <1>14
<1>16. QED
  BY <1>2, <1>15 DEF d1, d2, e, G, y

LEMMA NextLagrange ==
    ASSUME DomainsFit, LagrangeRightAtMultiples, [Next]_vars
    PROVE  LagrangeRightAtMultiples'
<1> SUFFICES ASSUME Finished("compute_lagrange_polynomial_fft")',
                    NEW i \in 0 .. call'.target_size - 1,
                    i % (call'.target_size \div call'.size) = 0
             PROVE  target'[i] = field_mul(Domain[call'.size].domain_inverse,
                        ValueOf([x \in 0 .. call'.size - 1 |-> One], call'.size,
                                field_mul(generator,
                                          field_pow(Domain[call'.target_size].root, i))))
  BY DEF LagrangeRightAtMultiples, L_1, ValueOf, d, Domain
<1>1. \/ Finished("compute_lagrange_polynomial_fft") /\ UNCHANGED <<call, target>>
      \/ Called("compute_lagrange_polynomial_fft")
  BY ResultsAreComputed DEF Ffts, InPlace
<1>2. CASE Finished("compute_lagrange_polynomial_fft") /\ UNCHANGED <<call, target>>
  BY <1>2 DEF LagrangeRightAtMultiples, L_1, d
<1>3. CASE Called("compute_lagrange_polynomial_fft")
  <2>1. PICK sizes \in Extensions, extra \in {<<>>, <<One>>, <<Zero, Zero>>} :
           CallLagrange(sizes[1], sizes[2], extra)
    BY <1>3 DEF Called
  <2> DEFINE size == sizes[1]
             target_size == sizes[2]
             buffer == [j \in 0 .. target_size + Len(extra) - 1 |->
                           IF j < target_size THEN Zero ELSE extra[j - target_size + 1]]
             length == target_size + Len(extra)
  <2>2. PICK F : /\ Field(F) /\ generator \in F
                 /\ \A order : HasRoot(order) => get_root_of_unity(order) \in F
                 /\ \A pair \in Extensions : DomainsIn(F, pair[1], pair[2])
    BY DEF DomainsFit
  <2>3. DomainsIn(F, size, target_size)
    BY <2>1, <2>2
  <2>4. /\ Domain[size] = new_domain(size) /\ Domain[target_size] = new_domain(target_size)
        /\ target_size \in Nat
    BY <2>3 DEF DomainsIn, Domain
  <2>5. length \in Nat /\ DOMAIN buffer = 0 .. length - 1 /\ target_size <= length
    <3>1. Len(extra) \in Nat
      BY <2>1
    <3>2. QED
      BY <2>4, <3>1
  <2>6. /\ call'.size = size /\ call'.target_size = target_size
        /\ ~ LagrangeFails(Domain[size], buffer, Domain[target_size])
        /\ target' = compute_lagrange_polynomial_fft(Domain[size], buffer, Domain[target_size])
    BY <2>1 DEF CallLagrange, Computes, Finished
  <2> HIDE DEF size, target_size, buffer, length
  <2>7. i \in 0 .. target_size - 1 /\ i % (target_size \div size) = 0
    BY <2>6
  <2>8. ~ LagrangeFails(new_domain(size), buffer, new_domain(target_size))
    BY <2>4, <2>6
  <2>9. compute_lagrange_polynomial_fft(new_domain(size), buffer, new_domain(target_size))[i]
        = field_mul(new_domain(size).domain_inverse,
                    ValueOf([x \in 0 .. size - 1 |-> One], size, CosetPoint(target_size, i)))
    BY <2>2, <2>3, <2>5, <2>7, <2>8, LagrangeAtMultiples
  <2>10. new_domain(target_size).root = get_root_of_unity(target_size)
    BY DEF new_domain
  <2>11. QED
    BY <2>4, <2>6, <2>9, <2>10 DEF CosetPoint
<1>4. QED
  BY <1>1, <1>2, <1>3

(* A call of compute_lagrange_polynomial_fft that does not fail is right at  *)
(* every k-th point of the target domain, for all sizes of the domains: the  *)
(* powers of the subgroup's root, which is of the wrong order, are one       *)
(* there, and the denominators were all inverted.                            *)
THEOREM LagrangeIsRightThere ==
    ASSUME DomainsFit
    PROVE  Spec => []LagrangeRightAtMultiples
<1>1. Init => LagrangeRightAtMultiples
  BY DEF Init, LagrangeRightAtMultiples, Finished
<1>2. LagrangeRightAtMultiples /\ [Next]_vars => LagrangeRightAtMultiples'
  BY NextLagrange
<1>3. QED
  BY <1>1, <1>2, PTL DEF Spec

-----------------------------------------------------------------------------
(* The partial FFT.                                                          *)

\* The power of the root that the coefficient at k = i + j n is multiplied by in
\* part 3 - s, in a coset's case (back = 1) as many steps back as 4 i.
PartIndex(k, i, s, back) == k * (s + 1) - back * (4 * i)
\* The power at which the part's transform is the value of the whole.
PointIndex(n, t, s, back) == 4 * t + s + 1 + back * (4 * n - 4)

(* Whole turns make no difference.                                           *)
LEMMA WholeTurns ==
    ASSUME NEW n \in Nat \ {0}, NEW q \in Int, NEW b \in Int
    PROVE  ((4 * n) * q + b) % (4 * n) = b % (4 * n)
<1>1. PICK N \in Nat \ {0} : N = 4 * n
  OBVIOUS
<1> DEFINE r == b \div N
           c == b % N
<1>2. r \in Int /\ c \in 0 .. N - 1 /\ b = N * r + c
  OBVIOUS
<1> HIDE DEF r, c
<1>3. N * (q + r) = N * q + N * r
  BY <1>1, <1>2
<1>4. DividesTo(N * q + b, N, q + r, c)
  BY <1>1, <1>2, <1>3 DEF DividesTo
<1>5. (N * q + b) % N = c
  BY ONLY <1>4, RemaindersAre
<1> QED
  BY <1>1, <1>5 DEF c

\* What those indices are taken at.
IndexedBy(n, t, s, i, j, back, k) ==
    /\ n \in Nat \ {0} /\ t \in Nat /\ s \in 0 .. 3 /\ i \in Nat /\ j \in 0 .. 3
    /\ back \in {0, 1} /\ k = i + j * n

(* Whole turns apart, the two are the same.                                  *)
LEMMA IndicesTurn ==
    ASSUME NEW n, NEW t, NEW s, NEW i, NEW j, NEW back, NEW k, IndexedBy(n, t, s, i, j, back, k)
    PROVE  /\ PartIndex(k, i, s, back) \in Int /\ (4 * t) * i \in Int
           /\ PointIndex(n, t, s, back) \in Int
           /\ (PointIndex(n, t, s, back) * k) % (4 * n)
              = (PartIndex(k, i, s, back) + (4 * t) * i) % (4 * n)
<1>0. /\ n \in Nat \ {0} /\ t \in Nat /\ s \in 0 .. 3 /\ i \in Nat /\ j \in 0 .. 3
      /\ back \in {0, 1} /\ k = i + j * n
  BY DEF IndexedBy
<1>1. k \in Nat /\ PartIndex(k, i, s, back) \in Int /\ PointIndex(n, t, s, back) \in Int
  BY <1>0 DEF PartIndex, PointIndex
<1>2. PICK ti, tj, tjn, ks, jn \in Nat :
         ti = t * i /\ tj = t * j /\ jn = j * n /\ tjn = tj * n /\ ks = k * (s + 1)
  BY <1>0, <1>1
<1>3. (4 * t) * i = 4 * ti /\ (4 * t) * k = 4 * ti + 4 * tjn
  <2>1. t * k = ti + t * jn /\ t * jn = tjn
    BY <1>0, <1>2
  <2> QED
    BY <1>0, <1>1, <1>2, <2>1
<1>4. (4 * n) * tj = 4 * tjn
  BY <1>0, <1>2
<1>5. CASE back = 0
  <2>1. PointIndex(n, t, s, back) * k = 4 * ti + 4 * tjn + ks
    <3>1. PointIndex(n, t, s, back) = 4 * t + (s + 1)
      BY <1>0, <1>5 DEF PointIndex
    <3>2. (4 * t + (s + 1)) * k = (4 * t) * k + (s + 1) * k
      BY <1>0, <1>1
    <3> QED
      BY <1>0, <1>1, <1>2, <1>3, <3>1, <3>2
  <2>2. PartIndex(k, i, s, back) = ks
    BY <1>0, <1>2, <1>5 DEF PartIndex
  <2> DEFINE a == PointIndex(n, t, s, back) * k
             b == PartIndex(k, i, s, back) + (4 * t) * i
  <2>3. a = (4 * n) * tj + b /\ b \in Int
    BY <1>0, <1>2, <1>3, <1>4, <2>1, <2>2
  <2> HIDE DEF a, b
  <2>4. a % (4 * n) = b % (4 * n)
    <3>0. n \in Nat \ {0} /\ tj \in Int /\ b \in Int
      BY <1>0, <1>2, <2>3
    <3>1. ((4 * n) * tj + b) % (4 * n) = b % (4 * n)
      BY ONLY <3>0, WholeTurns
    <3> QED
      BY ONLY <2>3, <3>1
  <2> QED
    BY <1>0, <1>1, <1>2, <1>3, <2>4 DEF a, b
<1>6. CASE back = 1
  <2>1. PICK u \in Int : u = tj + k - j
    BY <1>0, <1>1, <1>2
  <2>2. (4 * n) * u = 4 * tjn + (4 * n) * k - 4 * jn
    BY <1>0, <1>1, <1>2, <1>4, <2>1
  <2>3. PointIndex(n, t, s, back) * k = 4 * ti + 4 * tjn + ks + (4 * n) * k - 4 * k
    <3>1. PointIndex(n, t, s, back) = 4 * t + (s + 1) + 4 * n - 4
      BY <1>0, <1>6 DEF PointIndex
    <3>2. (4 * t + (s + 1) + 4 * n - 4) * k = (4 * t) * k + (s + 1) * k + (4 * n) * k - 4 * k
      BY <1>0, <1>1
    <3> QED
      BY <1>0, <1>1, <1>2, <1>3, <3>1, <3>2
  <2>4. PartIndex(k, i, s, back) = ks - 4 * i
    BY <1>0, <1>2, <1>6 DEF PartIndex
  <2> DEFINE a == PointIndex(n, t, s, back) * k
             b == PartIndex(k, i, s, back) + (4 * t) * i
  <2>5. a = (4 * n) * u + b /\ b \in Int
    BY <1>0, <1>1, <1>2, <1>3, <2>1, <2>2, <2>3, <2>4
  <2> HIDE DEF a, b
  <2>6. a % (4 * n) = b % (4 * n)
    <3>1. ((4 * n) * u + b) % (4 * n) = b % (4 * n)
      BY <1>0, <2>1, <2>5, WholeTurns
    <3> QED
      BY ONLY <2>5, <3>1
  <2> QED
    BY <1>0, <1>1, <1>2, <1>3, <2>6 DEF a, b
<1> QED
  BY <1>0, <1>5, <1>6

\* p is the part 3 - s of the coefficients c, scaled by a.
PartIs(F, w, n, c, p, a, s, back) ==
    /\ Turns(F, w, n) /\ a \in F /\ s \in 0 .. 3 /\ back \in {0, 1}
    /\ \A k \in 0 .. 4 * n - 1 : c[k] \in F
    /\ \A i \in 0 .. n - 1 :
          p[i] = field_mul(a, field_sum([j \in 0 .. 3 |->
                     field_mul(c[i + j * n],
                               field_pow(w, PartIndex(i + j * n, i, s, back) % (4 * n)))]))

(* The transform of a part is the value of the whole.                        *)
LEMMA PartTransforms ==
    ASSUME NEW F, NEW w, NEW n, NEW c, NEW p, NEW a, NEW s, NEW back,
           PartIs(F, w, n, c, p, a, s, back), NEW t \in 0 .. n - 1
    PROVE  ValueOf(p, n, field_pow(w, 4 * t))
           = field_mul(a, ValueOf(c, 4 * n, field_pow(w, PointIndex(n, t, s, back) % (4 * n))))
<1> DEFINE T(k) == field_pow(w, k % (4 * n))
           x == PointIndex(n, t, s, back)
           f == [k \in Nat |-> field_mul(c[k], T(x * k))]
           g == [i \in Nat |-> field_sum([j \in 0 .. 3 |-> f[i + j * n]])]
           h == [i \in Nat |-> field_mul(p[i], T((4 * t) * i))]
           e(i) == [j \in 0 .. 3 |-> field_mul(c[i + j * n], T(PartIndex(i + j * n, i, s, back)))]
<1>0. /\ Turns(F, w, n) /\ a \in F /\ s \in 0 .. 3 /\ back \in {0, 1}
      /\ \A k \in 0 .. 4 * n - 1 : c[k] \in F
  BY DEF PartIs
<1>1. \A i \in 0 .. n - 1 : p[i] = field_mul(a, field_sum(e(i)))
  BY DEF PartIs
<1>2. Field(F) /\ n \in Nat \ {0} /\ w \in F
  BY <1>0 DEF Turns
<1>3. t \in Nat /\ x \in Int /\ x = PointIndex(n, t, s, back)
  BY <1>0, <1>2 DEF PointIndex
<1> HIDE DEF x
<1>4. /\ \A k \in Int : T(k) \in F
      /\ \A k, l \in Int : field_mul(T(k), T(l)) = T(k + l)
  <2>1. \A k \in Int : field_pow(w, k % (4 * n)) \in F
    BY <1>0, TurnLaws DEF HalfTurned
  <2>2. \A k, l \in Int : field_mul(field_pow(w, k % (4 * n)), field_pow(w, l % (4 * n)))
                          = field_pow(w, (k + l) % (4 * n))
    BY <1>0, TurnLaws
  <2> QED
    BY ONLY <2>1, <2>2
<1>5. \A k \in Nat : field_pow(T(x), k) = T(x * k) /\ field_pow(T(4 * t), k) = T((4 * t) * k)
  BY <1>0, <1>3, TurnPowers
<1>6. field_pow(w, 4 * t) = T(4 * t)
  <2>1. DividesTo(4 * t, 4 * n, 0, 4 * t)
    BY <1>2, <1>3 DEF DividesTo
  <2> QED
    BY <2>1, RemaindersAre
<1>a. \A y, z \in F : field_mul(y, z) \in F
  BY <1>2, MulLaws
<1>b. \A y, z \in F : field_mul(y, z) = field_mul(z, y)
  BY <1>2, MulLaws
<1>c. \A u, y, z \in F : field_mul(u, field_mul(y, z)) = field_mul(field_mul(u, y), z)
  BY <1>2, MulLaws
<1> HIDE DEF T
<1>7. \A i \in 0 .. n - 1, j \in 0 .. 3 : i \in Nat /\ i + j * n \in 0 .. 4 * n - 1 /\ i + j * n \in Nat
  <2> SUFFICES ASSUME NEW i \in 0 .. n - 1, NEW j \in 0 .. 3
               PROVE  i \in Nat /\ i + j * n \in 0 .. 4 * n - 1 /\ i + j * n \in Nat
    OBVIOUS
  <2>1. j = 0 \/ j = 1 \/ j = 2 \/ j = 3
    OBVIOUS
  <2> QED
    BY <1>2, <2>1
<1>8. \A k \in 0 .. 4 * n - 1 : f[k] = field_mul(c[k], T(x * k)) /\ f[k] \in F
  <2> SUFFICES ASSUME NEW k \in 0 .. 4 * n - 1
               PROVE  f[k] = field_mul(c[k], T(x * k)) /\ f[k] \in F
    OBVIOUS
  <2>1. k \in Nat /\ x * k \in Int /\ c[k] \in F
    BY <1>0, <1>3
  <2> QED
    BY <1>4, <1>a, <2>1
<1>9. ValueOf(c, 4 * n, T(x)) = SumOver(f, 0 .. 4 * n - 1)
  <2>1. \A k \in 0 .. 4 * n - 1 : field_mul(c[k], field_pow(T(x), k)) = f[k]
    BY <1>5, <1>8
  <2> HIDE DEF f
  <2>2. [k \in 0 .. 4 * n - 1 |-> field_mul(c[k], field_pow(T(x), k))] = [k \in 0 .. 4 * n - 1 |-> f[k]]
    BY <2>1
  <2> QED
    BY <2>2 DEF ValueOf, SumOver
<1>10. ValueOf(p, n, T(4 * t)) = SumOver(h, 0 .. n - 1)
  <2>1. \A i \in 0 .. n - 1 : field_mul(p[i], field_pow(T(4 * t), i)) = h[i]
    BY <1>5
  <2> HIDE DEF h
  <2>2. [i \in 0 .. n - 1 |-> field_mul(p[i], field_pow(T(4 * t), i))] = [i \in 0 .. n - 1 |-> h[i]]
    BY <2>1
  <2> QED
    BY <2>2 DEF ValueOf, SumOver
<1>11. Terms(F, g, 0 .. n - 1) /\ SumOver(g, 0 .. n - 1) = SumOver(f, 0 .. 4 * n - 1)
  <2>1. IsFiniteSet(0 .. 4 * n - 1)
    BY <1>2, FS_Interval
  <2>2. Terms(F, f, 0 .. 4 * n - 1)
    BY <1>8, <2>1 DEF Terms
  <2>3. n \in Nat /\ SumsQuarters(f, g, n)
    BY <1>2 DEF SumsQuarters
  <2> HIDE DEF f, g
  <2> QED
    BY ONLY <1>2, <2>2, <2>3, SumInQuarters
<1>12. ASSUME NEW i \in 0 .. n - 1
       PROVE  h[i] = field_mul(a, g[i])
  <2> DEFINE r == T((4 * t) * i)
             ds == e(i)
             b == [j \in 0 .. 3 |-> f[i + j * n]]
  <2>1. i \in Nat /\ (4 * t) * i \in Int
    BY <1>3
  <2>2. r \in F
    BY <1>4, <2>1
  <2>3. \A j \in 0 .. 3 : /\ ds[j] = field_mul(c[i + j * n], T(PartIndex(i + j * n, i, s, back)))
                          /\ b[j] = f[i + j * n]
    OBVIOUS
  <2>4. /\ h[i] = field_mul(p[i], r) /\ p[i] = field_mul(a, field_sum(ds)) /\ g[i] = field_sum(b)
        /\ ds = [j \in 0 .. 3 |-> ds[j]] /\ b = [j \in 0 .. 3 |-> b[j]]
    BY <1>1, <2>1
  <2> HIDE DEF ds, b, h, g
  <2>5. ASSUME NEW j \in 0 .. 3
        PROVE  ds[j] \in F /\ b[j] = field_mul(r, ds[j])
    <3>1. PICK k \in 0 .. 4 * n - 1 : k = i + j * n
      BY <1>7
    <3>2. /\ PartIndex(k, i, s, back) \in Int /\ (4 * t) * i \in Int
          /\ (x * k) % (4 * n) = (PartIndex(k, i, s, back) + (4 * t) * i) % (4 * n)
      <4>1. IndexedBy(n, t, s, i, j, back, k)
        BY <1>0, <1>2, <1>3, <2>1, <3>1 DEF IndexedBy
      <4>2. /\ PartIndex(k, i, s, back) \in Int /\ (4 * t) * i \in Int
            /\ (PointIndex(n, t, s, back) * k) % (4 * n)
               = (PartIndex(k, i, s, back) + (4 * t) * i) % (4 * n)
        BY ONLY <4>1, IndicesTurn
      <4> QED
        BY ONLY <1>3, <4>2
    <3> DEFINE u == PartIndex(k, i, s, back)
    <3>3. T(x * k) = T(u + (4 * t) * i)
      BY <3>2 DEF T
    <3>4. T(u) \in F /\ c[k] \in F /\ field_mul(T(u), r) = T(u + (4 * t) * i)
      BY <1>0, <1>4, <3>2
    <3>5. b[j] = field_mul(c[k], T(x * k))
      BY <1>8, <2>3, <3>1
    <3>6. ds[j] = field_mul(c[k], T(u))
      BY <2>3, <3>1
    <3> HIDE DEF u, r
    <3>7. field_mul(c[k], field_mul(T(u), r)) = field_mul(field_mul(c[k], T(u)), r)
      BY <1>c, <2>2, <3>4
    <3>8. ds[j] \in F
      BY <1>a, <3>4, <3>6
    <3>9. field_mul(ds[j], r) = field_mul(r, ds[j])
      BY <1>b, <2>2, <3>8
    <3> QED
      BY <3>3, <3>4, <3>5, <3>6, <3>7, <3>8, <3>9
  <2>6. Terms(F, ds, 0 .. 3)
    BY <2>5, FourTerms
  <2> HIDE DEF r
  <2>7. SumOver(b, 0 .. 3) = field_mul(r, SumOver(ds, 0 .. 3))
    <3>1. \A j \in 0 .. 3 : b[j] = field_mul(r, ds[j])
      BY <2>5
    <3> QED
      BY ONLY <1>2, <2>2, <2>6, <3>1, SumScaled
  <2>8. field_sum(ds) \in F /\ field_sum(ds) = SumOver(ds, 0 .. 3) /\ field_sum(b) = SumOver(b, 0 .. 3)
    BY <1>2, <2>4, <2>6, SumOfFour DEF SumOver
  <2>9. field_mul(field_mul(a, field_sum(ds)), r) = field_mul(a, field_mul(field_sum(ds), r))
    BY <1>0, <1>c, <2>2, <2>8
  <2>10. field_mul(field_sum(ds), r) = field_mul(r, field_sum(ds))
    BY <1>b, <2>2, <2>8
  <2> QED
    BY <2>4, <2>7, <2>8, <2>9, <2>10
<1> HIDE DEF f, g, h
<1>13. SumOver(h, 0 .. n - 1) = field_mul(a, SumOver(g, 0 .. n - 1))
  BY ONLY <1>0, <1>2, <1>11, <1>12, SumScaled
<1> QED
  BY <1>3, <1>6, <1>9, <1>10, <1>11, <1>13 DEF T

\* What partial_fft is called with: a root that turns once around in 4 n steps,
\* and its powers through half a turn in the row of the table for that round.
PartialCall(F, dom, n, c, row) ==
    /\ dom.size = 4 * n /\ Turns(F, dom.root, n)
    /\ \A k \in 0 .. 2 * n - 1 : row[k] = field_pow(dom.root, k)
    /\ \A k \in 0 .. 4 * n - 1 : c[k] \in F

(* The roots of the table, those of the second half negated.                 *)
LEMMA RowsTurn ==
    ASSUME NEW F, NEW dom, NEW n, NEW c, NEW row, PartialCall(F, dom, n, c, row), NEW e \in Int
    PROVE  LET r == e % dom.size
               root == row[r % (dom.size \div 2)]
           IN  /\ r \in Nat /\ root \in F
               /\ (IF r < dom.size \div 2 THEN root ELSE negated(root))
                  = field_pow(dom.root, e % (4 * n))
<1>1. /\ dom.size = 4 * n /\ Turns(F, dom.root, n)
      /\ \A k \in 0 .. 2 * n - 1 : row[k] = field_pow(dom.root, k)
  BY DEF PartialCall
<1>2. n \in Nat \ {0} /\ Field(F) /\ dom.root \in F
  BY <1>1 DEF Turns
<1>3. dom.size \div 2 = 2 * n /\ dom.size = 4 * n
  BY <1>1, <1>2
<1> DEFINE r == e % (4 * n)
<1>a. HalfTurned(F, dom.root, 2 * n, e % (4 * n))
  BY <1>1, TurnLaws
<1>4. /\ r \in Nat /\ r % (2 * n) \in 0 .. 2 * n - 1
      /\ r < 2 * n => field_pow(dom.root, r % (2 * n)) = field_pow(dom.root, r)
      /\ ~ (r < 2 * n) => negated(field_pow(dom.root, r % (2 * n))) = field_pow(dom.root, r)
  BY <1>a DEF HalfTurned
<1> HIDE DEF r
<1>5. row[r % (2 * n)] = field_pow(dom.root, r % (2 * n))
  BY ONLY <1>1, <1>4
<1>6. \A k \in Nat : field_pow(dom.root, k) \in F
  BY ONLY <1>2, PowerLaws
<1>7. row[r % (2 * n)] \in F
  BY <1>4, <1>5, <1>6
<1> QED
  BY <1>3, <1>4, <1>5, <1>7 DEF r

\* Four of the coefficients that are n apart.
LEMMA FourApart ==
    ASSUME NEW n \in Nat \ {0}, NEW i \in 0 .. n - 1, NEW s \in 0 .. 3
    PROVE  /\ (3 - s) * n + i \in 0 .. 4 * n - 1
           /\ ((3 - s) * n + i) \div n = 3 - s /\ ((3 - s) * n + i) % n = i
           /\ \A j \in 0 .. 3 : i + j * n \in 0 .. 4 * n - 1 /\ i + j * n \in Nat
<1>1. \A j \in 0 .. 3 : i + j * n \in 0 .. 4 * n - 1 /\ i + j * n \in Nat
  <2> SUFFICES ASSUME NEW j \in 0 .. 3
               PROVE  i + j * n \in 0 .. 4 * n - 1 /\ i + j * n \in Nat
    OBVIOUS
  <2>1. j = 0 \/ j = 1 \/ j = 2 \/ j = 3
    OBVIOUS
  <2> QED
    BY <2>1
<1>2. PICK u \in 0 .. 3 : u = 3 - s
  OBVIOUS
<1>3. u * n + i \in 0 .. 4 * n - 1 /\ u * n + i = i + u * n /\ u * n + i = n * u + i
  BY <1>1, <1>2
<1>4. DividesTo(u * n + i, n, u, i)
  BY <1>2, <1>3 DEF DividesTo
<1>5. (u * n + i) % n = i /\ (u * n + i) \div n = u
  BY ONLY <1>4, RemaindersAre
<1> QED
  BY <1>1, <1>2, <1>3, <1>5

\* The part 3 - s of an array, of n elements.
PartOf(p, n, s) == [i \in 0 .. n - 1 |-> p[(3 - s) * n + i]]

(* Out of place, the root is multiplied in before it is negated; the four    *)
(* parts are what a part is.                                                 *)
LEMMA SerialParts ==
    ASSUME NEW F, NEW dom, NEW n, NEW c, NEW table,
           PartialCall(F, dom, n, c, table[get_msb(dom.size \div 2) - 1]), NEW s \in 0 .. 3
    PROVE  PartIs(F, dom.root, n, c, PartOf(partial_fft_serial_inner(dom, c, table), n, s), One, s, 0)
<1> DEFINE row == table[get_msb(dom.size \div 2) - 1]
           Root(r) == field_mul(c[r[1]], row[r[2] % (dom.size \div 2)])
           Term(u, index) ==
               LET root_index == (index * (u + 1)) % dom.size
                   root == field_mul(c[index], row[root_index % (dom.size \div 2)])
               IN  IF root_index < dom.size \div 2 THEN root ELSE negated(root)
           p == partial_fft_serial_inner(dom, c, table)
<1>1. /\ dom.size = 4 * n /\ Turns(F, dom.root, n)
      /\ \A k \in 0 .. 4 * n - 1 : c[k] \in F
  BY DEF PartialCall
<1>2. n \in Nat \ {0} /\ Field(F) /\ dom.size \div 4 = n
  BY <1>1 DEF Turns
<1>3. \A x \in 0 .. dom.size - 1 :
         p[x] = field_sum([j \in 0 .. 3 |-> Term(3 - x \div n, (x % n) + j * n)])
  BY <1>2 DEF partial_fft_serial_inner
<1>4. ASSUME NEW k \in 0 .. 4 * n - 1, NEW i \in Nat
      PROVE  Term(s, k) = field_mul(c[k], field_pow(dom.root, PartIndex(k, i, s, 0) % (4 * n)))
  <2> DEFINE e == k * (s + 1)
             r == e % dom.size
             root == row[r % (dom.size \div 2)]
  <2>1. k \in Nat /\ s \in Nat /\ e \in Int
    BY <1>2
  <2>2. PartIndex(k, i, s, 0) = e
    BY <2>1 DEF PartIndex
  <2>3. Term(s, k) = IF r < dom.size \div 2 THEN field_mul(c[k], root) ELSE negated(field_mul(c[k], root))
    OBVIOUS
  <2> HIDE DEF e, row, Term
  <2>4. /\ root \in F
        /\ (IF r < dom.size \div 2 THEN root ELSE negated(root)) = field_pow(dom.root, e % (4 * n))
    BY <2>1, RowsTurn DEF row
  <2>5. c[k] \in F
    BY <1>1
  <2> HIDE DEF r, root
  <2>6. field_mul(c[k], negated(root)) = negated(field_mul(c[k], root))
    BY <1>2, <2>4, <2>5, SubLaws
  <2> QED
    BY <2>2, <2>3, <2>4, <2>6
<1>5. ASSUME NEW i \in 0 .. n - 1
      PROVE  PartOf(p, n, s)[i] = field_mul(One, field_sum([j \in 0 .. 3 |->
                 field_mul(c[i + j * n],
                           field_pow(dom.root, PartIndex(i + j * n, i, s, 0) % (4 * n)))]))
  <2> DEFINE x == (3 - s) * n + i
             h == [j \in 0 .. 3 |-> Term(s, i + j * n)]
             g == [j \in 0 .. 3 |->
                     field_mul(c[i + j * n],
                               field_pow(dom.root, PartIndex(i + j * n, i, s, 0) % (4 * n)))]
  <2>1. /\ x \in 0 .. dom.size - 1 /\ x \div n = 3 - s /\ x % n = i
        /\ \A j \in 0 .. 3 : i + j * n \in 0 .. 4 * n - 1
    BY <1>1, <1>2, FourApart
  <2>2. 3 - (3 - s) = s /\ i \in Nat
    BY <1>2
  <2>3. PartOf(p, n, s)[i] = p[x]
    BY DEF PartOf
  <2> HIDE DEF x, p, Term
  <2>4. p[x] = field_sum(h)
    BY <1>3, <2>1, <2>2
  <2>5. \A j \in 0 .. 3 : h[j] = g[j]
    BY <1>4, <2>1, <2>2
  <2>6. h = g
    BY <2>5
  <2>7. field_sum(g) \in F
    <3>1. \A j \in 0 .. 3 : g[j] \in F
      <4> SUFFICES ASSUME NEW j \in 0 .. 3
                   PROVE  g[j] \in F
        OBVIOUS
      <4>1. PICK k \in 0 .. 4 * n - 1 : k = i + j * n
        BY <2>1
      <4>2. PartIndex(k, i, s, 0) \in Int
        BY <1>2, <2>2 DEF PartIndex
      <4>3. field_pow(dom.root, PartIndex(k, i, s, 0) % (4 * n)) \in F
        BY <1>1, <4>2, TurnLaws DEF HalfTurned
      <4>4. g[j] = field_mul(c[k], field_pow(dom.root, PartIndex(k, i, s, 0) % (4 * n)))
        BY <4>1
      <4>5. c[k] \in F
        BY <1>1
      <4> HIDE DEF g
      <4> QED
        BY <1>2, <4>3, <4>4, <4>5, MulLaws
    <3>2. g = [j \in 0 .. 3 |-> g[j]]
      OBVIOUS
    <3> HIDE DEF g
    <3>3. Terms(F, g, 0 .. 3)
      BY ONLY <3>1, FourTerms
    <3>4. field_sum([j \in 0 .. 3 |-> g[j]]) \in F
      BY ONLY <1>2, <3>3, SumOfFour
    <3> QED
      BY ONLY <3>2, <3>4
  <2> HIDE DEF g, h
  <2>8. field_mul(One, field_sum(g)) = field_sum(g)
    BY <1>2, <2>7, MulLaws
  <2> QED
    BY <2>3, <2>4, <2>6, <2>8 DEF g
<1>6. One \in F
  BY <1>2, MulLaws
<1> HIDE DEF p, row, Term
<1> QED
  BY <1>1, <1>5, <1>6 DEF PartIs, p

(* In place, the part is scaled, and in the coset's case the index is 4 i    *)
(* less.                                                                     *)
LEMMA ParallelParts ==
    ASSUME NEW F, NEW dom, NEW n, NEW c, NEW table, NEW constant \in F, NEW is_coset \in BOOLEAN,
           PartialCall(F, dom, n, c, table[get_msb(dom.size \div 2) - 1]), NEW s \in 0 .. 3,
           generator \in F, DOMAIN c = 0 .. 4 * n - 1
    PROVE  PartIs(F, dom.root, n, c,
                  PartOf(partial_fft_parallel_inner(dom, c, table, constant, is_coset), n, s),
                  IF is_coset THEN field_mul(constant, field_pow(generator, s + 1)) ELSE One, s,
                  IF is_coset THEN 1 ELSE 0)
<1> DEFINE row == table[get_msb(dom.size \div 2) - 1]
           back == IF is_coset THEN 1 ELSE 0
           scale(u) == IF is_coset THEN field_mul(constant, field_pow(generator, u + 1)) ELSE One
           Term(i, j, u) ==
               LET root_index == RootIndex(dom, i, j, u, is_coset) % dom.size
                   root == row[root_index % (dom.size \div 2)]
               IN  field_mul(c[i + j * n],
                             IF root_index < dom.size \div 2 THEN root ELSE negated(root))
           p == partial_fft_parallel_inner(dom, c, table, constant, is_coset)
<1>0. PartialCall(F, dom, n, c, row)
  OBVIOUS
<1>1. /\ dom.size = 4 * n /\ Turns(F, dom.root, n)
      /\ \A k \in 0 .. 4 * n - 1 : c[k] \in F
  BY DEF PartialCall
<1>2. n \in Nat \ {0} /\ Field(F) /\ dom.size \div 4 = n
  BY <1>1 DEF Turns
<1>3. \A x \in 0 .. 4 * n - 1 :
         p[x] = field_mul(scale(3 - x \div n),
                          field_sum([j \in 0 .. 3 |-> Term(x % n, j, 3 - x \div n)]))
  BY <1>2 DEF partial_fft_parallel_inner
<1>4. ASSUME NEW i \in 0 .. n - 1, NEW j \in 0 .. 3
      PROVE  Term(i, j, s) = field_mul(c[i + j * n],
                 field_pow(dom.root, PartIndex(i + j * n, i, s, back) % (4 * n)))
  <2> DEFINE e == RootIndex(dom, i, j, s, is_coset)
             r == e % dom.size
             root == row[r % (dom.size \div 2)]
  <2>1. PICK k \in 0 .. 4 * n - 1 : k = i + j * n
    BY <1>2, FourApart
  <2>2. k \in Nat /\ s \in Nat /\ i \in Nat
    BY <1>2
  <2>3. e = PartIndex(i + j * n, i, s, back) /\ e \in Int
    <3>1. e = k * (s + 1) - (IF is_coset THEN 4 * i ELSE 0)
      BY <1>2, <2>1 DEF RootIndex
    <3>2. PartIndex(k, i, s, back) = k * (s + 1) - back * (4 * i)
      BY DEF PartIndex
    <3>3. back * (4 * i) = IF is_coset THEN 4 * i ELSE 0
      BY <2>2
    <3>4. k * (s + 1) \in Int /\ (IF is_coset THEN 4 * i ELSE 0) \in Int
      BY <2>2
    <3>5. \A y, z \in Int : y - z \in Int
      OBVIOUS
    <3>6. e \in Int
      BY ONLY <3>1, <3>4, <3>5
    <3>7. e = PartIndex(k, i, s, back)
      BY ONLY <3>1, <3>2, <3>3
    <3> QED
      BY ONLY <2>1, <3>6, <3>7
  <2>4. Term(i, j, s) = field_mul(c[i + j * n],
                                  IF r < dom.size \div 2 THEN root ELSE negated(root))
    OBVIOUS
  <2> HIDE DEF e, row, Term
  <2>5. (IF r < dom.size \div 2 THEN root ELSE negated(root)) = field_pow(dom.root, e % (4 * n))
    BY ONLY <1>0, <2>3, RowsTurn
  <2> QED
    BY <2>3, <2>4, <2>5
<1>5. ASSUME NEW i \in 0 .. n - 1
      PROVE  PartOf(p, n, s)[i] = field_mul(scale(s), field_sum([j \in 0 .. 3 |->
                 field_mul(c[i + j * n],
                           field_pow(dom.root, PartIndex(i + j * n, i, s, back) % (4 * n)))]))
  <2> DEFINE x == (3 - s) * n + i
             h == [j \in 0 .. 3 |-> Term(i, j, s)]
             g == [j \in 0 .. 3 |->
                     field_mul(c[i + j * n],
                               field_pow(dom.root, PartIndex(i + j * n, i, s, back) % (4 * n)))]
  <2>1. x \in 0 .. 4 * n - 1 /\ x \div n = 3 - s /\ x % n = i
    BY ONLY <1>2, FourApart, s \in 0 .. 3, i \in 0 .. n - 1
  <2>2. 3 - (3 - s) = s
    OBVIOUS
  <2>3. PartOf(p, n, s)[i] = p[x]
    BY DEF PartOf
  <2> HIDE DEF x, p, Term, scale, back
  <2>4. p[x] = field_mul(scale(s), field_sum(h))
    BY <1>3, <2>1, <2>2
  <2>5. \A j \in 0 .. 3 : h[j] = g[j]
    BY <1>4
  <2>6. h = g
    BY <2>5
  <2> QED
    BY <2>3, <2>4, <2>6
<1>6. scale(s) \in F /\ back \in {0, 1}
  <2>1. One \in F /\ \A y, z \in F : field_mul(y, z) \in F
    BY ONLY <1>2, MulLaws
  <2>2. s + 1 \in Nat
    OBVIOUS
  <2>3. field_pow(generator, s + 1) \in F
    BY ONLY <1>2, <2>2, generator \in F, PowerLaws
  <2> QED
    BY <2>1, <2>3
<1> HIDE DEF p, row, Term, scale, back
<1>7. PartIs(F, dom.root, n, c, PartOf(p, n, s), scale(s), s, back)
  BY <1>1, <1>5, <1>6 DEF PartIs
<1> QED
  BY <1>7 DEF p, scale, back

\* The domains that partial_fft is called for have a power of two as their size
\* and a root that turns once around in it, and what is transformed has as many
\* coefficients.
PartialFitsIn(F, size) ==
    /\ \E b \in 2 .. 30 : size = 2^b
    /\ Turns(F, Domain[size].root, size \div 4)
    /\ \A input \in Inputs(size) : DOMAIN input = 0 .. size - 1

(* The row of the table for the round of half the size holds the first half  *)
(* of the turn.                                                              *)
LEMMA HalfTheTurn ==
    ASSUME NEW F, NEW size \in Sizes, PartialFitsIn(F, size)
    PROVE  /\ Domain[size].size = size /\ size = 4 * (size \div 4)
           /\ \A k \in 0 .. 2 * (size \div 4) - 1 :
                 Domain[size].round_roots[get_msb(size \div 2) - 1][k] = field_pow(Domain[size].root, k)
<1> DEFINE w == Domain[size].root
<1>1. PICK b \in 2 .. 30 : size = 2^b
  BY DEF PartialFitsIn
<1>2. /\ Domain[size].size = size /\ Domain[size].round_roots = RoundRoots(w, size)
  BY DEF Domain, new_domain
<1>3. Field(F) /\ w \in F
  BY DEF PartialFitsIn, Turns
<1> HIDE DEF w
<1>4. LastRowHasHalf(w, size, b)
  BY <1>1, <1>3, LastRowIs
<1>5. /\ get_msb(size \div 2) - 1 = b - 2
      /\ size = 4 * (size \div 4) /\ size \div 2 = 2 * (size \div 4)
      /\ \A k \in 0 .. size \div 2 - 1 : RoundRoots(w, size)[b - 2][k] = field_pow(w, k)
  <2>1. b - 1 - 1 = b - 2
    OBVIOUS
  <2> QED
    BY ONLY <1>4, <2>1 DEF LastRowHasHalf
<1> QED
  BY ONLY <1>2, <1>5 DEF w

PartialFits ==
    \E F : FieldIn(F) /\ generator \in F /\ \A size \in Sizes : size >= 4 => PartialFitsIn(F, size)

(* A split call, as either of the two is made.                               *)
SplitsInto(size, input, p, coset, constant) ==
    LET n == size \div 4
        scale(s) == IF coset THEN field_mul(constant, field_pow(generator, s + 1)) ELSE One
    IN  \A s \in 0 .. 3, t \in 0 .. n - 1 :
           ValueOf([i \in 0 .. n - 1 |-> p[(3 - s) * n + i]], n, field_pow(Domain[size].root, 4 * t)) =
           field_mul(scale(s),
               ValueOf(input, size,
                       field_pow(Domain[size].root, (4 * t + s + (IF coset THEN size - 3 ELSE 1)) % size)))

LEMMA PartsSplit ==
    ASSUME NEW F, NEW size \in Sizes, PartialFitsIn(F, size), NEW input, NEW p, NEW coset \in BOOLEAN,
           NEW constant,
           \A s \in 0 .. 3 :
              PartIs(F, Domain[size].root, size \div 4, input, PartOf(p, size \div 4, s),
                     IF coset THEN field_mul(constant, field_pow(generator, s + 1)) ELSE One, s,
                     IF coset THEN 1 ELSE 0)
    PROVE  SplitsInto(size, input, p, coset, constant)
<1> DEFINE n == size \div 4
           w == Domain[size].root
           back == IF coset THEN 1 ELSE 0
           scale(s) == IF coset THEN field_mul(constant, field_pow(generator, s + 1)) ELSE One
<1>1. size = 4 * n /\ Turns(F, w, n)
  BY HalfTheTurn DEF PartialFitsIn
<1>2. n \in Nat \ {0}
  BY <1>1 DEF Turns
<1>3. \A s \in 0 .. 3 : PartIs(F, w, n, input, PartOf(p, n, s), scale(s), s, back)
  OBVIOUS
<1> HIDE DEF n, w, scale, back
<1>4. ASSUME NEW s \in 0 .. 3, NEW t \in 0 .. n - 1
      PROVE  ValueOf(PartOf(p, n, s), n, field_pow(w, 4 * t))
             = field_mul(scale(s), ValueOf(input, size,
                   field_pow(w, (4 * t + s + (IF coset THEN size - 3 ELSE 1)) % size)))
  <2>1. ValueOf(PartOf(p, n, s), n, field_pow(w, 4 * t))
        = field_mul(scale(s), ValueOf(input, 4 * n, field_pow(w, PointIndex(n, t, s, back) % (4 * n))))
    BY <1>3, PartTransforms
  <2>2. PointIndex(n, t, s, back) = 4 * t + s + (IF coset THEN size - 3 ELSE 1)
    <3>1. t \in Nat /\ s \in Nat
      BY <1>2
    <3>2. CASE coset
      <4>1. back = 1
        BY <3>2 DEF back
      <4> QED
        BY <1>1, <1>2, <3>1, <3>2, <4>1 DEF PointIndex
    <3>3. CASE ~ coset
      <4>1. back = 0
        BY <3>3 DEF back
      <4> QED
        BY <1>1, <1>2, <3>1, <3>3, <4>1 DEF PointIndex
    <3> QED
      BY <3>2, <3>3
  <2> QED
    BY <1>1, <2>1, <2>2
<1> QED
  BY <1>4 DEF SplitsInto, PartOf, n, w, scale

(* What is left of a call is the property.                                   *)
LEMMA SplitIsProperty ==
    ASSUME NEW size, NEW input, NEW coset \in BOOLEAN, NEW constant, NEW p,
           SplitsInto(size, input, p, coset, constant),
           call'.size = size, call'.input = input, target' = p,
           (call'.op = "partial_fft" /\ call'.is_coset) = coset,
           coset => call'.constant = constant
    PROVE  PartialFftSplits'
<1> DEFINE n == size \div 4
           w == Domain[size].root
<1>0. d' = Domain[size]
  BY DEF d
<1>a. \A s \in 0 .. 3, t \in 0 .. n - 1 :
         ValueOf([i \in 0 .. n - 1 |-> p[(3 - s) * n + i]], n, field_pow(w, 4 * t)) =
         field_mul(IF coset THEN field_mul(constant, field_pow(generator, s + 1)) ELSE One,
           ValueOf(input, size,
                   field_pow(w, (4 * t + s + (IF coset THEN size - 3 ELSE 1)) % size)))
  BY DEF SplitsInto
<1> HIDE DEF n, w
<1>1. ASSUME coset, NEW s \in 0 .. 3, NEW t \in 0 .. n - 1
      PROVE  ValueOf([i \in 0 .. n - 1 |-> p[(3 - s) * n + i]], n, field_pow(w, 4 * t)) =
             field_mul(field_mul(constant, field_pow(generator, s + 1)),
               ValueOf(input, size, field_pow(w, (4 * t + s + (size - 3)) % size)))
  BY <1>1, <1>a
<1>2. ASSUME ~ coset, NEW s \in 0 .. 3, NEW t \in 0 .. n - 1
      PROVE  ValueOf([i \in 0 .. n - 1 |-> p[(3 - s) * n + i]], n, field_pow(w, 4 * t)) =
             field_mul(One, ValueOf(input, size, field_pow(w, (4 * t + s + 1) % size)))
  BY <1>2, <1>a
<1>3. ASSUME NEW s \in 0 .. 3, NEW t \in 0 .. n - 1
      PROVE  ValueOf([i \in 0 .. n - 1 |-> target'[(3 - s) * n + i]], n, field_pow(d'.root, 4 * t)) =
             field_mul(
               IF call'.op = "partial_fft" /\ call'.is_coset
               THEN field_mul(call'.constant, field_pow(generator, s + 1)) ELSE One,
               ValueOf(call'.input, call'.size,
                 field_pow(d'.root,
                   (4 * t + s + (IF call'.op = "partial_fft" /\ call'.is_coset
                                 THEN call'.size - 3 ELSE 1)) % call'.size)))
  <2>1. call'.size = size /\ call'.input = input /\ target' = p /\ d'.root = w
    BY <1>0 DEF w
  <2>2. CASE coset
    <3>1. (call'.op = "partial_fft" /\ call'.is_coset) /\ call'.constant = constant
      BY <2>2
    <3> QED
      BY ONLY <1>1, <2>1, <2>2, <3>1, s \in 0 .. 3, t \in 0 .. n - 1
  <2>3. CASE ~ coset
    <3>1. ~ (call'.op = "partial_fft" /\ call'.is_coset)
      BY <2>3
    <3> QED
      BY ONLY <1>2, <2>1, <2>3, <3>1, s \in 0 .. 3, t \in 0 .. n - 1
  <2> QED
    BY <2>2, <2>3
<1>4. n = call'.size \div 4
  BY DEF n
<1> QED
  BY ONLY <1>3, <1>4 DEF PartialFftSplits

LEMMA PartialCalls ==
    ASSUME NEW F, FieldIn(F), NEW size \in Sizes, PartialFitsIn(F, size), NEW input \in Inputs(size)
    PROVE  PartialCall(F, Domain[size], size \div 4, input,
                       Domain[size].round_roots[get_msb(Domain[size].size \div 2) - 1])
<1> DEFINE dom == Domain[size]
           n == size \div 4
<1>1. /\ dom.size = 4 * n /\ dom.size = size /\ Turns(F, dom.root, n)
      /\ \A k \in 0 .. 2 * n - 1 :
            dom.round_roots[get_msb(size \div 2) - 1][k] = field_pow(dom.root, k)
      /\ DOMAIN input = 0 .. 4 * n - 1
  BY HalfTheTurn DEF PartialFitsIn
<1>2. \A k \in 0 .. 4 * n - 1 : input[k] \in F
  BY <1>1 DEF FieldIn
<1> HIDE DEF dom, n
<1>3. PartialCall(F, dom, n, input, dom.round_roots[get_msb(dom.size \div 2) - 1])
  BY <1>1, <1>2 DEF PartialCall
<1> QED
  BY <1>3 DEF dom, n

LEMMA NextSplits ==
    ASSUME PartialFits, PartialFftSplits, [Next]_vars
    PROVE  PartialFftSplits'
<1>0. PICK F : FieldIn(F) /\ generator \in F /\ \A size \in Sizes : size >= 4 => PartialFitsIn(F, size)
  BY DEF PartialFits
<1>1. ASSUME NEW op \in {"partial_fft", "partial_fft_serial"}, Finished(op)',
             Finished(op) /\ UNCHANGED <<call, target>>
      PROVE  PartialFftSplits'
  BY <1>1 DEF PartialFftSplits, Finished, d
<1>2. ASSUME NEW size \in Sizes, NEW input \in Inputs(size), CallPartialFft(size, input),
             phase' = "done"
      PROVE  PartialFftSplits'
  <2> DEFINE dom == Domain[size]
             p == partial_fft_serial_inner(dom, input, dom.round_roots)
  <2>1. /\ call' = [op |-> "partial_fft_serial", size |-> size, input |-> input]
        /\ ~ PartialFftPanics(dom) /\ target' = p
    BY <1>2 DEF CallPartialFft, Computes
  <2>2. PartialFitsIn(F, size)
    <3>1. size < 4 => dom.size < 4
      BY DEF new_domain, Domain
    <3> QED
      BY <1>0, <2>1, <3>1 DEF PartialFftPanics, FieldIn
  <2>3. PartialCall(F, dom, size \div 4, input, dom.round_roots[get_msb(dom.size \div 2) - 1])
    BY <1>0, <2>2, PartialCalls
  <2>4. \A s \in 0 .. 3 : PartIs(F, dom.root, size \div 4, input, PartOf(p, size \div 4, s), One, s, 0)
    BY <2>3, SerialParts
  <2> HIDE DEF p
  <2>5. \A coset \in BOOLEAN : \A constant : ~ coset => SplitsInto(size, input, p, coset, constant)
    BY <2>2, <2>4, PartsSplit
  <2>6. SplitsInto(size, input, p, FALSE, One)
    BY <2>5
  <2>7. (call'.op = "partial_fft" /\ call'.is_coset) = FALSE
    BY <2>1
  <2>8. call'.size = size /\ call'.input = input
    BY <2>1
  <2> HIDE DEF dom
  <2> QED
    BY <2>1, <2>6, <2>7, <2>8, SplitIsProperty
<1>3. ASSUME NEW size \in Sizes, NEW input \in Inputs(size), NEW constant \in Scalars,
             NEW is_coset \in BOOLEAN, NEW overflow_checks \in BOOLEAN,
             CallPartialFftInPlace(size, input, constant, is_coset, overflow_checks),
             phase' = "done"
      PROVE  PartialFftSplits'
  <2> DEFINE dom == Domain[size]
             p == partial_fft_parallel_inner(dom, input, dom.round_roots, constant, is_coset)
  <2>1. /\ call' = [op |-> "partial_fft", size |-> size, input |-> input, constant |-> constant,
                    is_coset |-> is_coset]
        /\ ~ PartialFftPanics(dom) /\ target' = p
    BY <1>3 DEF CallPartialFftInPlace, Computes
  <2>2. PartialFitsIn(F, size)
    <3>1. size < 4 => dom.size < 4
      BY DEF new_domain, Domain
    <3> QED
      BY <1>0, <2>1, <3>1 DEF PartialFftPanics, FieldIn
  <2>3. PartialCall(F, dom, size \div 4, input, dom.round_roots[get_msb(dom.size \div 2) - 1])
    BY <1>0, <2>2, PartialCalls
  <2>4. constant \in F /\ generator \in F /\ DOMAIN input = 0 .. 4 * (size \div 4) - 1
    BY <1>0, <2>2, HalfTheTurn DEF FieldIn, PartialFitsIn
  <2>5. \A s \in 0 .. 3 :
           PartIs(F, dom.root, size \div 4, input, PartOf(p, size \div 4, s),
                  IF is_coset THEN field_mul(constant, field_pow(generator, s + 1)) ELSE One, s,
                  IF is_coset THEN 1 ELSE 0)
    BY <2>3, <2>4, ParallelParts
  <2> HIDE DEF p
  <2>6. SplitsInto(size, input, p, is_coset, constant)
    BY <2>2, <2>5, PartsSplit
  <2>7. (call'.op = "partial_fft" /\ call'.is_coset) = is_coset
    BY <2>1
  <2>8. call'.size = size /\ call'.input = input /\ call'.constant = constant
    BY <2>1
  <2> HIDE DEF dom
  <2> QED
    BY <2>1, <2>6, <2>7, <2>8, SplitIsProperty
<1>4. ASSUME NEW op \in {"partial_fft", "partial_fft_serial"}, Finished(op)'
      PROVE  PartialFftSplits'
  <2>1. phase' = "done"
    BY <1>4 DEF Finished
  <2>2. \/ Finished(op) /\ UNCHANGED <<call, target>>
        \/ Called(op)
    BY <1>4, ResultsAreComputed DEF Ffts, InPlace
  <2>3. CASE Finished(op) /\ UNCHANGED <<call, target>>
    BY <1>1, <1>4, <2>3
  <2>4. CASE Called(op)
    BY <1>2, <1>3, <1>4, <2>1, <2>4 DEF Called
  <2> QED
    BY <2>2, <2>3, <2>4
<1>5. CASE ~ (phase' = "done" /\ call'.op \in {"partial_fft", "partial_fft_serial"})
  BY <1>5 DEF PartialFftSplits
<1> QED
  BY <1>4, <1>5 DEF Finished

(* partial_fft splits a transform in four: out of place, and in place with   *)
(* and without a coset, the transforms of the parts it makes are together    *)
(* all the evaluations, for every size that four divides, every field and    *)
(* every constant.                                                           *)
THEOREM PartialFftIsSplit ==
    ASSUME PartialFits
    PROVE  Spec => []PartialFftSplits
<1>1. Init => PartialFftSplits
  BY DEF Init, PartialFftSplits
<1>2. PartialFftSplits /\ [Next]_vars => PartialFftSplits'
  BY NextSplits
<1>3. QED
  BY <1>1, <1>2, PTL DEF Spec

-----------------------------------------------------------------------------
(* Transforms.                                                              *)

(* A polynomial's value from those of its even and odd coefficients.         *)
Halves(F, n, c, ce, co) ==
    /\ \A i \in 0 .. 2 * n - 1 : c[i] \in F
    /\ \A i \in 0 .. n - 1 : ce[i] = c[2 * i] /\ co[i] = c[2 * i + 1]

LEMMA ValueInHalves ==
    ASSUME NEW F, Field(F), NEW n \in Nat, NEW z \in F, NEW c, NEW ce, NEW co, Halves(F, n, c, ce, co)
    PROVE  /\ ValueOf(ce, n, field_pow(z, 2)) \in F /\ ValueOf(co, n, field_pow(z, 2)) \in F
           /\ ValueOf(c, 2 * n, z) = field_add(ValueOf(ce, n, field_pow(z, 2)),
                                         field_mul(z, ValueOf(co, n, field_pow(z, 2))))
<1>0. /\ \A i \in 0 .. 2 * n - 1 : c[i] \in F
      /\ \A i \in 0 .. n - 1 : ce[i] = c[2 * i] /\ co[i] = c[2 * i + 1]
  BY DEF Halves
<1> DEFINE zz == field_pow(z, 2)
           f == [i \in 0 .. 2 * n - 1 |-> field_mul(c[i], field_pow(z, i))]
           e == [i \in 0 .. n - 1 |-> field_mul(ce[i], field_pow(zz, i))]
           o == [i \in 0 .. n - 1 |-> field_mul(co[i], field_pow(zz, i))]
           zo == [i \in 0 .. n - 1 |-> field_mul(z, o[i])]
<1>1. /\ ValueOf(c, 2 * n, z) = SumOver(f, 0 .. 2 * n - 1)
      /\ ValueOf(ce, n, zz) = SumOver(e, 0 .. n - 1)
      /\ ValueOf(co, n, zz) = SumOver(o, 0 .. n - 1)
  BY DEF ValueOf, SumOver
<1>2. /\ \A k \in Nat : field_pow(z, k) \in F
      /\ \A j, k \in Nat : field_mul(field_pow(z, j), field_pow(z, k)) = field_pow(z, j + k)
      /\ field_pow(z, 1) = z
  <2>1. field_pow(z, 0) = One /\ field_pow(z, 0 + 1) = field_mul(z, field_pow(z, 0))
    BY DEF Field
  <2>2. field_mul(z, One) = z
    BY MulLaws
  <2>3. 0 + 1 = 1
    OBVIOUS
  <2>4. field_pow(z, 1) = z
    BY ONLY <2>1, <2>2, <2>3
  <2> QED
    BY ONLY <2>4, PowerLaws, Field(F), z \in F
<1>3. \A k \in Nat : field_pow(zz, k) = field_pow(z, 2 * k)
  BY PowerOfPower
<1>4. \A x, y \in F : field_mul(x, y) \in F
  BY MulLaws
<1>5. \A x, y \in F : field_mul(x, y) = field_mul(y, x)
  BY MulLaws
<1>6. \A x, y, v \in F : field_mul(x, field_mul(y, v)) = field_mul(field_mul(x, y), v)
  BY MulLaws
<1>7. \A i \in 0 .. 2 * n - 1 : f[i] \in F
  <2> SUFFICES ASSUME NEW i \in 0 .. 2 * n - 1 PROVE f[i] \in F
    OBVIOUS
  <2>1. i \in Nat /\ c[i] \in F /\ f[i] = field_mul(c[i], field_pow(z, i))
    BY <1>0
  <2> QED
    BY ONLY <1>2, <1>4, <2>1
<1>8. ASSUME NEW i \in 0 .. n - 1
      PROVE  e[i] = f[2 * i] /\ zo[i] = f[2 * i + 1] /\ e[i] \in F /\ o[i] \in F
  <2>1. 2 * i \in 0 .. 2 * n - 1 /\ 2 * i + 1 \in 0 .. 2 * n - 1 /\ i \in Nat /\ 2 * i \in Nat
    OBVIOUS
  <2> DEFINE p == field_pow(z, 2 * i)
  <2>2. p \in F /\ field_pow(zz, i) = p /\ field_mul(p, z) = field_pow(z, 2 * i + 1)
    <3>1. field_mul(field_pow(z, 2 * i), field_pow(z, 1)) = field_pow(z, 2 * i + 1)
      BY <1>2, <2>1
    <3> QED
      BY <1>2, <1>3, <2>1, <3>1
  <2>3. ce[i] = c[2 * i] /\ co[i] = c[2 * i + 1] /\ ce[i] \in F /\ co[i] \in F
    BY <1>0, <2>1
  <2>4. /\ e[i] = field_mul(ce[i], p) /\ o[i] = field_mul(co[i], p) /\ zo[i] = field_mul(z, o[i])
    BY <2>2
  <2>5. f[2 * i] = field_mul(c[2 * i], p) /\ f[2 * i + 1] = field_mul(c[2 * i + 1], field_pow(z, 2 * i + 1))
    BY <2>1
  <2> HIDE DEF p, e, o, zo, f
  <2>6. field_mul(z, field_mul(co[i], p)) = field_mul(co[i], field_mul(p, z))
    <3>1. field_mul(co[i], p) \in F
      BY <1>4, <2>2, <2>3
    <3>2. field_mul(z, field_mul(co[i], p)) = field_mul(field_mul(co[i], p), z)
      BY <1>5, <3>1
    <3>3. field_mul(co[i], field_mul(p, z)) = field_mul(field_mul(co[i], p), z)
      BY <1>6, <2>2, <2>3
    <3> QED
      BY <3>2, <3>3
  <2>7. e[i] \in F /\ o[i] \in F
    BY <1>4, <2>2, <2>3, <2>4
  <2> QED
    BY <2>2, <2>3, <2>4, <2>5, <2>6, <2>7
<1>9. IsFiniteSet(0 .. n - 1)
  <2>1. 0 \in Int /\ n - 1 \in Int
    OBVIOUS
  <2> QED
    BY ONLY <2>1, FS_Interval
<1>10. Monoid(F, Plus(F), Zero)
  BY DEF Field
<1>11. \A i \in 0 .. n - 1 : zo[i] = field_mul(z, o[i])
  OBVIOUS
<1> DEFINE N == 0 .. n - 1
<1> HIDE DEF f, e, o, zo
<1>12. \A i \in N : e[i] \in F
  BY <1>8
<1>13. \A i \in N : o[i] \in F
  BY <1>8
<1>14. N \in SUBSET N
  OBVIOUS
<1>15. SumOver(f, 0 .. 2 * n - 1) = field_add(SumOver(e, 0 .. n - 1), SumOver(zo, 0 .. n - 1))
  <2>1. \A i \in 0 .. n - 1 : e[i] = f[2 * i] /\ zo[i] = f[2 * i + 1]
    BY <1>8
  <2> QED
    <3>1. EvenAndOdd(F, f, e, zo, n)
      BY <1>7, <2>1 DEF EvenAndOdd
    <3> QED
      BY ONLY Field(F), <3>1, SumInPairs
<1> HIDE DEF N
<1>16. SumOver(e, N) \in F
  BY ONLY <1>9, <1>10, <1>12, <1>14, SumLaws DEF N
<1>17. SumOver(o, N) \in F
  BY ONLY <1>9, <1>10, <1>13, <1>14, SumLaws DEF N
<1>18. SumOver(zo, N) = field_mul(z, SumOver(o, N))
  <2>1. Terms(F, o, N)
    BY <1>9, <1>13 DEF Terms, N
  <2>2. \A i \in N : zo[i] = field_mul(z, o[i])
    BY <1>11 DEF N
  <2> QED
    BY ONLY Field(F), z \in F, <2>1, <2>2, SumScaled
<1> QED
  BY <1>1, <1>15, <1>16, <1>17, <1>18 DEF N

\* Where t is in the block b of a round's result, and in one of the two blocks
\* that it is made of.
InBlock(h, size, b, t) ==
    LET x == b * (2 * h) + t
        u == t % h
    IN  /\ x \in 0 .. size - 1 /\ x % (2 * h) = t /\ x % h = u /\ u \in 0 .. h - 1
        /\ 2 * b \in 0 .. (size \div h) - 1 /\ 2 * b + 1 \in 0 .. (size \div h) - 1
        /\ t < h => t = u /\ x = (2 * b) * h + u /\ x + h = (2 * b + 1) * h + u
        /\ ~ (t < h) => t = u + h /\ x - h = (2 * b) * h + u /\ x = (2 * b + 1) * h + u
        /\ size \div (2 * h) \in Nat /\ size \div h = (size \div (2 * h)) * 2
        /\ (size \div (2 * h)) * h = size \div 2

(* The places of a block, and of the halves it is made of.                   *)
LEMMA InBlocks ==
    ASSUME NEW h \in {2, 4}, NEW size \in Nat, size % (2 * h) = 0,
           NEW b \in 0 .. (size \div (2 * h)) - 1, NEW t \in 0 .. 2 * h - 1
    PROVE  InBlock(h, size, b, t)
<1>1. CASE h = 2
  BY <1>1 DEF InBlock
<1>2. CASE h = 4
  BY <1>2 DEF InBlock
<1> QED
  BY <1>1, <1>2

\* A block's coefficients, from those in the order of the reversal.
BlockInput(R, B, b) == [x \in 0 .. B - 1 |-> R[b * B + reverse_bits(x, get_msb(B))]]

(* The even ones are those of one half, the odd ones those of the other.     *)
LEMMA BlockHalves ==
    ASSUME NEW h \in {2, 4}, NEW b \in Nat, NEW R, NEW i \in 0 .. h - 1
    PROVE  /\ BlockInput(R, h, 2 * b)[i] = BlockInput(R, 2 * h, b)[2 * i]
           /\ BlockInput(R, h, 2 * b + 1)[i] = BlockInput(R, 2 * h, b)[2 * i + 1]
<1>1. CASE h = 2
  <2>1. i \in Nat /\ 2 * i \in Nat /\ 2 * i + 1 \in Nat /\ 2 * i \in 0 .. 3 /\ 2 * i + 1 \in 0 .. 3
    BY <1>1
  <2>2. reverse_bits(i, 1) = i % 2
    BY <2>1, ReversedBits
  <2>3. reverse_bits(2 * i, 2) = ((2 * i) % 2) * 2 + (((2 * i) \div 2) % 2)
    BY <2>1, ReversedBits
  <2>4. reverse_bits(2 * i + 1, 2) = ((2 * i + 1) % 2) * 2 + (((2 * i + 1) \div 2) % 2)
    BY <2>1, ReversedBits
  <2>5. /\ b * 4 + reverse_bits(2 * i, 2) = (2 * b) * 2 + reverse_bits(i, 1)
        /\ b * 4 + reverse_bits(2 * i + 1, 2) = (2 * b + 1) * 2 + reverse_bits(i, 1)
    BY <2>1, <2>2, <2>3, <2>4
  <2>6. get_msb(2) = 1 /\ get_msb(4) = 2
    BY SmallMsb
  <2> QED
    BY <1>1, <2>1, <2>5, <2>6 DEF BlockInput
<1>2. CASE h = 4
  <2>1. i \in Nat /\ 2 * i \in Nat /\ 2 * i + 1 \in Nat /\ 2 * i \in 0 .. 7 /\ 2 * i + 1 \in 0 .. 7
    BY <1>2
  <2>2. reverse_bits(i, 2) = (i % 2) * 2 + ((i \div 2) % 2)
    BY <2>1, ReversedBits
  <2>3. reverse_bits(2 * i, 3) = ((2 * i) % 2) * 4 + (((2 * i) \div 2) % 2) * 2 + (((2 * i) \div 4) % 2)
    BY <2>1, ReversedBits
  <2>4. reverse_bits(2 * i + 1, 3)
        = ((2 * i + 1) % 2) * 4 + (((2 * i + 1) \div 2) % 2) * 2 + (((2 * i + 1) \div 4) % 2)
    BY <2>1, ReversedBits
  <2>5. /\ b * 8 + reverse_bits(2 * i, 3) = (2 * b) * 4 + reverse_bits(i, 2)
        /\ b * 8 + reverse_bits(2 * i + 1, 3) = (2 * b + 1) * 4 + reverse_bits(i, 2)
    BY <2>1, <2>2, <2>3, <2>4
  <2>6. get_msb(4) = 2 /\ get_msb(8) = 3
    BY SmallMsb
  <2> QED
    BY <1>2, <2>1, <2>5, <2>6 DEF BlockInput
<1> QED
  BY <1>1, <1>2

(* They are coefficients.                                                    *)
LEMMA BlockInputIn ==
    ASSUME NEW F, NEW B \in {2, 4, 8}, NEW size \in Nat, NEW b \in 0 .. (size \div B) - 1,
           NEW R, \A k \in 0 .. size - 1 : R[k] \in F, NEW x \in 0 .. B - 1
    PROVE  /\ b * B + reverse_bits(x, get_msb(B)) \in 0 .. size - 1
           /\ BlockInput(R, B, b)[x] \in F
<1>1. b * B + reverse_bits(x, get_msb(B)) \in 0 .. size - 1
  <2>1. x \in Nat
    OBVIOUS
  <2>2. CASE B = 2
    <3>1. get_msb(B) = 1 /\ reverse_bits(x, 1) = x % 2
      BY <2>1, <2>2, SmallMsb, ReversedBits
    <3> QED
      BY <2>2, <3>1
  <2>3. CASE B = 4
    <3>1. get_msb(B) = 2 /\ reverse_bits(x, 2) = (x % 2) * 2 + ((x \div 2) % 2)
      BY <2>1, <2>3, SmallMsb, ReversedBits
    <3>2. reverse_bits(x, 2) \in 0 .. 3
      BY <2>1, <3>1
    <3> QED
      BY <2>3, <3>1, <3>2
  <2>4. CASE B = 8
    <3>1. get_msb(B) = 3 /\ reverse_bits(x, 3) = (x % 2) * 4 + ((x \div 2) % 2) * 2 + ((x \div 4) % 2)
      BY <2>1, <2>4, SmallMsb, ReversedBits
    <3>2. reverse_bits(x, 3) \in 0 .. 7
      BY <2>1, <3>1
    <3> QED
      BY <2>4, <3>1, <3>2
  <2> QED
    BY <2>2, <2>3, <2>4
<1> QED
  BY <1>1 DEF BlockInput

\* Every block of B elements is the transform of its coefficients.
Transforms(made, R, B, size, w) ==
    \A b \in 0 .. (size \div B) - 1, t \in 0 .. B - 1 :
       made[b * B + t] = ValueOf(BlockInput(R, B, b), B, field_pow(field_pow(w, size \div B), t))

\* What the round for h is about: coefficients, a root that turns around in the
\* size, its row of the table, and what the round makes of an array.
TransformRound(F, h, size, R, w, roots, a, made) ==
    /\ Field(F) /\ h \in {2, 4} /\ size \in Nat /\ size % (2 * h) = 0
    /\ \A k \in 0 .. size - 1 : R[k] \in F
    /\ w \in F /\ field_pow(w, size \div 2) = negated(One)
    /\ \A j \in 0 .. h - 1 : roots[j] = field_pow(field_pow(w, size \div (2 * h)), j)
    /\ \A x \in 0 .. size - 1 : made[x] = CombinedAt(a, h, roots, x)

(* The powers of the roots of two rounds: the square of the root for 2 h is  *)
(* the root for h, and h steps are half a turn.                              *)
RootsHalve(F, h, r, s) ==
    /\ r \in F /\ s \in F
    /\ \A t \in 0 .. 2 * h - 1 :
          field_pow(r, t) \in F /\ field_pow(field_pow(r, t), 2) = field_pow(s, t % h)
    /\ \A u \in 0 .. h - 1 : field_pow(r, u + h) = negated(field_pow(r, u))

(* The roots of two rounds that follow each other are related so.            *)
LEMMA RootsOfRounds ==
    ASSUME NEW F, Field(F), NEW h \in {2, 4}, NEW size \in Nat, size % (2 * h) = 0,
           NEW w \in F, field_pow(w, size \div 2) = negated(One)
    PROVE  RootsHalve(F, h, field_pow(w, size \div (2 * h)), field_pow(w, size \div h))
<1> DEFINE r == field_pow(w, size \div (2 * h))
           s == field_pow(w, size \div h)
<1>1. /\ size \div (2 * h) \in Nat /\ size \div h \in Nat /\ size \div h = (size \div (2 * h)) * 2
      /\ (size \div (2 * h)) * h = size \div 2
  <2>1. CASE h = 2
    BY <2>1
  <2>2. CASE h = 4
    BY <2>2
  <2> QED
    BY <2>1, <2>2
<1>2. \A x \in F : \A k \in Nat : field_pow(x, k) \in F
  BY PowerLaws
<1>3. \A x \in F : \A j, k \in Nat : field_mul(field_pow(x, j), field_pow(x, k)) = field_pow(x, j + k)
  BY PowerLaws
<1>4. \A x \in F : \A j, k \in Nat : field_pow(field_pow(x, j), k) = field_pow(x, j * k)
  BY PowerOfPower
<1>5. r \in F /\ s \in F
  BY <1>1, <1>2
<1>6. s = field_pow(r, 2)
  <2>1. field_pow(field_pow(w, size \div (2 * h)), 2) = field_pow(w, (size \div (2 * h)) * 2)
    BY <1>1, <1>4
  <2> QED
    BY <1>1, <2>1
<1>7. field_pow(r, h) = negated(One)
  <2>1. h \in Nat
    OBVIOUS
  <2>2. field_pow(field_pow(w, size \div (2 * h)), h) = field_pow(w, (size \div (2 * h)) * h)
    BY <1>1, <1>4, <2>1
  <2> QED
    BY <1>1, <2>2
<1> HIDE DEF r, s
<1>8. One \in F /\ \A x \in F : field_mul(x, One) = x /\ field_mul(One, x) = x
  BY MulLaws
<1>9. \A x \in F : negated(x) \in F
  BY ZeroLaws
<1>10. \A x \in F : field_mul(x, negated(One)) = negated(x)
  <2>1. \A x, y \in F : field_mul(x, negated(y)) = negated(field_mul(x, y))
    BY SubLaws
  <2> QED
    BY <1>8, <2>1
<1>11. ASSUME NEW u \in 0 .. h - 1
       PROVE  field_pow(r, u + h) = negated(field_pow(r, u))
  <2>1. u \in Nat /\ h \in Nat
    OBVIOUS
  <2>2. field_mul(field_pow(r, u), field_pow(r, h)) = field_pow(r, u + h)
    BY <1>3, <1>5, <2>1
  <2>3. field_pow(r, u) \in F
    BY <1>2, <1>5, <2>1
  <2> QED
    BY <1>7, <1>10, <2>2, <2>3
<1>12. field_pow(s, h) = One
  <2>1. field_pow(s, h) = field_pow(r, 2 * h)
    BY <1>4, <1>5, <1>6
  <2>2. field_mul(field_pow(r, h), field_pow(r, h)) = field_pow(r, h + h)
    BY <1>3, <1>5
  <2>3. field_mul(negated(One), negated(One)) = One
    <3>1. negated(negated(One)) = One
      BY <1>8, SubLaws
    <3> QED
      BY <1>8, <1>9, <1>10, <3>1
  <2>4. h + h = 2 * h
    OBVIOUS
  <2> QED
    BY <1>7, <2>1, <2>2, <2>3, <2>4
<1>13. ASSUME NEW t \in 0 .. 2 * h - 1
       PROVE  field_pow(r, t) \in F /\ field_pow(field_pow(r, t), 2) = field_pow(s, t % h)
  <2>1. t \in Nat /\ 2 \in Nat /\ t * 2 = 2 * t
    OBVIOUS
  <2>2. field_pow(field_pow(r, t), 2) = field_pow(r, 2 * t)
    BY <1>4, <1>5, <2>1
  <2>3. field_pow(s, t) = field_pow(r, 2 * t)
    BY <1>4, <1>5, <1>6, <2>1
  <2>4. field_pow(s, t) = field_pow(s, t % h)
    <3>1. CASE t < h
      <4>1. t % h = t
        BY <3>1
      <4> QED
        BY <4>1
    <3>2. CASE ~ (t < h)
      <4>1. t % h \in Nat /\ t = h + (t % h) /\ h \in Nat
        <5>1. CASE h = 2
          BY <3>2, <5>1
        <5>2. CASE h = 4
          BY <3>2, <5>2
        <5> QED
          BY <5>1, <5>2
      <4> DEFINE u == t % h
      <4>2. field_mul(field_pow(s, h), field_pow(s, u)) = field_pow(s, h + u)
        BY <1>3, <1>5, <4>1
      <4>3. field_pow(s, u) \in F
        BY <1>2, <1>5, <4>1
      <4> QED
        BY <1>8, <1>12, <4>1, <4>2, <4>3
    <3> QED
      BY <3>1, <3>2
  <2>5. field_pow(r, t) \in F
    BY <1>2, <1>5, <2>1
  <2> QED
    BY <2>2, <2>3, <2>4, <2>5
<1> QED
  BY <1>5, <1>11, <1>13 DEF RootsHalve, r, s

(* A round makes the transforms of blocks twice as large.                    *)
LEMMA RoundTransforms ==
    ASSUME NEW F, NEW h, NEW size, NEW R, NEW w, NEW roots, NEW a, NEW made,
           TransformRound(F, h, size, R, w, roots, a, made), Transforms(a, R, h, size, w)
    PROVE  Transforms(made, R, 2 * h, size, w)
<1>0. /\ Field(F) /\ h \in {2, 4} /\ size \in Nat /\ size % (2 * h) = 0
      /\ \A k \in 0 .. size - 1 : R[k] \in F
      /\ w \in F /\ field_pow(w, size \div 2) = negated(One)
      /\ \A j \in 0 .. h - 1 : roots[j] = field_pow(field_pow(w, size \div (2 * h)), j)
      /\ \A x \in 0 .. size - 1 : made[x] = CombinedAt(a, h, roots, x)
  BY DEF TransformRound
<1> DEFINE r == field_pow(w, size \div (2 * h))
           s == field_pow(w, size \div h)
<1>1. RootsHalve(F, h, r, s)
  BY ONLY <1>0, RootsOfRounds
<1>2. \A j \in 0 .. h - 1 : roots[j] = field_pow(r, j)
  BY <1>0
<1> HIDE DEF r, s
<1>3. /\ r \in F /\ s \in F
      /\ \A t \in 0 .. 2 * h - 1 :
          field_pow(r, t) \in F /\ field_pow(field_pow(r, t), 2) = field_pow(s, t % h)
      /\ \A u \in 0 .. h - 1 : field_pow(r, u + h) = negated(field_pow(r, u))
  BY <1>1 DEF RootsHalve
<1>4. \A b \in 0 .. (size \div h) - 1, t \in 0 .. h - 1 :
         a[b * h + t] = ValueOf(BlockInput(R, h, b), h, field_pow(s, t))
  BY DEF Transforms, s
<1> SUFFICES ASSUME NEW b \in 0 .. (size \div (2 * h)) - 1, NEW t \in 0 .. 2 * h - 1
             PROVE  made[b * (2 * h) + t] = ValueOf(BlockInput(R, 2 * h, b), 2 * h, field_pow(r, t))
  BY DEF Transforms, r
<1> DEFINE x == b * (2 * h) + t
           u == t % h
           z == field_pow(r, t)
           c == BlockInput(R, 2 * h, b)
           ce == BlockInput(R, h, 2 * b)
           co == BlockInput(R, h, 2 * b + 1)
           even == ValueOf(ce, h, field_pow(s, u))
           odd == ValueOf(co, h, field_pow(s, u))
<1>5. InBlock(h, size, b, t)
  BY <1>0, InBlocks
<1>6. /\ x \in 0 .. size - 1 /\ x % (2 * h) = t /\ x % h = u /\ u \in 0 .. h - 1
      /\ 2 * b \in 0 .. (size \div h) - 1 /\ 2 * b + 1 \in 0 .. (size \div h) - 1
      /\ t < h => t = u /\ x = (2 * b) * h + u /\ x + h = (2 * b + 1) * h + u
      /\ ~ (t < h) => t = u + h /\ x - h = (2 * b) * h + u /\ x = (2 * b + 1) * h + u
  BY <1>5 DEF InBlock
<1>7. b \in Nat /\ h \in Nat /\ 2 * h \in {2, 4, 8}
  <2>1. size \div (2 * h) \in Int
    BY <1>5 DEF InBlock
  <2> QED
    BY <1>0, <2>1
<1>8. \A i \in 0 .. 2 * h - 1 : c[i] \in F
  BY <1>0, <1>7, BlockInputIn
<1>9. \A i \in 0 .. h - 1 : ce[i] = c[2 * i] /\ co[i] = c[2 * i + 1]
  <2> SUFFICES ASSUME NEW i \in 0 .. h - 1 PROVE ce[i] = c[2 * i] /\ co[i] = c[2 * i + 1]
    OBVIOUS
  <2>1. h \in {2, 4} /\ b \in Nat /\ i \in 0 .. h - 1
    BY ONLY <1>0, <1>7, i \in 0 .. h - 1
  <2> QED
    BY ONLY <2>1, BlockHalves
<1>10. z \in F /\ field_pow(z, 2) = field_pow(s, u)
  BY <1>3
<1>11. even \in F /\ odd \in F /\ ValueOf(c, 2 * h, z) = field_add(even, field_mul(z, odd))
  <2> HIDE DEF c, ce, co, z, u
  <2>1. Halves(F, h, c, ce, co)
    BY <1>8, <1>9 DEF Halves
  <2>2. h \in Nat /\ z \in F /\ Field(F) /\ field_pow(z, 2) = field_pow(s, u)
    BY <1>0, <1>7, <1>10
  <2>3. /\ ValueOf(ce, h, field_pow(z, 2)) \in F /\ ValueOf(co, h, field_pow(z, 2)) \in F
        /\ ValueOf(c, 2 * h, z) = field_add(ValueOf(ce, h, field_pow(z, 2)),
                                      field_mul(z, ValueOf(co, h, field_pow(z, 2))))
    BY ONLY <2>1, <2>2, ValueInHalves
  <2> QED
    BY <2>2, <2>3
<1>12. a[(2 * b) * h + u] = even /\ a[(2 * b + 1) * h + u] = odd
  BY <1>4, <1>6
<1>13. made[x] = CombinedAt(a, h, roots, x) /\ roots[u] = field_pow(r, u)
  BY <1>0, <1>2, <1>6
<1> HIDE DEF even, odd, x, u, c
<1>14. CASE t < h
  <2>1. made[x] = field_add(even, field_mul(field_pow(r, u), odd))
    BY <1>6, <1>12, <1>13, <1>14 DEF CombinedAt
  <2>2. z = field_pow(r, u)
    BY <1>6, <1>14
  <2> QED
    BY <1>11, <2>1, <2>2 DEF x, c
<1>15. CASE ~ (t < h)
  <2> DEFINE p == field_pow(r, u)
  <2>1. made[x] = field_sub(even, field_mul(p, odd))
    BY <1>6, <1>12, <1>13, <1>15 DEF CombinedAt
  <2>2. z = negated(p)
    BY <1>3, <1>6, <1>15
  <2>3. p \in F
    <3>1. u \in 0 .. 2 * h - 1
      BY <1>6, <1>7
    <3> QED
      BY <1>3, <3>1
  <2> HIDE DEF p, z
  <2>4. /\ field_mul(negated(p), odd) = negated(field_mul(p, odd)) /\ field_mul(p, odd) \in F
    BY <1>0, <1>11, <2>3, ZeroLaws, MulLaws
  <2>5. field_sub(even, field_mul(p, odd)) = field_add(even, negated(field_mul(p, odd)))
    BY <1>0, <1>11, <2>4, ZeroLaws
  <2>6. made[x] = ValueOf(c, 2 * h, z)
    BY <1>11, <2>1, <2>2, <2>4, <2>5
  <2> QED
    BY <2>6 DEF x, c, z
<1> QED
  BY <1>14, <1>15

\* What the first round is about.
FirstRound(F, dom, size, input, R, w, len) ==
    /\ Field(F) /\ Shared(dom, size)
    /\ \A k \in 0 .. size - 1 : R[k] = input[reverse_bits(k, dom.log2_size)] /\ R[k] \in F
    /\ w \in F /\ field_pow(w, size \div 2) = negated(One)
    /\ len \in Nat /\ size <= len

(* It makes the transforms of the pairs.                                     *)
LEMMA FirstRoundTransforms ==
    ASSUME NEW F, NEW dom, NEW size, NEW input, NEW R, NEW w, NEW len, NEW first,
           FirstRound(F, dom, size, input, R, w, len), first = first_fft_round(dom, input, Array(len))
    PROVE  /\ first \in [0 .. len - 1 -> F]
           /\ Transforms(first, R, 2, size, w)
<1>0. /\ Field(F) /\ size \in Nat /\ dom.num_threads * dom.thread_size = size
      /\ \A k \in 0 .. size - 1 : R[k] = input[reverse_bits(k, dom.log2_size)] /\ R[k] \in F
      /\ w \in F /\ field_pow(w, size \div 2) = negated(One)
      /\ len \in Nat /\ size <= len
  BY DEF FirstRound, Shared
<1>1. PICK h \in Nat : size = 2 * h
  BY DEF FirstRound, Shared
<1>2. DOMAIN Array(len) = 0 .. len - 1 /\ \A x \in 0 .. len - 1 : Array(len)[x] = Zero
  BY DEF Array
<1>3. DOMAIN first = 0 .. len - 1
  BY <1>2 DEF first_fft_round
<1>4. ASSUME NEW x \in 0 .. len - 1
      PROVE  first[x] = IF x >= size THEN Zero
                        ELSE IF x % 2 = 0 THEN field_add(R[x], R[x + 1])
                        ELSE field_sub(R[x - 1], R[x])
  <2> DEFINE i == x - (x % 2)
             A(y) == input[reverse_bits(y, dom.log2_size)]
  <2>1. first[x] = IF x >= size THEN Zero
                   ELSE IF x = i THEN field_add(A(i), A(i + 1)) ELSE field_sub(A(i), A(i + 1))
    BY <1>0, <1>2 DEF first_fft_round
  <2>2. x < size => i \in 0 .. size - 1 /\ i + 1 \in 0 .. size - 1
    BY <1>1
  <2>3. x < size => A(i) = R[i] /\ A(i + 1) = R[i + 1]
    BY <1>0, <2>2
  <2>4. (x % 2 = 0 => i = x) /\ (~ (x % 2 = 0) => i = x - 1 /\ i + 1 = x /\ i # x)
    OBVIOUS
  <2>5. x >= size \/ x < size
    BY <1>0
  <2> HIDE DEF i, A
  <2> QED
    BY <1>0, <2>1, <2>3, <2>4, <2>5
<1>5. \A x, y \in F : field_add(x, y) \in F /\ field_sub(x, y) \in F
  BY <1>0, AddLaws DEF Field
<1>6. \A x \in 0 .. len - 1 : first[x] \in F
  <2> SUFFICES ASSUME NEW x \in 0 .. len - 1 PROVE first[x] \in F
    OBVIOUS
  <2>1. Zero \in F
    BY <1>0, AddLaws
  <2>2. x < size /\ x % 2 = 0 => x \in 0 .. size - 1 /\ x + 1 \in 0 .. size - 1
    BY <1>1
  <2>3. x < size /\ ~ (x % 2 = 0) => x \in 0 .. size - 1 /\ x - 1 \in 0 .. size - 1
    BY <1>1
  <2>4. x >= size \/ x < size
    BY <1>0
  <2> QED
    BY <1>0, <1>4, <1>5, <2>1, <2>2, <2>3, <2>4
<1>7. first = [x \in DOMAIN first |-> first[x]]
  BY DEF first_fft_round
<1>8. first \in [0 .. len - 1 -> F]
  <2> HIDE DEF Array, first_fft_round
  <2> QED
    BY ONLY <1>3, <1>6, <1>7
<1> DEFINE z == field_pow(w, size \div 2)
<1>9. ASSUME NEW b \in 0 .. (size \div 2) - 1, NEW t \in 0 .. 1
      PROVE  first[b * 2 + t] = ValueOf(BlockInput(R, 2, b), 2, field_pow(z, t))
  <2> DEFINE c == BlockInput(R, 2, b)
             p == field_pow(z, t)
  <2>1. /\ b \in Nat /\ b * 2 \in 0 .. size - 1 /\ b * 2 + 1 \in 0 .. size - 1
        /\ b * 2 + t \in 0 .. len - 1 /\ ~ (b * 2 + t >= size) /\ (b * 2 + t) % 2 = t
    BY <1>0, <1>1
  <2>2. c[0] = R[b * 2] /\ c[1] = R[b * 2 + 1]
    <3>1. get_msb(2) = 1 /\ reverse_bits(0, 1) = 0 /\ reverse_bits(1, 1) = 1
      BY SmallMsb, ReversedBits
    <3>2. b * 2 + 0 = b * 2
      BY <2>1
    <3> QED
      BY <3>1, <3>2 DEF BlockInput
  <2>3. c[0] \in F /\ c[1] \in F
    BY <1>0, <2>1, <2>2
  <2>4. z \in F
    BY <1>0, ZeroLaws, MulLaws
  <2>5. p \in F
    BY <1>0, <2>4, PowerLaws
  <2>6. ValueOf(c, 2, p) = field_add(c[0], field_mul(c[1], p))
    <3> HIDE DEF c, p
    <3> QED
      BY <1>0, <2>3, <2>5, ValueOfTwo
  <2>7. CASE t = 0
    <3>1. p = One
      BY <1>0, <2>4, <2>7 DEF Field
    <3>2. field_mul(c[1], p) = c[1]
      BY <1>0, <2>3, <3>1, MulLaws
    <3>3. first[b * 2 + t] = field_add(R[b * 2], R[b * 2 + 1])
      BY <1>4, <2>1, <2>7
    <3> QED
      BY <2>2, <2>6, <3>2, <3>3
  <2>8. CASE t = 1
    <3>1. p = negated(One)
      <4>1. field_pow(z, 0) = One /\ field_pow(z, 0 + 1) = field_mul(z, field_pow(z, 0))
        BY <1>0, <2>4 DEF Field
      <4>2. field_pow(z, 1) = z
        BY <1>0, <2>4, <4>1, MulLaws
      <4> QED
        BY <1>0, <2>8, <4>2
    <3>2. field_mul(c[1], p) = negated(c[1])
      <4>1. field_mul(c[1], negated(One)) = negated(field_mul(c[1], One))
        BY <1>0, <2>3, SubLaws, MulLaws
      <4> QED
        BY <1>0, <2>3, <3>1, <4>1, MulLaws
    <3>3. field_sub(c[0], c[1]) = field_add(c[0], negated(c[1]))
      BY <1>0, <2>3, ZeroLaws
    <3>4. first[b * 2 + t] = field_sub(R[b * 2], R[b * 2 + 1])
      <4>1. b * 2 + t - 1 = b * 2 /\ ~ ((b * 2 + t) % 2 = 0) /\ b * 2 + t = b * 2 + 1
        BY <2>1, <2>8
      <4> QED
        BY <1>4, <2>1, <4>1
    <3> QED
      BY <2>2, <2>6, <3>2, <3>3, <3>4
  <2> QED
    BY <2>7, <2>8
<1>10. Transforms(first, R, 2, size, w)
  <2> HIDE DEF z
  <2>1. 2 - 1 = 1
    OBVIOUS
  <2> QED
    BY <1>9, <2>1 DEF Transforms, z
<1> QED
  BY <1>8, <1>10

\* A domain that is transformed on has a power of two as its size and a root
\* that turns once around in it, and what is transformed has as many
\* coefficients.
TransformFitsIn(F, size) ==
    /\ \E b \in 1 .. 30 : size = 2^b
    /\ Domain[size].root \in F
    /\ field_pow(Domain[size].root, size \div 2) = negated(One)
    /\ Inputs(size) \subseteq [0 .. size - 1 -> F]

\* One field for all sizes.  The threads make a power of two for get_msb's 32 bits.
SerialFits == \E F : FieldIn(F) /\ \A size \in Sizes : TransformFitsIn(F, size)
TransformsFit == available_parallelism < 2^31 /\ SerialFits

\* The root that a transform is made with.
RootFor(op, size) ==
    IF op = "ifft_inplace" THEN field_inverse(Domain[size].root) ELSE Domain[size].root

\* The table that belongs to it.
TableFor(op, size) ==
    IF op = "ifft_inplace" THEN Domain[size].inverse_round_roots ELSE Domain[size].round_roots

\* What the operations on a size have in common.
OnDomain(F, op, size, b) ==
    LET w == RootFor(op, size)
    IN  /\ b \in 1 .. 30 /\ size = 2^b /\ size \in Nat /\ size = 2 * (size \div 2)
        /\ Domain[size].log2_size = get_msb(size)
        /\ w \in F /\ field_pow(w, size \div 2) = negated(One)
        /\ TableFor(op, size) = RoundRoots(w, size)
        /\ Shared(Domain[size], size)

(* Both directions of a transform have a root and a table that fit.          *)
LEMMA Domains ==
    ASSUME NEW F, FieldIn(F), available_parallelism < 2^31, NEW op, NEW size \in Sizes,
           TransformFitsIn(F, size)
    PROVE  \E b : OnDomain(F, op, size, b)
<1> DEFINE root == Domain[size].root
           w == RootFor(op, size)
<1>1. PICK b \in 1 .. 30 : size = 2^b
  BY DEF TransformFitsIn
<1>2. Domain[size] = new_domain(size)
  BY DEF Domain
<1>3. /\ Domain[size].log2_size = get_msb(size)
      /\ Domain[size].round_roots = RoundRoots(root, size)
      /\ Domain[size].inverse_round_roots = RoundRoots(field_inverse(root), size)
  BY <1>2 DEF new_domain
<1>4. Shared(Domain[size], size)
  BY <1>1, <1>2, DomainsShared
<1>5. size \in Nat /\ size = 2 * (size \div 2) /\ size \div 2 \in Nat \ {0}
  <2>1. b - 1 \in 0 .. 31 /\ b - 1 + 1 = b
    OBVIOUS
  <2>2. 2^(b - 1) \in Nat \ {0} /\ 2^(b - 1 + 1) = 2 * 2^(b - 1)
    BY <2>1, PowersDouble
  <2>3. size = 2 * 2^(b - 1)
    BY ONLY <1>1, <2>1, <2>2
  <2> QED
    BY <2>2, <2>3
<1>6. Field(F) /\ root \in F /\ field_pow(root, size \div 2) = negated(One)
  BY DEF FieldIn, TransformFitsIn
<1> HIDE DEF root
<1>7. field_inverse(root) \in F /\ field_pow(field_inverse(root), size \div 2) = negated(One)
  BY <1>5, <1>6, InverseTurns
<1>8. w \in F /\ field_pow(w, size \div 2) = negated(One) /\ TableFor(op, size) = RoundRoots(w, size)
  BY <1>3, <1>6, <1>7 DEF RootFor, TableFor, root
<1> QED
  BY <1>1, <1>3, <1>4, <1>5, <1>8 DEF OnDomain

(* The loop variables of the two rounds that have a row.                     *)
LEMMA LowestBits == lowest_bit(2) = 1 /\ lowest_bit(4) = 2
<1>1. get_msb(2) = 1 /\ get_msb(4) = 2
  BY SmallMsb
<1>2. lowest_bit(2) = 1
  <2>1. \A b \in 0 .. 1 : (2 % 2^b = 0 /\ (2 \div 2^b) % 2 = 1) <=> b = 1
    <3>1. \A b \in 0 .. 1 : b = 0 \/ b = 1
      OBVIOUS
    <3>2. ~ ((2 \div 2^0) % 2 = 1) /\ 2 % 2^1 = 0 /\ (2 \div 2^1) % 2 = 1
      OBVIOUS
    <3> QED
      BY <3>1, <3>2
  <2>2. 1 \in 0 .. 1
    OBVIOUS
  <2> QED
    BY <1>1, <2>1, <2>2 DEF lowest_bit
<1>3. lowest_bit(4) = 2
  <2>1. \A b \in 0 .. 2 : (4 % 2^b = 0 /\ (4 \div 2^b) % 2 = 1) <=> b = 2
    <3>1. \A b \in 0 .. 2 : b = 0 \/ b = 1 \/ b = 2
      OBVIOUS
    <3>2. /\ ~ ((4 \div 2^0) % 2 = 1) /\ ~ ((4 \div 2^1) % 2 = 1)
          /\ 4 % 2^2 = 0 /\ (4 \div 2^2) % 2 = 1
      OBVIOUS
    <3> QED
      BY <3>1, <3>2
  <2>2. 2 \in 0 .. 2
    OBVIOUS
  <2> QED
    BY <1>1, <2>1, <2>2 DEF lowest_bit
<1> QED
  BY <1>2, <1>3

\* A round that the table has a row for.
RowFor(w, size, h, row) ==
    /\ size % (2 * h) = 0 /\ 2 * h <= size
    /\ \A j \in 0 .. h - 1 :
          RoundRoots(w, size)[row][j] = field_pow(field_pow(w, size \div (2 * h)), j)

(* A round that finds a row has room for its blocks, and the row is its powers.*)
LEMMA Rows ==
    ASSUME NEW b \in 1 .. 30, NEW size, size = 2^b, NEW w, NEW h \in {2, 4}, NEW row,
           row = (IF h = 2 THEN 0 ELSE 1), row \in DOMAIN RoundRoots(w, size)
    PROVE  RowFor(w, size, h, row)
<1> DEFINE table == RoundRoots(w, size)
<1>0. RowsArePowers(table, w, size, b)
  BY ONLY b \in 1 .. 30, size = 2^b, RoundRootsAre
<1> HIDE DEF table
<1>1. row \in DOMAIN table /\ DOMAIN table = 0 .. b - 2
  BY <1>0 DEF RowsArePowers, table
<1>2. \A j \in 0 .. 2^(row + 1) - 1 :
         table[row][j] = field_pow(field_pow(w, size \div (2 * 2^(row + 1))), j)
  BY <1>0, <1>1 DEF RowsArePowers
<1>3. size % (2 * h) = 0 /\ 2 * h <= size /\ 2^(row + 1) = h
  <2>1. CASE h = 2
    <3>1. b \in 0 .. 31 /\ 2 \in 0 .. 31 /\ 2 <= b /\ b - 2 \in 0 .. 31
      BY <1>1, <2>1
    <3>2. 2^b = 2^2 * 2^(b - 2) /\ 2^(b - 2) \in Nat \ {0}
      BY ONLY <3>1, PowersDivide, PowersDouble
    <3>3. row = 0 /\ 2^(0 + 1) = 2
      BY <2>1
    <3> QED
      BY <2>1, <3>2, <3>3
  <2>2. CASE h = 4
    <3>1. b \in 0 .. 31 /\ 3 \in 0 .. 31 /\ 3 <= b /\ b - 3 \in 0 .. 31
      BY <1>1, <2>2
    <3>2. 2^b = 2^3 * 2^(b - 3) /\ 2^(b - 3) \in Nat \ {0}
      BY ONLY <3>1, PowersDivide, PowersDouble
    <3>3. row = 1 /\ 2^(1 + 1) = 4
      BY <2>2
    <3> QED
      BY <2>2, <3>2, <3>3
  <2> QED
    BY <2>1, <2>2
<1>4. \A j \in 0 .. h - 1 : table[row][j] = field_pow(field_pow(w, size \div (2 * h)), j)
  BY ONLY <1>2, <1>3
<1> QED
  BY ONLY <1>3, <1>4 DEF RowFor, table

-----------------------------------------------------------------------------
\* The array that holds what the rounds have made.
Made == IF call.op \in InPlace /\ AllRoundsMade /\ call.size > 2 THEN coeffs ELSE target

\* The inductive invariant.  The loop variable is even; as long as a round may
\* still come that has a row, target is in the field and has room; and up to
\* blocks of eight what has been made are the blocks' transforms.
RoundsInv(F) ==
    phase = "rounds" =>
        /\ call.op \in Ffts /\ call.size \in Sizes /\ call.input \in Inputs(call.size)
        /\ m \in Nat /\ m >= 2 /\ m % 2 = 0
        /\ DOMAIN coeffs = 0 .. call.size - 1
        /\ m < 6 => target \in [DOMAIN target -> F] /\ 0 .. call.size - 1 \subseteq DOMAIN target
        /\ m <= 6 /\ Block <= call.size =>
              Transforms(Made, Reordered(call.input, call.size), Block, call.size,
                         RootFor(call.op, call.size))

(* The blocks' coefficients as the property finds them.                      *)
LEMMA BlockInputIs ==
    ASSUME NEW F, FieldIn(F), NEW size \in Sizes, TransformFitsIn(F, size), NEW input \in Inputs(size),
           NEW B \in {2, 4, 8}, NEW b \in 0 .. (size \div B) - 1
    PROVE  [x \in 0 .. B - 1 |-> input[reverse_bits(b * B + reverse_bits(x, get_msb(B)), get_msb(size))]]
           = BlockInput(Reordered(input, size), B, b)
<1>1. PICK k \in 1 .. 30 : size = 2^k
  BY DEF TransformFitsIn
<1>2. size \in Nat /\ \A i \in 0 .. size - 1 : input[i] \in F
  BY DEF FieldIn, TransformFitsIn
<1>3. \A i \in 0 .. size - 1 : Reordered(input, size)[i] \in F
  BY <1>1, <1>2, ReorderedIn
<1>4. \A x \in 0 .. B - 1 : b * B + reverse_bits(x, get_msb(B)) \in 0 .. size - 1
  BY <1>2, <1>3, BlockInputIn
<1> QED
  BY <1>4 DEF BlockInput, Reordered

(* It gives the property.                                                    *)
LEMMA RoundsInvImplies ==
    ASSUME NEW F, FieldIn(F), \A size \in Sizes : TransformFitsIn(F, size), RoundsInv(F)
    PROVE  RoundsTransformBlocks
<1> SUFFICES ASSUME phase = "rounds", m <= 6, Block <= call.size
             PROVE  RoundsTransformBlocks
  BY DEF RoundsTransformBlocks
<1> DEFINE size == call.size
           B == Block
           w == RootFor(call.op, size)
           R == Reordered(call.input, size)
           root == field_pow(w, size \div B)
<1>1. /\ size \in Sizes /\ call.input \in Inputs(size)
      /\ Transforms(Made, R, B, size, w)
  BY DEF RoundsInv
<1>2. TransformFitsIn(F, size) /\ B \in {2, 4, 8}
  BY <1>1 DEF Block
<1>3. d.log2_size = get_msb(size) /\ root = field_pow(IF call.op = "ifft_inplace" THEN field_inverse(d.root)
                                                      ELSE d.root, size \div B)
  BY <1>1 DEF d, Domain, new_domain, RootFor
<1>4. \A b \in 0 .. size \div B - 1, t \in 0 .. B - 1 :
         Made[b * B + t] =
         ValueOf([x \in 0 .. B - 1 |->
                    call.input[reverse_bits(b * B + reverse_bits(x, get_msb(B)), d.log2_size)]],
                 B, field_pow(root, t))
  <2> SUFFICES ASSUME NEW b \in 0 .. (size \div B) - 1, NEW t \in 0 .. B - 1
               PROVE  Made[b * B + t] =
                      ValueOf([x \in 0 .. B - 1 |->
                                  call.input[reverse_bits(b * B + reverse_bits(x, get_msb(B)), d.log2_size)]],
                              B, field_pow(root, t))
    OBVIOUS
  <2>1. Made[b * B + t] = ValueOf(BlockInput(R, B, b), B, field_pow(root, t))
    BY <1>1 DEF Transforms
  <2>2. BlockInput(R, B, b) =
        [x \in 0 .. B - 1 |-> call.input[reverse_bits(b * B + reverse_bits(x, get_msb(B)), get_msb(size))]]
    BY <1>1, <1>2, BlockInputIs
  <2> QED
    BY ONLY <1>3, <2>1, <2>2
<1> QED
  BY <1>3, <1>4 DEF RoundsTransformBlocks, Made

(* A call begins with the pairs.                                             *)
LEMMA CallBegins ==
    ASSUME NEW F, FieldIn(F), \A size \in Sizes : TransformFitsIn(F, size),
           available_parallelism < 2^31,
           NEW op \in Ffts, NEW size \in Sizes, NEW input \in Inputs(size), NEW room \in {1, 2},
           CallFft(op, size, input, room * size)
    PROVE  RoundsInv(F)'
<1> DEFINE len == IF op \in InPlace THEN size ELSE room * size
           first == first_fft_round(Domain[size], input, Array(len))
           w == RootFor(op, size)
           R == Reordered(input, size)
<1>1. /\ call' = [op |-> op, size |-> size, input |-> input] /\ m' = 2 /\ target' = first
      /\ coeffs' = [i \in 0 .. size - 1 |-> IF size <= 2 THEN first[i] ELSE input[i]]
  BY DEF CallFft
<1>2. PICK k : OnDomain(F, op, size, k)
  BY Domains
<1>3. size \in Nat /\ len \in Nat /\ size <= len
  BY <1>2 DEF OnDomain
<1>4. FirstRound(F, Domain[size], size, input, R, w, len)
  <2>1. \A i \in 0 .. size - 1 : input[i] \in F
    BY DEF FieldIn, TransformFitsIn
  <2>2. \A i \in 0 .. size - 1 : R[i] \in F
    BY <1>2, <2>1, ReorderedIn DEF OnDomain
  <2>3. \A i \in 0 .. size - 1 : R[i] = input[reverse_bits(i, Domain[size].log2_size)]
    BY <1>2 DEF OnDomain, Reordered
  <2> HIDE DEF R, w, len
  <2> QED
    BY <1>2, <1>3, <2>2, <2>3 DEF FirstRound, OnDomain, FieldIn, w
<1> HIDE DEF R, w, len, first
<1>5. first \in [0 .. len - 1 -> F] /\ Transforms(first, R, 2, size, w)
  BY <1>4, FirstRoundTransforms DEF first
<1>6. /\ target' \in [DOMAIN target' -> F] /\ 0 .. size - 1 \subseteq DOMAIN target'
  BY <1>1, <1>3, <1>5
<1>7. Block' = 2 /\ Made' = target'
  <2>1. Block' = 2
    BY <1>1 DEF Block
  <2>2. (AllRoundsMade /\ call.size > 2)' <=> 2 >= size /\ size > 2
    BY <1>1, <2>1 DEF AllRoundsMade
  <2>3. ~ (2 >= size /\ size > 2)
    BY <1>3
  <2> QED
    BY <2>1, <2>2, <2>3 DEF Made
<1>8. Transforms(Made, Reordered(call.input, call.size), Block, call.size, RootFor(call.op, call.size))'
  <2>1. Transforms(first, R, 2, size, w)
    BY <1>5
  <2>2. /\ Made' = first /\ Block' = 2 /\ call'.size = size
        /\ Reordered(call'.input, call'.size) = R /\ RootFor(call'.op, call'.size) = w
    BY <1>1, <1>7 DEF R, w
  <2> QED
    BY ONLY <2>1, <2>2 DEF Transforms, Reordered, RootFor
<1>9. call'.op \in Ffts /\ call'.size \in Sizes /\ call'.input \in Inputs(call'.size)
  BY <1>1
<1>10. m' \in Nat /\ m' >= 2 /\ m' % 2 = 0 /\ DOMAIN coeffs' = 0 .. call'.size - 1
  BY <1>1
<1> QED
  BY <1>1, <1>6, <1>8, <1>9, <1>10 DEF RoundsInv

(* What a round makes is in the field.                                       *)
LEMMA CombinedIn ==
    ASSUME NEW F, NEW dom, NEW h, NEW a, NEW roots, NEW size, RoundFits(F, dom, h, a, roots, size),
           NEW x \in 0 .. size - 1
    PROVE  CombinedAt(a, h, roots, x) \in F
<1>1. /\ Field(F) /\ h \in {2, 4} /\ size \in Nat /\ size % (2 * h) = 0
      /\ 0 .. size - 1 \subseteq DOMAIN a /\ a \in [DOMAIN a -> F]
      /\ \A j \in 0 .. h - 1 : roots[j] \in F
  BY DEF RoundFits
<1>2. \A y \in 0 .. size - 1 : a[y] \in F
  BY <1>1
<1>3. x % h \in 0 .. h - 1
  BY <1>1
<1>4. /\ x % (2 * h) < h => x + h \in 0 .. size - 1
      /\ ~ (x % (2 * h) < h) => x - h \in 0 .. size - 1
  <2>1. CASE h = 2
    BY <1>1, <2>1
  <2>2. CASE h = 4
    BY <1>1, <2>2
  <2> QED
    BY <1>1, <2>1, <2>2
<1>5. \A y, z \in F : field_add(y, z) \in F /\ field_sub(y, z) \in F /\ field_mul(y, z) \in F
  BY <1>1, AddLaws, MulLaws DEF Field
<1> QED
  BY <1>2, <1>1, <1>3, <1>4, <1>5 DEF CombinedAt

(* A round doubles the blocks, in the target or in the coefficients.         *)
LEMMA RoundKeeps ==
    ASSUME NEW F, FieldIn(F), \A size \in Sizes : TransformFitsIn(F, size),
           available_parallelism < 2^31, RoundsInv(F), FftRound
    PROVE  RoundsInv(F)'
<1> DEFINE size == call.size
           dom == Domain[size]
           w == RootFor(call.op, size)
           table == TableFor(call.op, size)
           roots == table[RootRow]
           R == Reordered(call.input, size)
<1>1. /\ phase = "rounds" /\ m' = m + 2 /\ call' = call
      /\ call.op \in Ffts /\ size \in Sizes /\ call.input \in Inputs(size)
      /\ m \in Nat /\ m >= 2 /\ m % 2 = 0
      /\ DOMAIN coeffs = 0 .. size - 1
      /\ m < 6 => target \in [DOMAIN target -> F] /\ 0 .. size - 1 \subseteq DOMAIN target
  BY DEF FftRound, MoreRounds, RoundsInv
<1>2. m' \in Nat /\ m' >= 2 /\ m' % 2 = 0
  BY <1>1
<1>3. round_root_table = table /\ d = dom
  BY DEF round_root_table, d, TableFor
<1>4. DOMAIN coeffs' = 0 .. size - 1
  BY <1>1 DEF FftRound, final_fft_round
<1>5. CASE m >= 6
  <2>1. ~ (m' < 6) /\ ~ (m' <= 6)
    BY <1>1, <1>5
  <2> QED
    BY <1>1, <1>2, <1>4, <2>1 DEF RoundsInv
<1>6. CASE m \in {2, 4}
  <2>1. PICK b : OnDomain(F, call.op, size, b)
    BY <1>1, Domains
  <2>2. /\ b \in 1 .. 30 /\ size = 2^b /\ size \in Nat /\ w \in F
        /\ field_pow(w, size \div 2) = negated(One) /\ table = RoundRoots(w, size) /\ Shared(dom, size)
    BY <2>1 DEF OnDomain
  <2>3. RootRow = (IF m = 2 THEN 0 ELSE 1)
    <3>1. get_msb(2) - 1 = 0 /\ get_msb(4) - 1 = 1 /\ lowest_bit(2) - 1 = 0 /\ lowest_bit(4) - 1 = 1
      BY SmallMsb, LowestBits
    <3> QED
      BY <1>6, <3>1 DEF RootRow
  <2>4. RootRow \in DOMAIN table
    BY <1>3 DEF FftRound, RoundPanics
  <2>5. /\ size % (2 * m) = 0 /\ 2 * m <= size
        /\ \A j \in 0 .. m - 1 : roots[j] = field_pow(field_pow(w, size \div (2 * m)), j)
    <3> DEFINE row == RootRow
    <3> HIDE DEF row, w, table, size
    <3>1. RowFor(w, size, m, row)
      BY <1>6, <2>2, <2>3, <2>4, Rows DEF row
    <3> QED
      BY <2>2, <3>1 DEF RowFor, row
  <2>6. \A j \in 0 .. m - 1 : roots[j] \in F
    <3>1. Field(F) /\ size \div (2 * m) \in Nat
      BY <1>6, <2>2 DEF FieldIn
    <3>2. \A x \in F : \A j \in Nat : field_pow(x, j) \in F
      BY <3>1, PowerLaws
    <3>3. \A j \in 0 .. m - 1 : j \in Nat
      OBVIOUS
    <3> HIDE DEF roots, w
    <3> QED
      BY <2>2, <2>5, <3>1, <3>2, <3>3
  <2>7. RoundFits(F, dom, m, target, roots, size)
    <3> HIDE DEF roots, dom, size
    <3>1. Field(F) /\ target \in [DOMAIN target -> F] /\ 0 .. size - 1 \subseteq DOMAIN target
      BY <1>1, <1>6 DEF FieldIn
    <3>2. 2 * Iterations(dom) = size /\ Iterations(dom) \in Nat
      BY ONLY <2>2 DEF Shared
    <3> QED
      BY ONLY <1>6, <2>2, <2>5, <2>6, <3>1, <3>2 DEF RoundFits
  <2>8. Block = m /\ ~ AllRoundsMade /\ Made = target
    <3>1. Block = m
      BY <1>6 DEF Block
    <3>2. ~ (m >= size)
      BY <1>6, <2>2, <2>5
    <3> QED
      BY <3>1, <3>2 DEF AllRoundsMade, Made
  <2>9. Transforms(target, R, m, size, w)
    <3>1. m <= 6 /\ Block <= size
      BY <1>6, <2>2, <2>5, <2>8
    <3>2. Transforms(Made, R, Block, size, w)
      BY <1>1, <3>1 DEF RoundsInv
    <3> QED
      BY ONLY <2>8, <3>2
  <2>10. Block' = 2 * m
    BY <1>1, <1>6 DEF Block
  <2>11. \A i \in 0 .. size - 1 : R[i] \in F
    <3>1. \A i \in 0 .. size - 1 : call.input[i] \in F
      BY <1>1 DEF FieldIn, TransformFitsIn
    <3> QED
      BY <2>2, <3>1, ReorderedIn
  <2>12. ASSUME NEW made, \A x \in 0 .. size - 1 : made[x] = CombinedAt(target, m, roots, x)
         PROVE  Transforms(made, R, 2 * m, size, w)
    <3> HIDE DEF R, roots, w, size
    <3>1. TransformRound(F, m, size, R, w, roots, target, made)
      BY <1>6, <2>2, <2>5, <2>11, <2>12 DEF TransformRound, FieldIn
    <3> QED
      BY <2>9, <3>1, RoundTransforms
  <2>13. CASE call.op \in InPlace /\ m = size \div 2
    <3>1. coeffs' = final_fft_round(dom, m, target, coeffs, roots) /\ target' = target
      BY <1>3, <2>13 DEF FftRound
    <3> DEFINE made == final_fft_round(dom, m, target, coeffs, roots)
    <3>2. \A x \in 0 .. size - 1 : made[x] = CombinedAt(target, m, roots, x)
      <4> SUFFICES ASSUME NEW x \in 0 .. size - 1 PROVE made[x] = CombinedAt(target, m, roots, x)
        OBVIOUS
      <4>1. x \in DOMAIN coeffs
        BY <1>1
      <4> HIDE DEF roots, size, dom
      <4> QED
        BY ONLY <2>7, <4>1, x \in 0 .. size - 1, FinalRoundCombines
    <3> HIDE DEF made
    <3>3. Transforms(made, R, 2 * m, size, w)
      BY <2>12, <3>2
    <3>4. Made' = made
      <4>1. 2 * m >= size /\ size > 2
        BY <1>6, <2>2, <2>5, <2>13
      <4> QED
        BY <1>1, <2>10, <2>13, <3>1, <4>1 DEF Made, AllRoundsMade, made
    <3>5. Transforms(Made', Reordered(call'.input, call'.size), Block', call'.size,
                    RootFor(call'.op, call'.size))
      BY ONLY <1>1, <2>10, <3>3, <3>4
    <3> QED
      <4>1. target' \in [DOMAIN target' -> F] /\ 0 .. size - 1 \subseteq DOMAIN target'
        BY <1>1, <1>6, <3>1
      <4> QED
        BY ONLY <1>1, <1>2, <1>4, <3>5, <4>1 DEF RoundsInv
  <2>14. CASE ~ (call.op \in InPlace /\ m = size \div 2)
    <3>1. target' = fft_round(dom, m, target, roots) /\ coeffs' = coeffs
      BY <1>3, <2>14 DEF FftRound
    <3>2. fft_round(dom, m, target, roots) =
          [x \in DOMAIN target |-> IF x \in 0 .. size - 1 THEN CombinedAt(target, m, roots, x) ELSE target[x]]
      BY <2>7, RoundCombines
    <3>3. target \in [DOMAIN target -> F] /\ 0 .. size - 1 \subseteq DOMAIN target
      BY <1>1, <1>6
    <3>4. DOMAIN target' = DOMAIN target
      BY ONLY <3>1, <3>2
    <3>5. \A x \in 0 .. size - 1 : target'[x] = CombinedAt(target, m, roots, x)
      BY ONLY <3>1, <3>2, <3>3
    <3>6. \A x \in 0 .. size - 1 : CombinedAt(target, m, roots, x) \in F
      <4> HIDE DEF roots, size
      <4> QED
        BY <2>7, CombinedIn
    <3>7. target' \in [DOMAIN target' -> F] /\ 0 .. size - 1 \subseteq DOMAIN target'
      BY ONLY <3>1, <3>2, <3>3, <3>4, <3>6
    <3>8. Transforms(target', R, 2 * m, size, w)
      BY <2>12, <3>5
    <3>9. Made' = target'
      <4>1. call.op \in InPlace => ~ (2 * m >= size)
        BY <1>6, <2>2, <2>5, <2>14
      <4> QED
        BY <1>1, <2>10, <4>1 DEF Made, AllRoundsMade
    <3>10. Transforms(Made', Reordered(call'.input, call'.size), Block', call'.size,
                     RootFor(call'.op, call'.size))
      BY ONLY <1>1, <2>10, <3>8, <3>9
    <3> QED
      BY ONLY <1>1, <1>2, <1>4, <3>7, <3>10 DEF RoundsInv
  <2> QED
    BY <2>13, <2>14
<1>7. m >= 6 \/ m \in {2, 4}
  BY <1>1
<1> QED
  BY <1>5, <1>6, <1>7

(* It is kept by every step: a call makes the first round, and a round the next.*)
LEMMA NextRounds ==
    ASSUME NEW F, FieldIn(F), \A size \in Sizes : TransformFitsIn(F, size),
           available_parallelism < 2^31, RoundsInv(F), [Next]_vars
    PROVE  RoundsInv(F)'
<1> SUFFICES ASSUME phase' = "rounds" PROVE RoundsInv(F)'
  BY DEF RoundsInv
<1>1. ASSUME NEW op \in Ffts, NEW size \in Sizes, NEW input \in Inputs(size), NEW room \in {1, 2},
             CallFft(op, size, input, room * size)
      PROVE  RoundsInv(F)'
  BY <1>1, CallBegins
<1>2. CASE FftRound
  BY <1>2, RoundKeeps
<1>3. CASE UNCHANGED vars
  BY <1>3 DEF vars, RoundsInv, Made, Block, AllRoundsMade
<1>4. \/ \E op \in Ffts, size \in Sizes : \E input \in Inputs(size), room \in {1, 2} :
            CallFft(op, size, input, room * size)
      \/ FftRound \/ UNCHANGED vars
  BY DEF Next, FftPanics, FftReturns, CallSerialFft, CallPartialFft, CallPartialFftInPlace, CallEvaluate,
         CallLagrange, CallProduct, CallInterpolate, Computes, CallNew, AddAssign, SubAssign, MulAssign,
         Operates, Return
<1> QED
  BY <1>1, <1>2, <1>3, <1>4

(* What the rounds of fft_inner_parallel have made when a round begins and   *)
(* when the last has ended: each block is the transform of the coefficients  *)
(* whose places in it the bit reversal gives, at the root or its inverse; and*)
(* it is in the array the function goes on with, the caller's or the target. *)
(* For every field, all sizes that are powers of two, all coefficients and any*)
(* number of threads.                                                        *)
THEOREM TransformsAreRight ==
    ASSUME TransformsFit
    PROVE  Spec => []RoundsTransformBlocks
<1>0. PICK F : FieldIn(F) /\ \A size \in Sizes : TransformFitsIn(F, size)
  BY DEF TransformsFit, SerialFits
<1>1. Init => RoundsInv(F)
  BY DEF Init, RoundsInv
<1>2. RoundsInv(F) /\ [Next]_vars => RoundsInv(F)'
  BY <1>0, NextRounds DEF TransformsFit
<1>3. RoundsInv(F) => RoundsTransformBlocks
  BY <1>0, RoundsInvImplies
<1>4. QED
  BY <1>1, <1>2, <1>3, PTL DEF Spec

-----------------------------------------------------------------------------
(* The serial FFT.                                                          *)

\* The transform of four coefficients, at the power t of the root.
FourValue(c, w, t) ==
    LET even == IF t % 2 = 0 THEN field_add(c[0], c[2]) ELSE field_sub(c[0], c[2])
        odd == IF t % 2 = 0 THEN field_add(c[1], c[3]) ELSE field_sub(c[1], c[3])
    IN  IF t < 2 THEN field_add(even, field_mul(field_pow(w, t), odd))
        ELSE field_sub(even, field_mul(field_pow(w, t - 2), odd))

(* The first two powers.                                                     *)
LEMMA SmallPowers ==
    ASSUME NEW F, Field(F), NEW w \in F
    PROVE  field_pow(w, 0) = One /\ field_pow(w, 1) = w
<1>1. field_pow(w, 0) = One /\ field_pow(w, 0 + 1) = field_mul(w, field_pow(w, 0))
  BY DEF Field
<1>2. field_mul(w, One) = w
  BY MulLaws
<1>3. 0 + 1 = 1
  OBVIOUS
<1> QED
  BY ONLY <1>1, <1>2, <1>3

(* Two terms at 1 and at -1.                                                 *)
LEMMA ValueAtSign ==
    ASSUME NEW F, Field(F), NEW c, c[0] \in F, c[1] \in F, NEW z, NEW u \in {0, 1},
           z = IF u = 0 THEN One ELSE negated(One)
    PROVE  ValueOf(c, 2, z) = IF u = 0 THEN field_add(c[0], c[1]) ELSE field_sub(c[0], c[1])
<1>1. One \in F /\ negated(One) \in F
  BY MulLaws, ZeroLaws
<1>2. ValueOf(c, 2, z) = field_add(c[0], field_mul(c[1], z))
  BY <1>1, ValueOfTwo
<1>3. field_mul(c[1], One) = c[1]
  BY MulLaws
<1>4. field_mul(c[1], negated(One)) = negated(c[1])
  <2>1. field_mul(c[1], negated(One)) = negated(field_mul(c[1], One))
    BY <1>1, SubLaws
  <2> QED
    BY <1>3, <2>1
<1>5. field_sub(c[0], c[1]) = field_add(c[0], negated(c[1]))
  BY ZeroLaws
<1> QED
  BY <1>2, <1>3, <1>4, <1>5

(* The value of four coefficients at each power of the root.                 *)
LEMMA FourValues ==
    ASSUME NEW F, Field(F), NEW c, \A i \in 0 .. 3 : c[i] \in F,
           NEW w \in F, field_pow(w, 2) = negated(One), NEW t \in 0 .. 3
    PROVE  ValueOf(c, 4, field_pow(w, t)) = FourValue(c, w, t)
<1> DEFINE z == field_pow(w, t)
           ce == [i \in 0 .. 1 |-> c[2 * i]]
           co == [i \in 0 .. 1 |-> c[2 * i + 1]]
           u == t % 2
<1>1. 4 \div (2 * 2) = 1 /\ 4 \div 2 = 2 /\ 4 % (2 * 2) = 0 /\ 2 \in {2, 4} /\ 4 \in Nat
  OBVIOUS
<1>2. RootsHalve(F, 2, w, negated(One))
  <2>1. field_pow(w, 4 \div 2) = negated(One)
    BY <1>1
  <2>2. RootsHalve(F, 2, field_pow(w, 4 \div (2 * 2)), field_pow(w, 4 \div 2))
    BY ONLY <1>1, <2>1, Field(F), w \in F, RootsOfRounds
  <2>3. field_pow(w, 4 \div (2 * 2)) = w
    BY <1>1, SmallPowers
  <2> QED
    BY ONLY <2>1, <2>2, <2>3
<1>3. negated(One) \in F
  BY ZeroLaws, MulLaws
<1>4. z \in F /\ field_pow(z, 2) = (IF u = 0 THEN One ELSE negated(One)) /\ u \in {0, 1}
  <2>1. u \in {0, 1} /\ t \in 0 .. 2 * 2 - 1
    OBVIOUS
  <2>2. z \in F /\ field_pow(z, 2) = field_pow(negated(One), u)
    BY <1>2, <2>1 DEF RootsHalve
  <2>3. field_pow(negated(One), 0) = One /\ field_pow(negated(One), 1) = negated(One)
    BY <1>3, SmallPowers
  <2> HIDE DEF u
  <2> QED
    BY <2>1, <2>2, <2>3
<1>5. ~ (t < 2) => z = negated(field_pow(w, t - 2)) /\ field_pow(w, t - 2) \in F
  <2> SUFFICES ASSUME ~ (t < 2)
               PROVE  z = negated(field_pow(w, t - 2)) /\ field_pow(w, t - 2) \in F
    OBVIOUS
  <2>1. t - 2 \in 0 .. 2 - 1 /\ t - 2 \in 0 .. 2 * 2 - 1 /\ t - 2 + 2 = t
    OBVIOUS
  <2> DEFINE v == t - 2
  <2> HIDE DEF v
  <2>2. field_pow(w, v + 2) = negated(field_pow(w, v)) /\ field_pow(w, v) \in F
    BY <1>2, <2>1 DEF RootsHalve, v
  <2> QED
    BY <2>1, <2>2 DEF v
<1>6. /\ ce[0] = c[0] /\ ce[1] = c[2] /\ co[0] = c[1] /\ co[1] = c[3]
      /\ c[0] \in F /\ c[1] \in F /\ c[2] \in F /\ c[3] \in F
  OBVIOUS
<1>7. Halves(F, 2, c, ce, co)
  BY DEF Halves
<1> DEFINE even == ValueOf(ce, 2, field_pow(z, 2))
           odd == ValueOf(co, 2, field_pow(z, 2))
<1> HIDE DEF ce, co, z, u
<1>8. even = IF u = 0 THEN field_add(c[0], c[2]) ELSE field_sub(c[0], c[2])
  BY <1>4, <1>6, ValueAtSign
<1>9. odd = IF u = 0 THEN field_add(c[1], c[3]) ELSE field_sub(c[1], c[3])
  BY <1>4, <1>6, ValueAtSign
<1>10. even \in F /\ odd \in F /\ ValueOf(c, 2 * 2, z) = field_add(even, field_mul(z, odd))
  BY ONLY Field(F), 2 \in Nat, <1>4, <1>7, ValueInHalves
<1>11. ValueOf(c, 4, z) = field_add(even, field_mul(z, odd))
  <2>1. 2 * 2 = 4
    OBVIOUS
  <2> QED
    BY ONLY <1>10, <2>1
<1> HIDE DEF even, odd
<1>12. CASE t < 2
  BY <1>8, <1>9, <1>11, <1>12 DEF FourValue, z, u
<1>13. CASE ~ (t < 2)
  <2> DEFINE p == field_pow(w, t - 2)
  <2>1. z = negated(p) /\ p \in F
    BY <1>5, <1>13
  <2> HIDE DEF p
  <2>2. field_mul(negated(p), odd) = negated(field_mul(p, odd)) /\ field_mul(p, odd) \in F
    BY <1>10, <2>1, ZeroLaws, MulLaws
  <2>3. field_sub(even, field_mul(p, odd)) = field_add(even, negated(field_mul(p, odd)))
    BY <1>10, <2>2, ZeroLaws
  <2>4. ValueOf(c, 4, z) = field_sub(even, field_mul(p, odd))
    BY <1>11, <2>1, <2>2, <2>3
  <2> QED
    BY <1>8, <1>9, <1>13, <2>4 DEF FourValue, z, u, p
<1> QED
  BY <1>12, <1>13

\* What the reversal leaves of four coefficients.
Copied(c) == [x \in 0 .. 3 |-> IF x = 1 THEN c[2] ELSE c[x]]

(* The serial FFT of four coefficients is the transform of what is left.     *)
LEMMA SerialFour ==
    ASSUME NEW F, Field(F), NEW c \in [0 .. 3 -> F], NEW w \in F, NEW table,
           \A j \in 0 .. 1 : table[0][j] = field_pow(w, j)
    PROVE  fft_inner_serial(c, 4, table) = [t \in 0 .. 3 |-> FourValue(Copied(c), w, t)]
<1> DEFINE e == Copied(c)
           P == FirstPairs(e)
<1>1. BitReversed(c, 4) = e
  <2>1. 2 \in 1 .. 30 /\ 4 = 2^2 /\ 4 - 1 = 3
    OBVIOUS
  <2>2. BitReversed(c, 4) = CopiedTo(c, 2, 4)
    BY ONLY <2>1, c \in [0 .. 3 -> F], BitReversedIs
  <2>3. \A x \in 0 .. 3 : x < 4 /\ (x = 0 \/ x = 1 \/ x = 2 \/ x = 3)
    OBVIOUS
  <2>4. ~ (0 < 0) /\ 1 < 2 /\ ~ (2 < 1) /\ ~ (3 < 3)
    OBVIOUS
  <2>5. \A x \in 0 .. 3 : (IF x < 4 /\ x < reverse_bits(x, 2) THEN c[reverse_bits(x, 2)] ELSE c[x])
                          = (IF x = 1 THEN c[2] ELSE c[x])
    BY <2>3, <2>4, SmallReversals
  <2>6. DOMAIN c = 0 .. 3
    OBVIOUS
  <2> QED
    BY <2>2, <2>5, <2>6 DEF CopiedTo, Copied
<1>2. /\ e = [x \in 0 .. 3 |-> e[x]] /\ DOMAIN e = 0 .. 3
      /\ e[0] = c[0] /\ e[1] = c[2] /\ e[2] = c[2] /\ e[3] = c[3]
  BY DEF Copied
<1> HIDE DEF e
<1>3. /\ P = [x \in 0 .. 3 |-> P[x]] /\ DOMAIN P = 0 .. 3
      /\ P[0] = field_add(e[0], e[1]) /\ P[1] = field_sub(e[0], e[1])
      /\ P[2] = field_add(e[2], e[3]) /\ P[3] = field_sub(e[2], e[3])
  BY <1>2 DEF FirstPairs
<1> HIDE DEF P
<1> DEFINE p0 == field_pow(w, 0)
           p1 == field_pow(w, 1)
           B1 == Butterfly(P, p0, 0, 2)
           B2 == Butterfly(B1, p1, 1, 2)
<1>4. fft_inner_serial(c, 4, table) = B2
  <2>1. table[0][0] = p0 /\ table[0][1] = p1 /\ 0 + 0 = 0 /\ 0 + 1 = 1
    OBVIOUS
  <2>2. fft_inner_serial(c, 4, table) = BlockOfTwo(table, P, 0)
    BY <1>1, SerialOfFour DEF P
  <2> QED
    BY <2>1, <2>2 DEF BlockOfTwo
<1> HIDE DEF p0, p1
<1>5. /\ B1 = [P EXCEPT ![2] = field_sub(P[0], field_mul(p0, P[2])),
                        ![0] = field_add(P[0], field_mul(p0, P[2]))]
  BY DEF Butterfly
<1>6. /\ DOMAIN B1 = 0 .. 3 /\ B1[1] = P[1] /\ B1[3] = P[3]
      /\ B1[0] = field_add(P[0], field_mul(p0, P[2])) /\ B1[2] = field_sub(P[0], field_mul(p0, P[2]))
  BY <1>3, <1>5
<1> HIDE DEF B1
<1>7. B2 = [B1 EXCEPT ![3] = field_sub(B1[1], field_mul(p1, B1[3])),
                      ![1] = field_add(B1[1], field_mul(p1, B1[3]))]
  BY DEF Butterfly
<1>8. /\ DOMAIN B2 = 0 .. 3 /\ B2 = [t \in 0 .. 3 |-> B2[t]]
      /\ B2[0] = B1[0] /\ B2[2] = B1[2]
      /\ B2[1] = field_add(P[1], field_mul(p1, P[3])) /\ B2[3] = field_sub(P[1], field_mul(p1, P[3]))
  <2> HIDE DEF B2
  <2>1. DOMAIN B2 = 0 .. 3 /\ B2 = [t \in 0 .. 3 |-> B2[t]]
    BY <1>6, <1>7
  <2>2. B2[0] = B1[0] /\ B2[2] = B1[2]
    BY <1>6, <1>7
  <2>3. B2[1] = field_add(P[1], field_mul(p1, P[3])) /\ B2[3] = field_sub(P[1], field_mul(p1, P[3]))
    BY <1>6, <1>7
  <2> QED
    BY <2>1, <2>2, <2>3
<1> HIDE DEF B2
<1>9. \A t \in 0 .. 3 : B2[t] = FourValue(e, w, t)
  <2>1. e[1] = e[2] 
    BY <1>2
  <2>2. FourValue(e, w, 0) = field_add(field_add(e[0], e[2]), field_mul(p0, field_add(e[1], e[3])))
    BY DEF FourValue, p0
  <2>3. FourValue(e, w, 1) = field_add(field_sub(e[0], e[2]), field_mul(p1, field_sub(e[1], e[3])))
    BY DEF FourValue, p1
  <2>4. FourValue(e, w, 2) = field_sub(field_add(e[0], e[2]), field_mul(p0, field_add(e[1], e[3])))
    BY DEF FourValue, p0
  <2>5. FourValue(e, w, 3) = field_sub(field_sub(e[0], e[2]), field_mul(p1, field_sub(e[1], e[3])))
    BY DEF FourValue, p1
  <2>6. /\ B2[0] = FourValue(e, w, 0) /\ B2[1] = FourValue(e, w, 1)
        /\ B2[2] = FourValue(e, w, 2) /\ B2[3] = FourValue(e, w, 3)
    BY ONLY <1>3, <1>6, <1>8, <2>1, <2>2, <2>3, <2>4, <2>5
  <2>7. \A t \in 0 .. 3 : t = 0 \/ t = 1 \/ t = 2 \/ t = 3
    OBVIOUS
  <2> QED
    BY ONLY <2>6, <2>7
<1> QED
  BY <1>4, <1>8, <1>9 DEF e

(* The table has no row for the second round that is none.                   *)
LEMMA SerialIsSmall ==
    ASSUME NEW b \in 1 .. 30, NEW size, size = 2^b, NEW w, NEW num_polys,
           ~ SerialFftPanics(num_polys, size, RoundRoots(w, size))
    PROVE  size \in {2, 4}
<1> DEFINE table == RoundRoots(w, size)
<1>1. RowsArePowers(table, w, size, b)
  BY ONLY b \in 1 .. 30, size = 2^b, RoundRootsAre
<1> HIDE DEF table
<1>2. CASE b \in {1, 2}
  <2>1. 2^1 = 2 /\ 2^2 = 4
    OBVIOUS
  <2> QED
    BY <1>2, <2>1
<1>3. CASE b >= 3
  <2>1. b \in 0 .. 31 /\ 3 \in 0 .. 31 /\ 3 <= b /\ b - 3 \in 0 .. 31 /\ 1 \in 0 .. b - 2
    BY <1>3
  <2>2. 2^b = 2^3 * 2^(b - 3) /\ 2^(b - 3) \in Nat \ {0}
    BY ONLY <2>1, PowersDivide, PowersDouble
  <2>3. 6 \in 3 .. size - 1 /\ 6 % 2 = 0
    BY <2>2
  <2>4. get_msb(6) - 1 = 1
    BY SmallMsb
  <2>5. DOMAIN table[1] = 0 .. 3
    <3>1. 2^(1 + 1) - 1 = 3
      OBVIOUS
    <3> QED
      BY <1>1, <2>1, <3>1 DEF RowsArePowers
  <2>6. Cardinality(0 .. 3) = 4
    <3>1. 0 \in Int /\ 3 \in Int /\ ~ (0 > 3) /\ 3 - 0 + 1 = 4
      OBVIOUS
    <3>2. Cardinality(0 .. 3) = IF 0 > 3 THEN 0 ELSE 3 - 0 + 1
      BY ONLY <3>1, FS_Interval
    <3> QED
      BY ONLY <3>1, <3>2
  <2>7. 6 > Cardinality(DOMAIN table[get_msb(6) - 1])
    BY ONLY <2>4, <2>5, <2>6, 6 > 4
  <2>8. SerialFftPanics(num_polys, size, table)
    BY <2>3, <2>7 DEF SerialFftPanics
  <2> QED
    BY <2>8 DEF table
<1> QED
  BY <1>2, <1>3

\* What the serial FFT gives is the transform if its input is one that the bit
\* reversal leaves as it is.
TransformsSymmetric(result, input, size, root, bits) ==
    LET transform == [t \in 0 .. size - 1 |-> ValueOf(input, size, field_pow(root, t))]
    IN  (\A i \in 0 .. size - 1 : input[i] = input[reverse_bits(i, bits)]) => result = transform

(* Of four coefficients the transform comes out when the second is the third.*)
LEMMA FourTransformed ==
    ASSUME NEW F, Field(F), NEW c \in [0 .. 3 -> F], NEW w \in F, field_pow(w, 2) = negated(One)
    PROVE  TransformsSymmetric(fft_inner_serial(c, 4, RoundRoots(w, 4)), c, 4, w, get_msb(4))
<1> DEFINE table == RoundRoots(w, 4)
           result == fft_inner_serial(c, 4, table)
           e == Copied(c)
<1>1. \A j \in 0 .. 1 : table[0][j] = field_pow(w, j)
  <2>1. 2 \in 1 .. 30 /\ 4 = 2^2 /\ 0 \in 0 .. 2 - 2 /\ 2^(0 + 1) - 1 = 1 /\ 4 \div (2 * 2^(0 + 1)) = 1
    OBVIOUS
  <2>2. RowsArePowers(table, w, 4, 2)
    BY ONLY <2>1, RoundRootsAre
  <2>3. \A j \in 0 .. 1 : table[0][j] = field_pow(field_pow(w, 1), j)
    <3> HIDE DEF table
    <3>1. \A j \in 0 .. 2^(0 + 1) - 1 : table[0][j] = field_pow(field_pow(w, 4 \div (2 * 2^(0 + 1))), j)
      BY ONLY <2>1, <2>2 DEF RowsArePowers
    <3> QED
      BY ONLY <2>1, <3>1
  <2>4. field_pow(w, 1) = w
    BY SmallPowers
  <2> QED
    BY ONLY <2>3, <2>4
<1>2. result = [t \in 0 .. 3 |-> FourValue(e, w, t)]
  <2> HIDE DEF table
  <2> QED
    BY <1>1, SerialFour
<1>3. /\ e = [x \in 0 .. 3 |-> e[x]] /\ c = [x \in 0 .. 3 |-> c[x]]
      /\ e[0] = c[0] /\ e[1] = c[2] /\ e[2] = c[2] /\ e[3] = c[3]
      /\ c[0] \in F /\ c[1] \in F /\ c[2] \in F /\ c[3] \in F
  BY DEF Copied
<1>4. \A t \in 0 .. 3 : ValueOf(c, 4, field_pow(w, t)) = FourValue(c, w, t)
  BY FourValues
<1> HIDE DEF result, e
<1>5. c[1] = c[2] => e = c
  <2>1. \A x \in 0 .. 3 : x = 0 \/ x = 1 \/ x = 2 \/ x = 3
    OBVIOUS
  <2>2. c[1] = c[2] => \A x \in 0 .. 3 : e[x] = c[x]
    BY <1>3, <2>1
  <2> QED
    BY <1>3, <2>2
<1>6. (\A i \in 0 .. 3 : c[i] = c[reverse_bits(i, 2)]) => c[1] = c[2]
  <2>1. 1 \in 0 .. 3
    OBVIOUS
  <2> QED
    BY <2>1, SmallReversals
<1>7. c[1] = c[2] => result = [t \in 0 .. 3 |-> ValueOf(c, 4, field_pow(w, t))]
  <2>1. [t \in 0 .. 3 |-> ValueOf(c, 4, field_pow(w, t))] = [t \in 0 .. 3 |-> FourValue(c, w, t)]
    BY <1>4
  <2> QED
    BY <1>2, <1>5, <2>1
<1>8. 4 - 1 = 3 /\ get_msb(4) = 2
  BY SmallMsb
<1> QED
  BY ONLY <1>6, <1>7, <1>8 DEF TransformsSymmetric, result, table

(* Of two it always comes out: nothing moves.                                *)
LEMMA TwoTransformed ==
    ASSUME NEW F, Field(F), NEW c \in [0 .. 1 -> F], NEW w \in F, field_pow(w, 1) = negated(One)
    PROVE  TransformsSymmetric(fft_inner_serial(c, 2, RoundRoots(w, 2)), c, 2, w, get_msb(2))
<1> DEFINE result == fft_inner_serial(c, 2, RoundRoots(w, 2))
<1>1. BitReversed(c, 2) = c
  <2>1. 1 \in 1 .. 30 /\ 2 = 2^1 /\ 2 - 1 = 1
    OBVIOUS
  <2>2. BitReversed(c, 2) = CopiedTo(c, 1, 2)
    BY ONLY <2>1, c \in [0 .. 1 -> F], BitReversedIs
  <2>3. \A x \in 0 .. 1 : x = 0 \/ x = 1
    OBVIOUS
  <2>4. \A x \in 0 .. 1 : ~ (x < reverse_bits(x, 1))
    BY <2>3, SmallReversals
  <2>5. DOMAIN c = 0 .. 1 /\ c = [x \in 0 .. 1 |-> c[x]]
    OBVIOUS
  <2> QED
    BY <2>2, <2>4, <2>5 DEF CopiedTo
<1>2. result = FirstPairs(c)
  BY <1>1, SerialOfTwo
<1>3. /\ DOMAIN FirstPairs(c) = 0 .. 1 /\ FirstPairs(c) = [x \in 0 .. 1 |-> FirstPairs(c)[x]]
      /\ FirstPairs(c)[0] = field_add(c[0], c[1]) /\ FirstPairs(c)[1] = field_sub(c[0], c[1])
  BY DEF FirstPairs
<1>4. c[0] \in F /\ c[1] \in F
  OBVIOUS
<1>5. \A t \in 0 .. 1 : ValueOf(c, 2, field_pow(w, t)) = FirstPairs(c)[t]
  <2> SUFFICES ASSUME NEW t \in {0, 1}
               PROVE  ValueOf(c, 2, field_pow(w, t)) = FirstPairs(c)[t]
    OBVIOUS
  <2>1. field_pow(w, t) = IF t = 0 THEN One ELSE negated(One)
    BY SmallPowers
  <2> DEFINE z == field_pow(w, t)
  <2> HIDE DEF z
  <2>2. ValueOf(c, 2, z) = IF t = 0 THEN field_add(c[0], c[1]) ELSE field_sub(c[0], c[1])
    BY <1>4, <2>1, ValueAtSign DEF z
  <2> QED
    BY <1>3, <2>2 DEF z
<1> HIDE DEF result
<1>6. result = [t \in 0 .. 1 |-> ValueOf(c, 2, field_pow(w, t))]
  BY <1>2, <1>3, <1>5
<1>7. 2 - 1 = 1 /\ get_msb(2) = 1
  BY SmallMsb
<1> QED
  BY ONLY <1>6, <1>7 DEF TransformsSymmetric, result

(* A call keeps it, by its size.                                             *)
LEMMA NextSymmetry ==
    ASSUME SerialFits, SerialFftTransformsSymmetric, [Next]_vars
    PROVE  SerialFftTransformsSymmetric'
<1> SUFFICES ASSUME Finished("fft_inner_serial")' PROVE SerialFftTransformsSymmetric'
  BY DEF SerialFftTransformsSymmetric
<1>0. PICK F : FieldIn(F) /\ \A size \in Sizes : TransformFitsIn(F, size)
  BY DEF SerialFits
<1>1. \/ Finished("fft_inner_serial") /\ UNCHANGED <<call, target>>
      \/ Called("fft_inner_serial")
  BY ResultsAreComputed DEF Ffts, InPlace
<1>2. CASE Finished("fft_inner_serial") /\ UNCHANGED <<call, target>>
  BY <1>2 DEF SerialFftTransformsSymmetric, d
<1>3. CASE Called("fft_inner_serial")
  <2>0. PICK size \in Sizes : \E input \in Inputs(size), num_polys \in {1, 2} :
           CallSerialFft(num_polys, size, input)
    BY <1>3 DEF Called
  <2>1. PICK input \in Inputs(size), num_polys \in {1, 2} : CallSerialFft(num_polys, size, input)
    BY <2>0
  <2> DEFINE w == Domain[size].root
             table == Domain[size].round_roots
             result == fft_inner_serial(input, size, table)
  <2>2. /\ call' = [op |-> "fft_inner_serial", size |-> size, input |-> input]
        /\ ~ SerialFftPanics(num_polys, size, table) /\ target' = result
    BY <2>1 DEF CallSerialFft, Computes, Finished
  <2>3. table = RoundRoots(w, size) /\ Domain[size].log2_size = get_msb(size)
    BY DEF Domain, new_domain
  <2>4. /\ Field(F) /\ w \in F /\ field_pow(w, size \div 2) = negated(One)
        /\ input \in [0 .. size - 1 -> F]
    BY <1>0 DEF FieldIn, TransformFitsIn
  <2>5. PICK b \in 1 .. 30 : size = 2^b
    BY <1>0 DEF TransformFitsIn
  <2> HIDE DEF w, table
  <2>6. size \in {2, 4}
    BY <2>2, <2>3, <2>5, SerialIsSmall
  <2>7. TransformsSymmetric(result, input, size, w, get_msb(size))
    <3>1. CASE size = 2
      <4>1. 2 - 1 = 1 /\ 2 \div 2 = 1
        OBVIOUS
      <4>2. input \in [0 .. 1 -> F] /\ field_pow(w, 1) = negated(One)
        BY <2>4, <3>1, <4>1
      <4>3. TransformsSymmetric(fft_inner_serial(input, 2, RoundRoots(w, 2)), input, 2, w, get_msb(2))
        BY ONLY <2>4, <4>2, TwoTransformed
      <4> QED
        BY ONLY <2>3, <3>1, <4>3
    <3>2. CASE size = 4
      <4>1. 4 - 1 = 3 /\ 4 \div 2 = 2
        OBVIOUS
      <4>2. input \in [0 .. 3 -> F] /\ field_pow(w, 2) = negated(One)
        BY <2>4, <3>2, <4>1
      <4>3. TransformsSymmetric(fft_inner_serial(input, 4, RoundRoots(w, 4)), input, 4, w, get_msb(4))
        BY ONLY <2>4, <4>2, FourTransformed
      <4> QED
        BY ONLY <2>3, <3>2, <4>3
    <3> QED
      BY <2>6, <3>1, <3>2
  <2> HIDE DEF result
  <2>8. d'.root = w /\ d'.log2_size = get_msb(size) /\ call'.size = size /\ call'.input = input
    BY <2>2, <2>3 DEF d, w
  <2>9. (\A i \in 0 .. call'.size - 1 :
            call'.input[i] = call'.input[reverse_bits(i, d'.log2_size)])
        => target' = [t \in 0 .. call'.size - 1 |->
                         ValueOf(call'.input, call'.size, field_pow(d'.root, t))]
    BY ONLY <2>2, <2>7, <2>8 DEF TransformsSymmetric
  <2> QED
    BY ONLY <2>9 DEF SerialFftTransformsSymmetric
<1> QED
  BY <1>1, <1>2, <1>3

(* What fft_inner_serial returns is the transform of coefficients that are   *)
(* their own bit reversal, so that nothing is to be moved.  For every field, *)
(* all sizes and all coefficients: the sizes from eight on panic.            *)
THEOREM SerialFftIsRightThere ==
    ASSUME SerialFits
    PROVE  Spec => []SerialFftTransformsSymmetric
<1>1. Init => SerialFftTransformsSymmetric
  BY DEF Init, SerialFftTransformsSymmetric, Finished
<1>2. SerialFftTransformsSymmetric /\ [Next]_vars => SerialFftTransformsSymmetric'
  BY NextSymmetry
<1>3. QED
  BY <1>1, <1>2, PTL DEF Spec
==============================================================================
