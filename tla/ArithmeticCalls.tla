--------------------------- MODULE ArithmeticCalls ---------------------------
(***************************************************************************)
(* Callers of the polynomial arithmetic.  An FFT runs a round per step, as *)
(* its outer loop does; the other calls are a step each.  Polynomials are  *)
(* added to, subtracted from and scaled any number of times.               *)
(***************************************************************************)
EXTENDS Arithmetic

CONSTANTS
    Sizes,              \* of domains
    Inputs(_),          \* the arrays of n coefficients to transform
    Scalars,            \* arguments of evaluations, points to interpolate at
    InterpolatedValues,
    Extensions,         \* sizes of a domain and of the target of its L_1
    Polynomials,        \* right sides of the operators
    MaxOperators        \* bound on the operators applied to one polynomial

\* Right sides come from the constructors, which make both fields agree; one is
\* the longest.
ASSUME PolynomialsAssumption ==
    /\ \A p \in Polynomials : p.size \in Nat /\ DOMAIN p.coefficients = 0 .. p.size - 1
    /\ \E p \in Polynomials : \A q \in Polynomials : q.size <= p.size

VARIABLES
    call,       \* the call in progress: its operation and arguments
    phase,      \* "idle", "rounds", "operators", and how it ended
    m,          \* the loop variable of an FFT; how many operators were applied
    coeffs,     \* the array that is transformed
    target,     \* what receives the result, or scratch space
    polynomial, \* the left side of the operators
    expected    \* the coefficients it would have if it were the sum it stands for

vars == <<call, phase, m, coeffs, target, polynomial, expected>>

Domain == [size \in Sizes |-> new_domain(size)]
d == Domain[call.size]

InPlace == {"fft_inplace", "ifft_inplace"}
Ffts == {"fft", "fft_with_constant", "ifft"} \cup InPlace

Idle == [op |-> "none"]
NoArray == <<>>
LongestPolynomial == CHOOSE n \in {p.size : p \in Polynomials} :
                         \A p \in Polynomials : p.size <= n

Init ==
    /\ call = Idle
    /\ phase = "idle"
    /\ m = 0
    /\ coeffs = NoArray
    /\ target = NoArray
    /\ polynomial = new_polynomial(0)
    /\ expected = Array(LongestPolynomial)

\* A call other than an FFT: it gives a result, or it panics or fails.
Computes(arguments, panics, fails, result, unfinished) ==
    /\ phase = "idle"
    /\ call' = arguments
    /\ phase' = IF panics THEN "panicked" ELSE IF fails THEN "failed" ELSE "done"
    /\ target' = IF panics THEN NoArray ELSE IF fails THEN unfinished ELSE result
    /\ UNCHANGED <<m, coeffs, polynomial, expected>>

-----------------------------------------------------------------------------
(* Transforms.                                                               *)

round_root_table == IF call.op = "ifft_inplace" THEN d.inverse_round_roots ELSE d.round_roots

\* The bit reversal and first round; domains of size 2 copy the result back.
CallFft(op, size, input, target_len) ==
    LET first == first_fft_round(Domain[size], input,
                     Array(IF op \in InPlace THEN size ELSE target_len))
    IN  /\ phase = "idle"
        /\ call' = [op |-> op, size |-> size, input |-> input]
        /\ phase' = "rounds"
        /\ m' = 2
        /\ target' = first
        /\ coeffs' = [i \in 0 .. size - 1 |-> IF size <= 2 THEN first[i] ELSE input[i]]
        /\ UNCHANGED <<polynomial, expected>>

\* The rounds are all the even numbers below the size; in place, the size too,
\* and the roots of a round are found by its lowest bit instead of its highest.
MoreRounds == phase = "rounds" /\ (m < call.size \/ (call.op \in InPlace /\ m = call.size))

lowest_bit(x) == CHOOSE b \in 0 .. get_msb(x) : x % 2^b = 0 /\ (x \div 2^b) % 2 = 1
RootRow == (IF call.op \in InPlace THEN lowest_bit(m) ELSE get_msb(m)) - 1

RoundPanics ==
    RootRow \in DOMAIN round_root_table =>
        FftRoundPanics(d, m, target, round_root_table[RootRow])

FftRound ==
    /\ MoreRounds
    /\ ~ RoundPanics
    /\ IF call.op \in InPlace /\ m = call.size \div 2
       THEN /\ coeffs' = final_fft_round(d, m, target, coeffs, round_root_table[RootRow])
            /\ target' = target
       ELSE /\ target' = fft_round(d, m, target, round_root_table[RootRow])
            /\ coeffs' = coeffs
    /\ m' = m + 2
    /\ UNCHANGED <<call, phase, polynomial, expected>>

\* An index out of range; and the inverse transform, which is not finished.
FftPanics ==
    /\ phase = "rounds"
    /\ IF MoreRounds THEN RoundPanics ELSE call.op = "ifft"
    /\ phase' = "panicked"
    /\ UNCHANGED <<call, m, coeffs, target, polynomial, expected>>

\* The constant is multiplied into the coefficients, not into the result.
FftReturns(value) ==
    /\ phase = "rounds"
    /\ ~ MoreRounds
    /\ call.op \in {"fft", "fft_with_constant"}
    /\ phase' = "done"
    /\ coeffs' = IF call.op = "fft" THEN coeffs ELSE ScaledBy(coeffs, call.size, value)
    /\ UNCHANGED <<call, m, target, polynomial, expected>>

CallSerialFft(num_polys, size, input) ==
    LET table == Domain[size].round_roots
    IN  Computes([op |-> "fft_inner_serial", size |-> size, input |-> input],
                 SerialFftPanics(num_polys, size, table), FALSE,
                 fft_inner_serial(input, size, table), NoArray)

CallPartialFft(size, input) ==
    Computes([op |-> "partial_fft_serial", size |-> size, input |-> input],
             PartialFftPanics(Domain[size]), FALSE,
             partial_fft_serial_inner(Domain[size], input, Domain[size].round_roots), NoArray)

\* With overflow checks, or without them, as the build has it; with them a large
\* domain's own size has overflowed before.
CallPartialFftInPlace(size, input, constant, is_coset, overflow_checks) ==
    Computes([op |-> "partial_fft", size |-> size, input |-> input, constant |-> constant,
              is_coset |-> is_coset],
             \/ PartialFftPanics(Domain[size])
             \/ /\ overflow_checks
                /\ MsbOverflows(size) \/ PartialIndexUnderflows(Domain[size], is_coset), FALSE,
             partial_fft_parallel_inner(Domain[size], input, Domain[size].round_roots,
                                        constant, is_coset), NoArray)

-----------------------------------------------------------------------------
(* Sums, products and interpolations.                                        *)

CallEvaluate(input, z, n) ==
    Computes([op |-> "evaluate", input |-> input, z |-> z, n |-> n],
             FALSE, FALSE, evaluate(input, z, n), NoArray)

\* `extra` are coefficients that the polynomial has past the target domain.
CallLagrange(size, target_size, extra) ==
    LET buffer == [i \in 0 .. target_size + Len(extra) - 1 |->
                      IF i < target_size THEN Zero ELSE extra[i - target_size + 1]]
    IN  Computes([op |-> "compute_lagrange_polynomial_fft", size |-> size,
                  target_size |-> target_size],
                 FALSE, LagrangeFails(Domain[size], buffer, Domain[target_size]),
                 compute_lagrange_polynomial_fft(Domain[size], buffer, Domain[target_size]),
                 LagrangeUnfinished(buffer, Domain[target_size]))

CallProduct(roots, n) ==
    Computes([op |-> "compute_linear_polynomial_product", roots |-> roots, n |-> n],
             ProductPanics(n), FALSE, compute_linear_polynomial_product(roots, n), NoArray)

CallInterpolate(points, values, n) ==
    Computes([op |-> "from_interpolations", points |-> points, values |-> values, n |-> n],
             ProductPanics(n), FALSE,
             from_interpolations(points, values, n).coefficients, NoArray)

-----------------------------------------------------------------------------
(* A polynomial that operators are applied to.  `sizes` are those of the      *)
(* right sides so far, `scaled` are the sizes that were there at a product.   *)

CallNew(size) ==
    /\ phase = "idle"
    /\ call' = [op |-> "polynomial", sizes |-> <<>>, scaled |-> {}]
    /\ phase' = "operators"
    /\ polynomial' = new_polynomial(size)
    /\ UNCHANGED <<m, coeffs, target, expected>>

Operates(arguments, p, value) ==
    /\ phase = "operators"
    /\ m < MaxOperators
    /\ m' = m + 1
    /\ call' = arguments
    /\ polynomial' = p
    /\ expected' = value
    /\ UNCHANGED <<phase, coeffs, target>>

Coefficient(p, i) == IF i < p.size THEN p.coefficients[i] ELSE Zero
WithSize(size) == [call EXCEPT !.sizes = Append(@, size)]

AddAssign(rhs) ==
    Operates(WithSize(rhs.size), add_assign(polynomial, rhs),
             [i \in DOMAIN expected |-> field_add(expected[i], Coefficient(rhs, i))])
SubAssign(rhs) ==
    Operates(WithSize(rhs.size), sub_assign(polynomial, rhs),
             [i \in DOMAIN expected |-> field_sub(expected[i], Coefficient(rhs, i))])
MulAssign(value) ==
    Operates([call EXCEPT !.scaled = @ \cup ToSet(call.sizes)], mul_assign(polynomial, value),
             [i \in DOMAIN expected |-> field_mul(expected[i], value)])

\* The caller goes on, after a panic in another process.
Return ==
    /\ phase \notin {"idle", "rounds"}
    /\ call' = Idle
    /\ phase' = "idle"
    /\ m' = 0
    /\ coeffs' = NoArray
    /\ target' = NoArray
    /\ polynomial' = new_polynomial(0)
    /\ expected' = Array(LongestPolynomial)

Next ==
    \/ \E op \in Ffts, size \in Sizes : \E input \in Inputs(size), room \in {1, 2} :
          CallFft(op, size, input, room * size)
    \/ FftRound
    \/ FftPanics
    \/ \E value \in Scalars : FftReturns(value)
    \/ \E size \in Sizes : \E input \in Inputs(size) :
          \/ \E num_polys \in {1, 2} : CallSerialFft(num_polys, size, input)
          \/ CallPartialFft(size, input)
          \/ \E constant \in Scalars, is_coset, overflow_checks \in BOOLEAN :
                CallPartialFftInPlace(size, input, constant, is_coset, overflow_checks)
          \/ \E z \in Scalars, n \in 0 .. size + 1 : CallEvaluate(input, z, n)
    \/ \E sizes \in Extensions, extra \in {<<>>, <<One>>, <<Zero, Zero>>} :
          CallLagrange(sizes[1], sizes[2], extra)
    \/ \E n \in 1 .. 3 : \E points \in [0 .. n - 1 -> Scalars] :
          \/ CallProduct(points, n)
          \/ \E values \in [0 .. n - 1 -> InterpolatedValues] :
                CallInterpolate(points, values, n)
    \/ \E p \in Polynomials : CallNew(p.size) \/ AddAssign(p) \/ SubAssign(p)
    \/ \E value \in Scalars : MulAssign(value)
    \/ Return

Spec == Init /\ [][Next]_vars

-----------------------------------------------------------------------------
(* Properties.                                                               *)

\* The definitions the code is held against.
ValueOf(c, n, z) == field_sum([i \in 0 .. n - 1 |-> field_mul(c[i], field_pow(z, i))])

Finished(op) == phase = "done" /\ call.op = op

\* The vector of a polynomial (polynomials/polynomial.rs) never has fewer
\* coefficients than the size that its methods index it by, whatever smaller or
\* larger sizes it was resized to, and no gaps.
TypeOK ==
    /\ phase \in {"idle", "rounds", "operators", "done", "failed", "panicked"}
    /\ DOMAIN polynomial = {"size", "coefficients"}
    /\ polynomial.size \in Nat
    /\ 0 .. polynomial.size - 1 \subseteq DOMAIN polynomial.coefficients
    /\ \A i \in DOMAIN polynomial.coefficients :
           i \in Nat /\ 0 .. i \subseteq DOMAIN polynomial.coefficients

\* Blocks of a power of two below 16 are complete before the loop variable
\* exceeds 6: it takes the even numbers where the rounds are the powers of two,
\* and 6 is the first one too many (fft_inner_parallel's "super incorrect").
Block == IF m = 2 THEN 2 ELSE IF m = 4 THEN 4 ELSE 8
AllRoundsMade == Block >= call.size

\* After each round, however the threads share it, every block of the target is
\* the transform of the coefficients it began with (fft_inner_parallel,
\* fft_inner_parallel_vec_inplace, compute_lookup_table_single), so that the
\* transforms of sizes 2 and 4 are right and those of size 8 are, until the
\* round for 6; in place, the last round leaves them in the coefficients.
RoundsTransformBlocks ==
    phase = "rounds" /\ m <= 6 /\ Block <= call.size =>
        LET block_root == field_pow(IF call.op = "ifft_inplace" THEN field_inverse(d.root)
                                    ELSE d.root, call.size \div Block)
            made == IF call.op \in InPlace /\ AllRoundsMade /\ call.size > 2
                    THEN coeffs ELSE target
        IN  \A b \in 0 .. call.size \div Block - 1, t \in 0 .. Block - 1 :
               made[b * Block + t] =
               ValueOf([x \in 0 .. Block - 1 |->
                           call.input[reverse_bits(b * Block
                               + reverse_bits(x, get_msb(Block)), d.log2_size)]],
                       Block, field_pow(block_root, t))

\* The serial FFT (fft_inner_serial) transforms coefficients that are their own
\* bit reversal, a polynomial of two coefficients among them: its rounds are
\* right for the sizes at which it returns, whatever its reversal does.
SerialFftTransformsSymmetric ==
    Finished("fft_inner_serial")
    /\ (\A i \in 0 .. call.size - 1 : call.input[i] = call.input[reverse_bits(i, d.log2_size)])
    => target = [t \in 0 .. call.size - 1 |->
                    ValueOf(call.input, call.size, field_pow(d.root, t))]

\* The transforms of the four parts that partial_fft makes, with the fourth
\* power of the root, are all the evaluations: part 3 - s those at the powers
\* 4 t + s + 1 of the root, or in the coset's case at 4 t + s - 3, scaled by the
\* constant and s + 1 generators.
PartialFftSplits ==
    phase = "done" /\ call.op \in {"partial_fft", "partial_fft_serial"} =>
        LET n == call.size \div 4
            coset == call.op = "partial_fft" /\ call.is_coset
            scale(s) == IF coset THEN field_mul(call.constant, field_pow(generator, s + 1))
                        ELSE One
        IN  \A s \in 0 .. 3, t \in 0 .. n - 1 :
               ValueOf([i \in 0 .. n - 1 |-> target[(3 - s) * n + i]], n,
                       field_pow(d.root, 4 * t)) =
               field_mul(scale(s),
                   ValueOf(call.input, call.size,
                           field_pow(d.root, (4 * t + s + (IF coset THEN call.size - 3 ELSE 1))
                                                 % call.size)))

\* evaluate is the value of the first n coefficients (of those there are),
\* however many threads share them and whatever is left over.
EvaluateIsTheValue ==
    Finished("evaluate") =>
        target = field_sum([i \in DOMAIN call.input \cap 0 .. call.n - 1 |->
                                field_mul(call.input[i], field_pow(call.z, i))])

\* L_1 on the coset, as (1/n) (1 + X + ... + X^(n-1)).
L_1(i) ==
    field_mul(d.domain_inverse,
        ValueOf([x \in 0 .. call.size - 1 |-> One], call.size,
                field_mul(generator, field_pow(Domain[call.target_size].root, i))))

\* Where the target domain is k times the source, a call of
\* compute_lagrange_polynomial_fft that does not fail is right at every k-th
\* point: the numerators are taken from a subgroup of the wrong order.
LagrangeRightAtMultiples ==
    Finished("compute_lagrange_polynomial_fft") =>
        \A i \in 0 .. call.target_size - 1 :
            i % (call.target_size \div call.size) = 0 => target[i] = L_1(i)

\* "Compute evaluations of lagrange polynomial L_1(X) on the specified domain"
\* (polynomial_arithmetic.rs:578).
LagrangeIsL1 ==
    Finished("compute_lagrange_polynomial_fft") =>
        \A i \in 0 .. call.target_size - 1 : target[i] = L_1(i)

\* compute_linear_polynomial_product is the product of its factors, "N(X) =
\* prod (X - xi)" (polynomial_arithmetic.rs:724), where there is one, or where one
\* of two is X, so that there is no constant term to lose.
ProductIsOfItsFactors ==
    Finished("compute_linear_polynomial_product")
    /\ (call.n = 1 \/ \E i \in 0 .. call.n - 1 : call.roots[i] = Zero)
    => \A z \in Scalars :
           ValueOf(target, call.n + 1, z) =
           field_product([i \in 0 .. call.n - 1 |-> field_sub(z, call.roots[i])])

\* A single point other than zero is interpolated (from_interpolations,
\* compute_efficient_interpolation).
InterpolatesOnePoint ==
    Finished("from_interpolations") /\ call.n = 1 /\ call.points[0] # Zero
    => ValueOf(target, 1, call.points[0]) = call.values[0]

\* "Compute function f(X) such that f(x_i) = y_i for all i"
\* (polynomial_arithmetic.rs:715), where the x_i differ.
InterpolatesItsPoints ==
    Finished("from_interpolations")
    /\ (\A i, j \in 0 .. call.n - 1 : call.points[i] = call.points[j] => i = j)
    => \A i \in 0 .. call.n - 1 :
           ValueOf(target, call.n, call.points[i]) = call.values[i]

\* Sums and products of polynomials are right as long as no right side is
\* smaller than one that has made the vector grow and still larger than the
\* left side's size, and nothing is scaled after growing (AddAssign,
\* SubAssign, MulAssign): else the vector is cut, or scaled in part.
OperatorsAgree ==
    LET sizes == call.sizes
        Grows(size) == size > polynomial.size
    IN  phase = "operators" /\ (\A size \in call.scaled : ~ Grows(size))
        /\ (\A i, j \in DOMAIN sizes : i < j /\ Grows(sizes[j]) => sizes[i] <= sizes[j])
        => \A i \in DOMAIN expected :
               expected[i] = IF i \in DOMAIN polynomial.coefficients
                             THEN polynomial.coefficients[i] ELSE Zero
==============================================================================
