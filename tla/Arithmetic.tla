----------------------------- MODULE Arithmetic -----------------------------
(***************************************************************************)
(* polynomials/polynomial_arithmetic.rs and evaluation_domain.rs: the      *)
(* transforms, sums, products and interpolations of polynomials, as        *)
(* operators on arrays (functions from 0 .. n-1) of field elements.        *)
(*                                                                         *)
(* An operator that is a loop of independent writes is a function; a loop  *)
(* whose passes read what earlier ones wrote is a fold.  What makes a call *)
(* panic is a predicate of its own, named ...Panics; a call that returns   *)
(* Err has one named ...Fails.                                             *)
(***************************************************************************)
EXTENDS Polynomial, FiniteSetsExt, SequencesExt

CONSTANTS
    One,                    \* the field: its other identity
    field_add(_, _), field_sub(_, _), field_mul(_, _),
    field_inverse(_),       \* of an element other than Zero
    field_pow(_, _),
    HasRoot(_),             \* there is a root of unity of this order
    get_root_of_unity(_),
    generator,              \* of the multiplicative group
    available_parallelism   \* 1 in a build without the feature multithreading

ASSUME ArithmeticAssumption == available_parallelism \in Nat \ {0}

negated(x) == field_sub(Zero, x)

\* Of a function's values.
field_sum(terms) == FoldFunction(field_add, Zero, terms)
field_product(factors) == FoldFunction(field_mul, One, factors)

Indices(n) == [i \in 1 .. n |-> i - 1] \* 0 .. n-1, in the order of a loop
\* Those of first .. end-1 that a loop by steps takes.
Stepped(first, end, step) ==
    [i \in 1 .. (end - first + step - 1) \div step |-> first + (i - 1) * step]
Array(n) == [i \in 0 .. n - 1 |-> Zero]

-----------------------------------------------------------------------------
(* Bits and threads.                                                         *)

\* The position of the highest bit that is set; a multiplication by a de
\* Bruijn sequence finds it, and gives 0 for 0.
get_msb(x) == IF x = 0 THEN 0 ELSE CHOOSE b \in 0 .. 31 : 2^b <= x /\ x < 2^(b + 1)

\* That of a usize: where overflow is checked, it panics.  So no build that
\* checks has domains from this size on, nor that many processors.
MsbOverflows(x) == x >= 64

\* The `length` low bits of x, last first.
reverse_bits(x, length) ==
    MapThenSumSet(LAMBDA b : ((x \div 2^b) % 2) * 2^(length - 1 - b), 0 .. length - 1)

is_power_of_two(x) == x # 0 /\ x = 2^get_msb(x)

compute_num_threads == 2^get_msb(available_parallelism)

MIN_GROUP_PER_THREAD == 4

\* A bit of a usize.
ASSUME ThreadsAssumption == compute_num_threads \in Nat \ {0}

domain_num_threads(size) ==
    IF size <= compute_num_threads * MIN_GROUP_PER_THREAD
    THEN 1 ELSE compute_num_threads

-----------------------------------------------------------------------------
(* Evaluation domains.                                                       *)

\* Where each round's roots begin in the table.
round_root_offsets(num_rounds) ==
    LET at[i \in 0 .. num_rounds - 2] == IF i = 0 THEN 0 ELSE at[i - 1] + 2^i
    IN  at

\* The table as the loop over the rounds writes it: for a round that combines
\* blocks of m, the first m powers of a root of order 2m.
compute_lookup_table_single(input_root, size) ==
    LET num_rounds == get_msb(size)
        offsets == round_root_offsets(num_rounds)
        Round(table, i) ==
            LET m == 2^(i + 1)
                round_root == field_pow(input_root, size \div (2 * m))
            IN  [x \in DOMAIN table |->
                    IF x - offsets[i] \in 0 .. m - 1
                    THEN field_pow(round_root, x - offsets[i]) ELSE table[x]]
    IN  FoldLeft(Round, [x \in 0 .. size - 1 |-> One], Indices(num_rounds - 1))

RoundRoots(root, size) ==
    LET table == compute_lookup_table_single(root, size)
        offsets == round_root_offsets(get_msb(size))
    IN  [i \in DOMAIN offsets |-> [j \in 0 .. 2^(i + 1) - 1 |-> table[offsets[i] + j]]]

\* The fields that the constructor computes, and those that the comment after
\* its todo! gives, for a build in which it has been completed.
new_domain(size) ==
    LET num_threads == domain_num_threads(size)
        root == get_root_of_unity(size)
    IN  [size |-> size, num_threads |-> num_threads,
         thread_size |-> size \div num_threads, log2_size |-> get_msb(size),
         root |-> root,
         domain_inverse |-> field_inverse(
             field_sum([i \in 1 .. size |-> One])),
         round_roots |-> RoundRoots(root, size),
         inverse_round_roots |-> RoundRoots(field_inverse(root), size)]

-----------------------------------------------------------------------------
(* The serial FFT, on coefficients laid out one polynomial after another.    *)

SerialFftPanics(num_polys, domain_size, root_table) ==
    LET poly_domain_size == domain_size \div num_polys
    IN  \/ ~ is_power_of_two(num_polys) \/ ~ is_power_of_two(poly_domain_size)
        \/ poly_domain_size = 1
        \/ \E m \in 3 .. domain_size - 1 :
              /\ m % 2 = 0
              /\ m > Cardinality(DOMAIN root_table[get_msb(m) - 1])

\* One element of each pair is copied over the other.
BitReversed(coeffs, size) ==
    FoldLeft(LAMBDA c, i :
                 LET swap_index == reverse_bits(i, get_msb(size))
                 IN  IF i < swap_index THEN [c EXCEPT ![i] = c[swap_index]] ELSE c,
             coeffs, Indices(size + 1))

\* Mutant of FirstPairs: the sum is written before the difference is taken.
FirstPairsInTurn(coeffs) ==
    [k \in DOMAIN coeffs |->
        IF k % 2 = 0 THEN field_add(coeffs[k], coeffs[k + 1])
                     ELSE field_sub(field_add(coeffs[k - 1], coeffs[k]), coeffs[k])]

\* What the first round makes of a pair.
FirstPairs(coeffs) ==
    [k \in DOMAIN coeffs |->
        IF k % 2 = 0 THEN field_add(coeffs[k], coeffs[k + 1])
                     ELSE field_sub(coeffs[k - 1], coeffs[k])]

\* Combines the elements at `low` and `low + m` with one root.
Butterfly(a, root, low, m) ==
    LET temp == field_mul(root, a[low + m])
    IN  [a EXCEPT ![low + m] = field_sub(a[low], temp), ![low] = field_add(a[low], temp)]

\* A round for m combines the halves of the blocks of 2 m elements, of which
\* one begins at k.
SerialBlock(root_table, m, a, k) ==
    FoldLeft(LAMBDA b, j : Butterfly(b, root_table[get_msb(m) - 1][j], k + j, m),
             a, Indices(m))
SerialRound(root_table, domain_size, a, m) ==
    FoldLeft(LAMBDA b, k : SerialBlock(root_table, m, b, k), a, Stepped(0, domain_size, 2 * m))

fft_inner_serial(coeffs, domain_size, root_table) ==
    FoldLeft(LAMBDA a, m : SerialRound(root_table, domain_size, a, m),
             FirstPairs(BitReversed(coeffs, domain_size)), Stepped(2, domain_size, 2))

-----------------------------------------------------------------------------
(* The parallel FFT, and its variant in place.                               *)

\* Threads each have thread_size elements: the bit reversal of the
\* coefficients and the round that needs no root, in one.
first_fft_round(d, coeffs, target) ==
    [x \in DOMAIN target |->
        LET i == x - (x % 2)
            temp_1 == coeffs[reverse_bits(i, d.log2_size)]
            temp_2 == coeffs[reverse_bits(i + 1, d.log2_size)]
        IN  IF x >= d.num_threads * d.thread_size THEN target[x]
            ELSE IF x = i THEN field_add(temp_1, temp_2)
            ELSE field_sub(temp_1, temp_2)]

\* A round's iterations, all threads', in the order of the loops.
Iterations(d) == d.num_threads * (d.thread_size \div 2)

\* The element that iteration i combines with the one m further on, and the
\* root it uses: i with its bits above those of m - 1 moved up by one.
RootAt(i, m) ==
    MapThenSumSet(LAMBDA b : 2^b * ((i \div 2^b) % 2) * (((m - 1) \div 2^b) % 2), 0 .. get_msb(m))
Low(i, m) == 2 * (i - RootAt(i, m)) + RootAt(i, m)

FftRoundPanics(d, m, target, round_roots) ==
    \E i \in 0 .. Iterations(d) - 1 :
        RootAt(i, m) \notin DOMAIN round_roots \/ Low(i, m) + m \notin DOMAIN target

\* Mutant of fft_round: the last thread's share is left out.
FftRoundOfFirstThreads(d, m, target, round_roots) ==
    FoldLeft(LAMBDA a, i : Butterfly(a, round_roots[RootAt(i, m)], Low(i, m), m),
             target, Indices(Iterations(d) - d.thread_size \div 2))

fft_round(d, m, target, round_roots) ==
    FoldLeft(LAMBDA a, i : Butterfly(a, round_roots[RootAt(i, m)], Low(i, m), m),
             target, Indices(Iterations(d)))

\* The round in which the variant in place moves from its scratch space to the
\* coefficients.
final_fft_round(d, m, scratch, coeffs, round_roots) ==
    LET temp(i) == field_mul(round_roots[RootAt(i, m)], scratch[Low(i, m) + m])
        lows == {Low(i, m) : i \in 0 .. Iterations(d) - 1}
        At(x) == CHOOSE i \in 0 .. Iterations(d) - 1 : x \in {Low(i, m), Low(i, m) + m}
    IN  [x \in DOMAIN coeffs |->
            IF x \in lows THEN field_add(scratch[x], temp(At(x)))
            ELSE IF x - m \in lows THEN field_sub(scratch[x - m], temp(At(x)))
            ELSE coeffs[x]]

ScaledBy(coeffs, size, value) ==
    [i \in DOMAIN coeffs |-> IF i < size THEN field_mul(coeffs[i], value) ELSE coeffs[i]]

-----------------------------------------------------------------------------
(* The partial FFT: from n = 4q coefficients to the four inputs of size q    *)
(* whose transforms are its evaluations.                                     *)

PartialFftPanics(d) == d.size < 4

partial_fft_serial_inner(d, coeffs, root_table) ==
    LET n == d.size \div 4
        m == d.size \div 2
        round_roots == root_table[get_msb(m) - 1]
        Term(s, index) ==
            LET root_index == (index * (s + 1)) % d.size
                root == field_mul(coeffs[index], round_roots[root_index % m])
            IN  IF root_index < m THEN root ELSE negated(root)
    IN  [x \in 0 .. d.size - 1 |->
            LET s == 3 - x \div n
            IN  field_sum([j \in 0 .. 3 |-> Term(s, (x % n) + j * n)])]

\* In place, for a build in which EvaluationDomain::new has been completed.
\* In the coset's case the index may fall below zero: it panics where overflow
\* is checked, and wraps around where it is not, which the mask undoes.
RootIndex(d, i, j, s, is_coset) ==
    (i + j * (d.size \div 4)) * (s + 1) - (IF is_coset THEN 4 * i ELSE 0)

PartialIndexUnderflows(d, is_coset) ==
    \E i \in 0 .. d.size \div 4 - 1, j, s \in 0 .. 3 : RootIndex(d, i, j, s, is_coset) < 0

\* Mutant of partial_fft_parallel_inner: the second half of the roots is not
\* negated.
PartialFftOfHalfRoots(d, coeffs, root_table, constant, is_coset) ==
    LET n == d.size \div 4
        m == d.size \div 2
        Term(i, j, s) == field_mul(coeffs[i + j * n],
            root_table[get_msb(m) - 1][RootIndex(d, i, j, s, is_coset) % m])
    IN  [x \in DOMAIN coeffs |->
            field_sum([j \in 0 .. 3 |-> Term(x % n, j, 3 - x \div n)])]

partial_fft_parallel_inner(d, coeffs, root_table, constant, is_coset) ==
    LET n == d.size \div 4
        m == d.size \div 2
        round_roots == root_table[get_msb(m) - 1]
        Term(i, j, s) ==
            LET root_index == RootIndex(d, i, j, s, is_coset) % d.size
                root == round_roots[root_index % m]
            IN  field_mul(coeffs[i + j * n],
                          IF root_index < m THEN root ELSE negated(root))
        scale(s) == IF is_coset
                    THEN field_mul(constant, field_pow(generator, s + 1)) ELSE One
    IN  [x \in DOMAIN coeffs |->
            LET s == 3 - x \div n
            IN  field_mul(scale(s), field_sum([j \in 0 .. 3 |-> Term(x % n, j, s)]))]

-----------------------------------------------------------------------------
(* Evaluations of L_1, and sums.                                             *)

\* The root asked for is of the order log2_subgroup_size.
SubgroupFails(log2_subgroup_size) == ~ HasRoot(log2_subgroup_size)

\* Mutant of compute_multiplicative_subgroup: one squaring too many.
SubgroupOfDoubledDomain(d, log2_subgroup_size) ==
    [i \in 0 .. 2^log2_subgroup_size - 1 |->
        field_mul(field_pow(generator, 2 * d.size),
                  field_pow(get_root_of_unity(log2_subgroup_size), i))]

compute_multiplicative_subgroup(d, log2_subgroup_size) ==
    [i \in 0 .. 2^log2_subgroup_size - 1 |->
        field_mul(field_pow(generator, d.size),
                  field_pow(get_root_of_unity(log2_subgroup_size), i))]

\* X_i - 1 for the points of the target domain, in what was there before: the
\* coefficients past them stay.
Denominators(target_domain, buffer) ==
    [i \in DOMAIN buffer |->
        IF i < target_domain.num_threads * target_domain.thread_size
        THEN field_sub(field_mul(generator, field_pow(target_domain.root, i)), One)
        ELSE buffer[i]]

\* Each in its turn, until one has no inverse.
Inverted(values) ==
    [i \in DOMAIN values |->
        IF \E j \in 0 .. i : values[j] = Zero THEN values[i] ELSE field_inverse(values[i])]

Invertible(values) == \A i \in DOMAIN values : values[i] # Zero

LagrangeFails(d, buffer, target_domain) ==
    \/ ~ Invertible(Denominators(target_domain, buffer))
    \/ SubgroupFails(target_domain.log2_size - d.log2_size)

\* The buffer an Err leaves, and the one that the caller asked for.
LagrangeUnfinished(buffer, target_domain) == Inverted(Denominators(target_domain, buffer))

compute_lagrange_polynomial_fft(d, buffer, target_domain) ==
    LET log2_subgroup_size == target_domain.log2_size - d.log2_size
        subgroup_roots == compute_multiplicative_subgroup(d, log2_subgroup_size)
        numerator(i) == field_mul(d.domain_inverse,
                            field_sub(subgroup_roots[i % 2^log2_subgroup_size], One))
        inverted == LagrangeUnfinished(buffer, target_domain)
    IN  [i \in DOMAIN buffer |->
            IF i < target_domain.num_threads * target_domain.thread_size
            THEN field_mul(inverted[i], numerator(i)) ELSE inverted[i]]

\* Mutant of thread_range: nobody has what is left over.
EqualRange(n, thread) ==
    LET range_per_thread == n \div compute_num_threads
    IN  thread * range_per_thread .. (thread + 1) * range_per_thread - 1

\* Each thread's range, of n coefficients; the last also has what is left over.
thread_range(n, thread) ==
    LET range_per_thread == n \div compute_num_threads
        offset == thread * range_per_thread
    IN  offset .. IF thread = compute_num_threads - 1
                  THEN n - 1 ELSE offset + range_per_thread - 1

evaluate(coeffs, z, n) ==
    LET Share(thread) ==
            LET offset == thread * (n \div compute_num_threads)
            IN  field_sum([i \in thread_range(n, thread) \cap DOMAIN coeffs |->
                    field_mul(coeffs[i],
                              field_mul(field_pow(z, offset), field_pow(z, i - offset)))])
    IN  field_sum([thread \in 0 .. compute_num_threads - 1 |-> Share(thread)])

-----------------------------------------------------------------------------
(* Linear products and interpolation.                                        *)

\* A slice of the scratch space that begins after its end.
ProductPanics(n) ==
    \E i \in 0 .. n - 2 : \E j \in 0 .. n - 2 - i : j + 1 > n - 1 - i - j

compute_sum(a, first, end) == field_sum([i \in first .. end - 1 |-> a[i]])

\* Mutant of compute_linear_polynomial_product: the sign of the sum is dropped.
ProductOfNegatedRoots(roots, n) ==
    [Array(n + 1) EXCEPT ![n] = One, ![n - 1] = compute_sum(roots, 0, n)]

\* One pass for each coefficient from the third highest down; the scratch
\* space is overwritten as it is summed.
compute_linear_polynomial_product(roots, n) ==
    LET Pass(state, i) ==
            LET Step(s, j) ==
                    LET value == field_mul(roots[j], compute_sum(s.scratch, j + 1, n - 1 - i - j))
                    IN  [scratch |-> [s.scratch EXCEPT ![j] = value],
                         temp |-> field_add(s.temp, value)]
                swept == FoldLeft(Step, [scratch |-> state.scratch, temp |-> Zero],
                                  Indices(n - 1 - i))
            IN  [scratch |-> swept.scratch, constant |-> negated(state.constant),
                 dest |-> [state.dest EXCEPT ![n - 2 - i] =
                              field_mul(swept.temp, state.constant)]]
        start == [scratch |-> roots, constant |-> One,
                  dest |-> [Array(n + 1) EXCEPT ![n] = One,
                               ![n - 1] = negated(compute_sum(roots, 0, n))]]
    IN  FoldLeft(Pass, start, Indices(n - 1)).dest

\* Mutant of roots_and_denominators: the points are not negated.
points_and_denominators(points, n) ==
    [x \in 0 .. 2 * n - 1 |->
        IF x < n THEN points[x]
        ELSE field_product([j \in (0 .. n - 1) \ {x - n} |->
                                field_sub(points[x - n], points[j])])]

\* The negated points, then the products of the differences, inverted in turn.
roots_and_denominators(points, n) ==
    [x \in 0 .. 2 * n - 1 |->
        IF x < n THEN negated(points[x])
        ELSE field_product([j \in (0 .. n - 1) \ {x - n} |->
                                field_sub(points[x - n], points[j])])]

InterpolationFails(points, n) == ~ Invertible(roots_and_denominators(points, n))

compute_efficient_interpolation(src, points, n) ==
    LET numerator == compute_linear_polynomial_product(points, n)
        inverse == Inverted(roots_and_denominators(points, n))
        \* the quotient of the numerator by X - points[i], times its weight
        Share(i) ==
            LET multiplier == field_mul(src[i], inverse[n + i])
                temp[j \in 0 .. n - 1] ==
                    field_mul(inverse[i],
                        IF j = 0 THEN field_mul(multiplier, numerator[0])
                        ELSE field_sub(field_mul(multiplier, numerator[j]), temp[j - 1]))
            IN  temp
    IN  [j \in 0 .. n - 1 |-> field_sum([i \in 0 .. n - 1 |-> Share(i)[j]])]

\* An Err of the interpolation is dropped: the coefficients are zeros then.
from_interpolations(points, evaluations, n) ==
    [size |-> n,
     coefficients |-> IF InterpolationFails(points, n) THEN Array(n)
                      ELSE compute_efficient_interpolation(evaluations, points, n)]

-----------------------------------------------------------------------------
(* Operators of Polynomial.  The vector of the left side is resized when its *)
(* size, which never changes, is less than the right side's: it then has the *)
(* right side's size, whatever it had.                                       *)

\* Mutant of Padded: the vector is resized to the size of the smaller one.
PaddedToSmaller(p, rhs) == IF rhs.size < p.size THEN resize(p, rhs.size) ELSE p

Padded(p, rhs) == IF p.size < rhs.size THEN resize(p, rhs.size) ELSE p

Combined(op(_, _), p, rhs) ==
    [p EXCEPT !.coefficients =
        [i \in DOMAIN @ |-> IF i < rhs.size THEN op(@[i], rhs.coefficients[i]) ELSE @[i]]]

add_assign(p, rhs) == Combined(field_add, Padded(p, rhs), rhs)

\* Mutant of sub_assign: the sides are swapped.
SubtractedFromRhs(p, rhs) ==
    Combined(LAMBDA x, y : field_sub(y, x), Padded(p, rhs), rhs)

sub_assign(p, rhs) == Combined(field_sub, Padded(p, rhs), rhs)
mul_assign(p, value) == [p EXCEPT !.coefficients = ScaledBy(@, p.size, value)]
=============================================================================
