------------------------- MODULE PermutationWidget -------------------------
(***************************************************************************)
(* random_widgets/permutation_widget.rs: what the verifier's widget adds   *)
(* to the numerator of the quotient, from the evaluations it reads.  The   *)
(* prover's half is todo! in the source.                                   *)
(*                                                                         *)
(* `c` has the challenges, `read` the elements of the transcript: sequences *)
(* of evaluations for the wires and permutations, and public inputs.  `key` *)
(* has the parameter of the type too, the number of roots cut out.         *)
(***************************************************************************)
EXTENDS Permutation

CONSTANT program_width

alpha_squared(alpha) == field_mul(alpha, alpha)
alpha_cubed(alpha) == field_mul(alpha_squared(alpha), alpha)

\* (z^n - 1) / n.
LagrangeNumerator(key) == field_mul(field_sub(key.z_pow_n, One), key.domain.domain_inverse)

\* Mutant of l_end_root: an odd number of roots is not told from an even one.
EvenEndRoot(root, num_roots) ==
    field_mul(root, field_pow(field_mul(root, root), num_roots \div 2))

\* Two powers of the root at a time, from the first or the second.
l_end_root(root, num_roots) ==
    field_mul(IF num_roots % 2 = 1 THEN field_mul(root, root) ELSE root,
              field_pow(field_mul(root, root), num_roots \div 2))

StartDenominator(c) == field_sub(c.z, One)
EndDenominator(key, c) ==
    field_sub(field_mul(c.z, l_end_root(key.domain.root, key.num_roots)), One)

l_start(key, c) == field_mul(LagrangeNumerator(key), field_inverse(StartDenominator(c)))
l_end(key, c) == field_mul(LagrangeNumerator(key), field_inverse(EndDenominator(key, c)))

\* Divisions by zero: the point is where L_1 or L_{n-k} is one, or a public
\* input meets a challenge.
ContributionPanics(key, c, read) ==
    \/ StartDenominator(c) = Zero
    \/ EndDenominator(key, c) = Zero
    \/ DeltaPanics(read.public_inputs, c.beta, c.gamma, key.domain.root)

\* w + beta * s + gamma.
PermutationTerm(w, s, c) == field_add(field_add(w, field_mul(s, c.beta)), c.gamma)

\* Of all columns but the last.
sigma_factors(c, read) ==
    field_product([i \in 1 .. program_width - 1 |->
                      PermutationTerm(read.w[i], read.sigma[i], c)])

\* Part 1: the last column without its permutation.
sigma_contribution(c, read) ==
    field_mul(field_mul(field_mul(sigma_factors(c, read),
                                  field_add(read.w[program_width], c.gamma)),
                        read.z_perm_omega), c.alpha)

\* Part 2: the public inputs.
delta_contribution(key, c, read) ==
    field_mul(field_mul(
        field_sub(read.z_perm_omega,
                  compute_public_input_delta(read.public_inputs, c.beta, c.gamma,
                                             key.domain.root)),
        l_end(key, c)), alpha_squared(c.alpha))

\* Part 4: what part 1 has left out, without its last factor.
sigma_last_multiplicand(c, read) ==
    field_mul(negated(field_mul(field_mul(sigma_factors(c, read), read.z_perm_omega), c.alpha)),
              c.beta)

\* Part 5: the identity permutations, read or known.
id_evaluation(i, c, read, idpolys) ==
    IF idpolys THEN read.id[i]
    ELSE field_mul(c.z, IF i = 1 THEN One ELSE coset_generator(i - 2))
z_multiplicand(key, c, read, idpolys) ==
    field_add(
        field_mul(field_product([i \in 1 .. program_width |->
                      PermutationTerm(read.w[i], id_evaluation(i, c, read, idpolys), c)]),
                  c.alpha),
        field_mul(l_start(key, c), alpha_cubed(c.alpha)))

\* What is added to the numerator, all parts of it.
compute_quotient_evaluation_contribution(key, c, read, idpolys) ==
    LET parts_1_to_3 == field_sub(field_sub(delta_contribution(key, c, read),
                                            field_mul(l_start(key, c), alpha_cubed(c.alpha))),
                                  sigma_contribution(c, read))
        part_4 == field_mul(sigma_last_multiplicand(c, read), read.sigma[program_width])
        part_5 == field_mul(z_multiplicand(key, c, read, idpolys), read.z_perm)
    IN  field_add(field_add(parts_1_to_3, part_4), part_5)

\* The next widget's power of alpha, as two functions return it.
next_alpha(alpha) == field_mul(alpha_squared(alpha), alpha_squared(alpha))
append_scalar_multiplication_inputs(alpha_base, alpha) ==
    field_mul(field_mul(alpha_base, alpha_squared(alpha)), alpha)
=============================================================================
