---------------------------- MODULE Permutation ----------------------------
(***************************************************************************)
(* plonk/proof_system/utils/permutation.rs and public_inputs/mod.rs: the   *)
(* values of the permutation polynomials, and the factor by which public   *)
(* inputs unbalance the permutation.                                       *)
(*                                                                         *)
(* The generators of the cosets are todo! in the source: constants, for a  *)
(* build that has them.                                                    *)
(***************************************************************************)
EXTENDS Arithmetic

CONSTANTS
    coset_generator(_),       \* of the columns after the first
    external_coset_generator, \* of the public inputs
    tag_coset_generator,
    index_bits,               \* 24: of a mapping's entry, those of the row
    column_shift              \* 30: where those of the column begin

\* PermutationSubgroupElement.
SubgroupElement(subgroup_index, column_index) ==
    [subgroup_index |-> subgroup_index, column_index |-> column_index,
     is_public_input |-> FALSE, is_tag |-> FALSE]

\* An index out of range of the output, of the round's roots, of the
\* permutation, or of the roots themselves.
PermutationPanics(output, permutation, small_domain) ==
    \/ output.size < Len(permutation)
    \/ small_domain.log2_size < 2
    \/ Len(permutation) < small_domain.size
    \/ \E i \in DOMAIN permutation : permutation[i].subgroup_index >= small_domain.size

\* Mutant of ColumnFactor: a public input is like any other element.
ColumnFactorOfWitness(element) ==
    IF element.is_tag THEN tag_coset_generator
    ELSE IF element.column_index > 0 THEN coset_generator(element.column_index - 1)
    ELSE One

ColumnFactor(element) ==
    IF element.is_public_input THEN external_coset_generator
    ELSE IF element.is_tag THEN tag_coset_generator
    ELSE IF element.column_index > 0 THEN coset_generator(element.column_index - 1)
    ELSE One

\* The table has half the powers of the root: the others are their negatives.
compute_permutation_lagrange_base_single_helper(output, permutation, small_domain) ==
    LET roots == small_domain.round_roots[small_domain.log2_size - 2]
        root_size == small_domain.size \div 2
        Root(raw_idx) == IF raw_idx >= root_size THEN negated(roots[raw_idx - root_size])
                         ELSE roots[raw_idx]
    IN  [output EXCEPT !.coefficients = [i \in DOMAIN @ |->
            IF i < small_domain.size
            THEN field_mul(Root(permutation[i + 1].subgroup_index),
                           ColumnFactor(permutation[i + 1]))
            ELSE @[i]]]

\* A mapping's entry packs a row and a column; what lies between is dropped.
Unpacked(permutation) ==
    [i \in DOMAIN permutation |->
        SubgroupElement(permutation[i] % 2^index_bits, permutation[i] \div 2^column_shift)]

compute_permutation_lagrange_base_single(output, permutation, small_domain) ==
    compute_permutation_lagrange_base_single_helper(output, Unpacked(permutation), small_domain)

-----------------------------------------------------------------------------
(* Public inputs: the first cell of a row maps out of the permutation.       *)

DeltaFactor(public_inputs, beta, gamma, subgroup_generator, coset) ==
    field_product([i \in DOMAIN public_inputs |->
        field_add(field_add(public_inputs[i], gamma),
                  field_mul(coset, field_mul(beta, field_pow(subgroup_generator, i - 1))))])

\* A division by zero.
DeltaPanics(public_inputs, beta, gamma, subgroup_generator) ==
    DeltaFactor(public_inputs, beta, gamma, subgroup_generator, external_coset_generator) = Zero

compute_public_input_delta(public_inputs, beta, gamma, subgroup_generator) ==
    LET Factor(coset) == DeltaFactor(public_inputs, beta, gamma, subgroup_generator, coset)
    IN  field_mul(Factor(coset_generator(0)), field_inverse(Factor(external_coset_generator)))
=============================================================================
