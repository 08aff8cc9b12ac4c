------------------------------ MODULE ToyField ------------------------------
(* The integers modulo 17 as the field of the instances for TLC: it has roots *)
(* of unity of orders 4 (4), 8 (2) and 16 (3).  Transforms are computed from  *)
(* their definitions.                                                         *)
EXTENDS Integers, FiniteSetsExt, SequencesExt

Modulus == 17
Elements == 0 .. Modulus - 1
Generator == 3

Plus(x, y) == (x + y) % Modulus
Minus(x, y) == (x - y) % Modulus
Times(x, y) == (x * y) % Modulus

Powers[x \in Elements, k \in 0 .. 16] ==
    FoldLeftDomain(LAMBDA acc, i : Times(acc, x), 1, [i \in 1 .. k |-> x])

InverseOf(x) == Powers[x, Modulus - 2]

\* The value at x of the polynomial with the first `length` of these
\* coefficients.
ValueAt(coefficients, length, x) ==
    MapThenSumSet(LAMBDA j : coefficients[j] * Powers[x, j], 0 .. length - 1)
    % Modulus

\* Evaluations on the powers of `root` times `shift`, and the way back.
Transform(coefficients, length, root, shift) ==
    [i \in 0 .. length - 1 |->
        ValueAt(coefficients, length, Times(shift, Powers[root, i]))]
InverseTransform(evaluations, length, root) ==
    [j \in 0 .. length - 1 |->
        Times(InverseOf(length),
              ValueAt(evaluations, length, Powers[InverseOf(root), j]))]

\* large_domain is made with 1 << log_circuit_size (proving_key.rs:98): it has
\* as many points as the circuit, and transforms the first of the coefficients.
LargeTransform(coefficients, length, root) ==
    [i \in DOMAIN coefficients |->
        IF i < length
        THEN ValueAt(coefficients, length, Times(Generator, Powers[root, i]))
        ELSE coefficients[i]]

\* A point is the scalars it is the multiplication of.
FirstScalars(coefficients, size) ==
    [i \in DOMAIN coefficients \cap 0 .. size - 1 |-> coefficients[i]]

\* field_element_to_usize reads the memory of an element: its representation
\* in Montgomery's form, the element times the word radix.
Memory(element, radix) == Times(element, radix)
==============================================================================
