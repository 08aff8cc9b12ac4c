--------------------------- MODULE MCQueueClients ---------------------------
(* Instance of QueueClients for TLC: circuits of size 4 over the toy field.   *)
EXTENDS QueueClients, ToyField

Root == 4
MCroot_pow(index) == Powers[Root, index]
MCcoset_fft_inplace(coefficients) == LargeTransform(coefficients, n, Root)
MCcoset_fft_with_generator_shift(coefficients, constant) ==
    Transform(coefficients, n, Root, Times(Generator, constant))
MCifft(evaluations) == InverseTransform(evaluations, n, Root)
MCpippenger_unsafe(coefficients, size) == FirstScalars(coefficients, size)

\* Words of 6 bits: of the sizes the prover asks for, n is in memory as 1 and
\* n+1 as 14, more than the reference string has.
MCfield_element_to_usize(element) == Memory(element, 64)

MCWires == {"w_1"}
MCNames == MCWires \X {"", "_lagrange", "_fft"}
MCPolynomial(c0, c1) ==
    [size |-> 4, coefficients |-> (0 :> c0) @@ (1 :> c1) @@ (2 :> 0) @@ (3 :> 0)]
MCWitnesses == {MCPolynomial(1, 0)}
MCUpdates == {MCPolynomial(2, 1)}
MCRefs == 1 .. 7
MCFreed == [freed |-> TRUE]
MCImplemented ==
    {"pippenger_unsafe", "coset_fft_with_generator_shift", "coset_fft_inplace", "ifft"}
==============================================================================
