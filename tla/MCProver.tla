------------------------------ MODULE MCProver ------------------------------
(* Instances of Prover for TLC: a circuit of size 8 over the toy field, of    *)
(* standard width.                                                            *)
EXTENDS Prover, ToyField

Root == 2
MCroot_pow(index) == Powers[Root, index]
MCcoset_fft_inplace(coefficients) == LargeTransform(coefficients, n, Root)
MCcoset_fft_with_generator_shift(coefficients, constant) ==
    Transform(coefficients, n, Root, Times(Generator, constant))
MCifft(evaluations) == InverseTransform(evaluations, n, Root)
MCpippenger_unsafe(coefficients, size) == FirstScalars(coefficients, size)

\* Words of 8 bits, in which an element and its memory are the same: no other
\* lets a commitment through (see MCQueueClients).
MCfield_element_to_usize(element) == Memory(element, 256)

MCWires == {WireTags[i] : i \in WireIndices}
MCNames == (MCWires \X {"", "_lagrange", "_fft"}) 
           \cup {<<"lagrange_1", "_fft">>, <<"z_perm", "">>, <<"z_perm", "_fft">>}
MCRefs == 1 .. 6 + 3 * program_width
MCFreed == [freed |-> TRUE]
MCParts == <<1, 2, 3, 4>>
MCwitness == [i \in WireIndices |->
    [size |-> 8, coefficients |-> [k \in 0 .. 7 |-> IF k < 4 THEN i + k ELSE 0]]]
MCWireDraws == {[i \in WireIndices |-> [k \in 0 .. 2 |-> 10 + i + k]],
                [i \in WireIndices |-> [k \in 0 .. 2 |-> 16 - i]]}
MCQuotientDraws == {<<5, 7, 1>>, <<9, 2, 4>>}
MCNumerators == {[i \in 1 .. 4 |-> [k \in 0 .. 7 |-> (3 * i + k) % 5]]}
MCtransform_slices(slices) == [i \in 1 .. 4 |-> Times(slices[i] + 2, i)]
MClagrange_1 == [i \in 0 .. 4 * 8 + 7 |-> IF i < 8 THEN i + 1 ELSE 0]
MCImplemented ==
    {"apply_fiat_shamir", "pippenger_unsafe", "coset_fft_inplace", "ifft",
     "divide_by_pseudo_vanishing_polynomial", "coset_ifft_vec",
     "add_opening_evaluations_to_transcript", "batch_open", "export_transcript"}

\* Widgets commit to the permutation polynomial, by way of the queue or at
\* once, or early and again in time, or not at all.  One knows of "zeta", one
\* wants the FFT of a polynomial it has not stored.
Adds(elems) == [elements |-> elems, items |-> <<>>]
Queues(item) == [elements |-> <<>>, items |-> <<item>>]
Point(value) == Serialize(G1Width, value)
MCNoZeta == {<<Adds(<<>>), Adds(<<>>), Adds("Z_PERM" :> Point("z"))>>}
MCWidgetRounds == MCNoZeta \cup
    {<<Adds(<<>>), Adds("zeta" :> Serialize(FrWidth, 3)),
       Queues(ScalarMultiplication("Z_PERM", 9, 1))>>,
     <<Adds("Z_PERM" :> Point("y")), Adds(<<>>),
       Adds(("Z_PERM" :> Point("z")) @@ ("zeta" :> Serialize(FrWidth, 3)))>>,
     <<Adds(<<>>), Queues(Fft("z_perm", 0)), Adds(<<>>)>>,
     <<Adds(<<>>), Adds(<<>>), Adds(<<>>)>>}
MCOpeningElements == "w_1" :> Serialize(FrWidth, 5)

\* The rounds in the order of verifier/test.rs:159-188.  Sizes are those the
\* prover's serialization gives, twice a value's own.
Entry(name, num_bytes) ==
    [name |-> name, num_bytes |-> num_bytes, derived_by_verifier |-> FALSE]
Round(entries, num_challenges, challenge) ==
    [elements |-> entries, num_challenges |-> num_challenges,
     challenge |-> challenge]
Entries(tags) == [i \in WireIndices |-> Entry(tags[i], 2 * G1Width)]
MCround_manifests ==
    << Round(<<Entry("circuit_size", 4), Entry("public_input_size", 4)>>, 1, "init"),
       Round(<<Entry("public_inputs", 2 * num_public_inputs * FrWidth)>> \o Entries(CommitTags), 1, "eta"),
       Round(<<>>, 2, "beta"),
       Round(<<Entry("Z_PERM", 4)>>, 1, "alpha"),
       Round(Entries(QuotientTags), 1, "z"),
       Round(<<Entry("t", 2), Entry("w_1", 2)>>, 1, "nu"),
       Round(<<>>, 1, "separator") >>
==============================================================================
