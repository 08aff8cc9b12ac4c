-------------------------- MODULE TranscriptClients --------------------------
(***************************************************************************)
(* A prover's transcript, the proof it is exported to, and the transcript  *)
(* that a verifier makes of the proof (transcript.rs).  The prover adds    *)
(* elements when it likes, again after they were hashed too; a proof may   *)
(* arrive short; the verifier adds the elements it derives itself.         *)
(***************************************************************************)
EXTENDS Transcript

CONSTANTS
    Kind,     \* element name -> "bytes", "field", "group" or "vector"
    Values,   \* element name -> the values it is added with
    NoMock,
    MaxReplacements \* bound on how often an element is added again

VARIABLES
    phase,    \* "proving", "mocking", "exported", "verifying", or "refused" by a panic
    given,    \* element name -> the value it was added with last
    hashed,   \* round -> the prover's elements when it was derived
    mocked,   \* the challenge and circuit size that inputs are being, or were just, mocked for
    proof,    \* the bytes exported
    replaced, \* how often an element was added again
    v_elements, v_challenges, v_current_round, v_current_challenge, v_hashed

proverVars == <<elements, challenges, current_round, current_challenge, given, hashed, mocked>>
verifierVars == <<v_elements, v_challenges, v_current_round, v_current_challenge, v_hashed>>
vars == <<proverVars, verifierVars, phase, proof, replaced>>

Verifier == INSTANCE Transcript WITH
    elements <- v_elements, challenges <- v_challenges,
    current_round <- v_current_round, current_challenge <- v_current_challenge

Rounds == 1 .. num_rounds
Entries(r) == ToSet(round_manifests[r].elements)
AllEntries == UNION {Entries(r) : r \in Rounds}
HasChallenges(r) == round_manifests[r].num_challenges > 0

\* A name stands for one element, and for one round's challenges.
ASSUME ManifestAssumption ==
    /\ num_rounds \in Nat /\ DOMAIN round_manifests = Rounds
    /\ \A r \in Rounds : /\ round_manifests[r].elements \in Seq(Entries(r))
                         /\ round_manifests[r].num_challenges \in Nat
    /\ \A e \in AllEntries : e.num_bytes \in Nat /\ e.derived_by_verifier \in BOOLEAN
    /\ \A q, r \in Rounds : round_manifests[q].challenge = round_manifests[r].challenge => q = r
    /\ \A d, e \in AllEntries : d.name = e.name => d = e
    /\ DOMAIN Kind = {e.name : e \in AllEntries}
    /\ \A name \in DOMAIN Kind : \A value \in Values[name] :
          Kind[name] = "vector" => Len(value) \in Nat /\ DOMAIN value = 1 .. Len(value)

Init ==
    /\ TranscriptInit
    /\ Verifier!TranscriptInit
    /\ phase = "proving"
    /\ given = <<>>
    /\ hashed = <<>>
    /\ v_hashed = <<>>
    /\ mocked = NoMock
    /\ proof = <<>>
    /\ replaced = 0

-----------------------------------------------------------------------------
(* The prover.                                                               *)

\* An element may be added again, to either side's elements.
CountsReplacement(element_name, elems) ==
    /\ replaced' = replaced + IF element_name \in DOMAIN elems THEN 1 ELSE 0
    /\ replaced' <= MaxReplacements

\* The ways that an element gets its bytes.
AddAs(kind, element_name, value) ==
    \/ kind = "bytes" /\ add_element(element_name, <<Chunk(4, value)>>)
    \/ kind = "field" /\ add_field_element(element_name, value)
    \/ kind = "group" /\ add_group_element(element_name, value)
    \/ kind = "vector" /\ put_field_element_vector(element_name, value)

ProverAdds(element_name, value) ==
    /\ phase = "proving"
    /\ CountsReplacement(element_name, elements)
    /\ AddAs(Kind[element_name], element_name, value)
    /\ given' = With(given, element_name, value)
    /\ mocked' = NoMock
    /\ UNCHANGED <<hashed, phase, proof, verifierVars>>

ProverDerives ==
    /\ phase = "proving"
    /\ current_round < num_rounds
    /\ LET challenge_name == round_manifest.challenge
       IN  /\ FiatShamirAsserts(challenge_name, elements)
           /\ apply_fiat_shamir(challenge_name, elements)
    /\ hashed' = With(hashed, current_round + 1, elements)
    /\ mocked' = NoMock
    /\ UNCHANGED <<given, phase, proof, replaced, verifierVars>>

\* The buffer of ones that an element is mocked with, or the circuit's size.
MockBuffer(entry, circuit_size) ==
    IF entry.name = "circuit_size" THEN <<Chunk(4, circuit_size)>>
    ELSE IF entry.num_bytes = 0 THEN <<>>
    ELSE <<Chunk(entry.num_bytes, "ones")>>

\* The elements with those of a round mocked.
Mocked(r, circuit_size) ==
    [name \in DOMAIN elements \cup {e.name : e \in Entries(r)} |->
        IF \E e \in Entries(r) : e.name = name
        THEN MockBuffer(CHOOSE e \in Entries(r) : e.name = name, circuit_size)
        ELSE elements[name]]

\* A test mocks the inputs of a transcript that nothing was added to.
mock_inputs_prior_to_challenge(challenge_in, circuit_size) ==
    /\ phase = "proving"
    /\ elements = <<>>
    /\ current_round = 0
    /\ phase' = "mocking"
    /\ mocked' = [challenge |-> challenge_in, circuit_size |-> circuit_size]
    /\ UNCHANGED <<elements, challenges, current_round, current_challenge, given, hashed, proof,
                   replaced, verifierVars>>

\* Mutant of MockRound: the challenge asked for is derived before the loop ends.
MockRoundThrough ==
    LET elems == Mocked(current_round + 1, mocked.circuit_size)
    IN  /\ phase = "mocking"
        /\ phase' = IF round_manifest.challenge = mocked.challenge THEN "proving" ELSE "mocking"
        /\ apply_fiat_shamir(round_manifest.challenge, elems)
        /\ hashed' = With(hashed, current_round + 1, elems)
        /\ UNCHANGED <<mocked, given, proof, replaced, verifierVars>>

\* A round of the loop: all of its elements are added, then its challenges
\* derived, unless they are those asked for.
MockRound ==
    LET elems == Mocked(current_round + 1, mocked.circuit_size)
    IN  /\ phase = "mocking"
        /\ IF round_manifest.challenge = mocked.challenge
           THEN /\ phase' = "proving"
                /\ elements' = elems
                /\ UNCHANGED <<challenges, current_round, current_challenge, hashed>>
           ELSE /\ FiatShamirAsserts(round_manifest.challenge, elems)
                /\ apply_fiat_shamir(round_manifest.challenge, elems)
                /\ hashed' = With(hashed, current_round + 1, elems)
                /\ UNCHANGED phase
        /\ UNCHANGED <<mocked, given, proof, replaced, verifierVars>>

\* The elements the verifier does not derive, in the order of the manifest.
SentIn(entries) == FlattenSeq([i \in DOMAIN entries |->
    IF entries[i].derived_by_verifier THEN <<>> ELSE <<entries[i]>>])
SentEntries == FlattenSeq([r \in Rounds |-> SentIn(round_manifests[r].elements)])

export_transcript ==
    /\ phase = "proving"
    /\ ExportAsserts
    /\ phase' = "exported"
    /\ proof' = FlattenSeq([i \in DOMAIN SentEntries |-> elements[SentEntries[i].name]])
    /\ UNCHANGED <<proverVars, verifierVars, replaced>>

-----------------------------------------------------------------------------
(* The verifier.                                                             *)

\* The bytes that the first n elements of a proof are declared to have.
count(n) == Total([i \in DOMAIN SentEntries |-> SentEntries[i].num_bytes], n)
total_required_size == count(Len(SentEntries))

\* The number of chunks that end within the first `bytes` bytes of a buffer.
ChunksIn(buffer, bytes) ==
    Cardinality({k \in DOMAIN buffer : ByteLen(SubSeq(buffer, 1, k)) <= bytes})

\* The bytes from `first` up to `end` of a buffer: no chunk lies across either.
Slice(buffer, first, end) ==
    SubSeq(buffer, ChunksIn(buffer, first) + 1, ChunksIn(buffer, end))

Sent == {e \in AllEntries : ~ e.derived_by_verifier}

\* Mutant of LoadedElements: the count of bytes is not advanced by the sizes.
LoadedFromStart(input_transcript) ==
    [name \in {e.name : e \in Sent} |->
        Slice(input_transcript, 0, (CHOOSE e \in Sent : e.name = name).num_bytes)]

\* Each element is as many bytes as declared, from where the last one ended.
LoadedElements(input_transcript) ==
    [name \in {e.name : e \in Sent} |->
        LET i == CHOOSE j \in DOMAIN SentEntries : SentEntries[j].name = name
        IN  Slice(input_transcript, count(i - 1), count(i))]

\* A panic if the size is not what the manifest requires.
new_from_transcript(input_transcript) ==
    /\ phase = "exported"
    /\ IF ByteLen(input_transcript) # total_required_size
       THEN phase' = "refused" /\ UNCHANGED v_elements
       ELSE phase' = "verifying" /\ v_elements' = LoadedElements(input_transcript)
    /\ UNCHANGED <<proverVars, proof, replaced, v_challenges, v_current_round, v_current_challenge,
                   v_hashed>>

VerifierAdds(element_name, value) ==
    /\ phase = "verifying"
    /\ \E e \in AllEntries : e.name = element_name /\ e.derived_by_verifier
    /\ CountsReplacement(element_name, v_elements)
    /\ \/ Kind[element_name] = "field" /\ Verifier!add_field_element(element_name, value)
       \/ Kind[element_name] = "vector" /\ Verifier!put_field_element_vector(element_name, value)
    /\ UNCHANGED <<proverVars, phase, proof, v_hashed>>

VerifierDerives ==
    /\ phase = "verifying"
    /\ v_current_round < num_rounds
    /\ LET challenge_name == Verifier!round_manifest.challenge
       IN  /\ Verifier!FiatShamirAsserts(challenge_name, v_elements)
           /\ Verifier!apply_fiat_shamir(challenge_name, v_elements)
    /\ v_hashed' = With(v_hashed, v_current_round + 1, v_elements)
    /\ UNCHANGED <<proverVars, phase, proof, replaced>>

Next ==
    \/ \E element_name \in DOMAIN Kind : \E value \in Values[element_name] :
          ProverAdds(element_name, value) \/ VerifierAdds(element_name, value)
    \/ ProverDerives
    \/ \E r \in Rounds, circuit_size \in Values["circuit_size"] :
          mock_inputs_prior_to_challenge(round_manifests[r].challenge, circuit_size)
    \/ MockRound
    \/ export_transcript
    \/ \E lost \in {0, 1} : new_from_transcript(SubSeq(proof, 1, Len(proof) - lost))
    \/ VerifierDerives

Spec == Init /\ [][Next]_vars

-----------------------------------------------------------------------------
(* Properties.                                                               *)

\* A transcript has the elements of its manifest, and the challenges of the
\* rounds it has been through (apply_fiat_shamir).
WellFormed(elems, derived, rounds) ==
    /\ rounds \in 0 .. num_rounds
    /\ DOMAIN elems \subseteq {e.name : e \in AllEntries}
    /\ DOMAIN derived = {round_manifests[r].challenge : r \in {q \in 1 .. rounds : HasChallenges(q)}}

TypeOK ==
    /\ phase \in {"proving", "mocking", "exported", "verifying", "refused"}
    /\ WellFormed(elements, challenges, current_round)
    /\ WellFormed(v_elements, v_challenges, v_current_round)

\* If the prover and the verifier have the same challenges in a round, they
\* hashed the same elements in that round and in every round before that has
\* challenges (apply_fiat_shamir), whatever was replaced in between.
ChallengesBindElements ==
    \A r \in Rounds :
        /\ r <= current_round /\ r <= v_current_round /\ HasChallenges(r)
        /\ challenges[round_manifests[r].challenge] = v_challenges[round_manifests[r].challenge]
        => \A q \in 1 .. r : HasChallenges(q) =>
               \A e \in Entries(q) : hashed[q][e.name] = v_hashed[q][e.name]

\* A proof that arrives whole gives the verifier the elements of the prover that
\* it does not derive, and no other (export_transcript, new_from_transcript).
ProofReloads ==
    phase = "verifying" =>
        \A e \in AllEntries : ~ e.derived_by_verifier => v_elements[e.name] = elements[e.name]

\* As long as the prover has replaced nothing that it sends after hashing it,
\* a verifier that derives the same elements gets the same challenges.
VerifierFollowsProver ==
    \A r \in Rounds :
        /\ r <= current_round /\ r <= v_current_round /\ HasChallenges(r)
        /\ \A q \in 1 .. r : \A e \in Entries(q) :
              hashed[q][e.name] = IF e.derived_by_verifier THEN v_hashed[q][e.name]
                                  ELSE elements[e.name]
        => challenges[round_manifests[r].challenge] = v_challenges[round_manifests[r].challenge]

\* After mock_inputs_prior_to_challenge the challenge asked for is the next to
\* be derived, and nothing that its derivation asserts is missing.
MockReadiesChallenge ==
    mocked # NoMock /\ phase = "proving" => FiatShamirAsserts(mocked.challenge, elements)

\* "gets the value of an element in the transcript" (transcript.rs:510), of an
\* element that add_field_element or put_field_element_vector has added.
ElementsReadBack ==
    \A element_name \in DOMAIN given :
        /\ Kind[element_name] = "field" =>
              get_field_element(element_name) = given[element_name]
        /\ Kind[element_name] = "vector" =>
              get_field_element_vector(element_name) = given[element_name]
==============================================================================
