----------------------------- MODULE Transcript -----------------------------
(***************************************************************************)
(* transcript.rs: the elements the prover sends, in rounds a manifest      *)
(* fixes, and the Fiat-Shamir challenges derived from them.                *)
(*                                                                         *)
(* The bytes of an element are a sequence of chunks, each one serialized   *)
(* value with its width; a challenge is the data it is the hash of, since  *)
(* the hash is taken to be injective.  The Fiat-Shamir transform is todo!  *)
(* in the source; what is modelled is the algorithm its comment spells     *)
(* out, for a build in which it has been completed.                        *)
(***************************************************************************)
EXTENDS Integers, SequencesExt, TLC

CONSTANTS
    round_manifests,     \* the rounds: their elements and their challenge
    challenges_per_hash, \* PrngOutputSize / num_challenge_bytes
    FrWidth,             \* serialized_size of a field element
    G1Width              \* serialized_size of a point

ASSUME TranscriptAssumption == {challenges_per_hash, FrWidth, G1Width} \subseteq Nat \ {0}

VARIABLES
    elements,          \* name -> chunks, for the names added so far
    challenges,        \* challenge name -> sequence of challenges
    current_round,
    current_challenge  \* the last challenge of the last round

transcriptVars == <<elements, challenges, current_round, current_challenge>>

num_rounds == Len(round_manifests)

\* A serialized value, and the zero bytes a buffer is made with.
Chunk(width, value) == [width |-> width, value |-> value]
ZeroBytes == "zero bytes"

\* The sum of the first n sizes.
Total(sizes, n) ==
    LET total[i \in 0 .. n] == IF i = 0 THEN 0 ELSE total[i - 1] + sizes[i] IN total[n]

\* The length of a buffer.
ByteLen(chunks) == Total([i \in DOMAIN chunks |-> chunks[i].width], Len(chunks))

NoChallenge == <<>>

TranscriptInit ==
    /\ elements = <<>>
    /\ challenges = <<>>
    /\ current_round = 0
    /\ current_challenge = NoChallenge

-----------------------------------------------------------------------------
(* Elements.                                                                 *)

With(elems, element_name, buffer) ==
    [e \in DOMAIN elems \cup {element_name} |->
        IF e = element_name THEN buffer ELSE elems[e]]

add_element(element_name, buffer) ==
    /\ elements' = With(elements, element_name, buffer)
    /\ UNCHANGED <<challenges, current_round, current_challenge>>

\* The buffer is made with the element's size and the element is then
\* appended to it: Write for Vec<u8> grows the vector.
Serialize(width, value) == <<Chunk(width, ZeroBytes), Chunk(width, value)>>

add_field_element(element_name, element) ==
    add_element(element_name, Serialize(FrWidth, element))

add_group_element(element_name, element) ==
    add_element(element_name, Serialize(G1Width, element))

\* The bytes of a sequence of field elements, each serialized the same way.
SerializeVector(es) == FlattenSeq([i \in DOMAIN es |-> Serialize(FrWidth, es[i])])

put_field_element_vector(element_name, es) ==
    add_element(element_name, SerializeVector(es))

has_element(element_name) == element_name \in DOMAIN elements

\* Deserializing reads the first FrWidth bytes: the zeros of the buffer.
get_field_element(element_name) == Head(elements[element_name]).value

\* Reads the buffer FrWidth bytes at a time.
get_field_element_vector(element_name) ==
    [i \in 1 .. ByteLen(elements[element_name]) \div FrWidth |->
        elements[element_name][i].value]

-----------------------------------------------------------------------------
(* Fiat-Shamir.                                                              *)

round_manifest == round_manifests[current_round + 1]

\* What the transform asserts: the round exists and is the challenge's, and
\* every element of the round is there with its declared size.  `elems` are the
\* elements at the time of the call.
FiatShamirAsserts(challenge_name, elems) ==
    /\ current_round < num_rounds
    /\ round_manifest.challenge = challenge_name
    /\ round_manifest.num_challenges > 0 =>
          \A e \in ToSet(round_manifest.elements) :
              /\ e.name \in DOMAIN elems
              /\ e.derived_by_verifier \/ ByteLen(elems[e.name]) = e.num_bytes

\* Mutant of RoundBuffer: only the first element of the round goes in.
RoundBufferOfFirst(round, previous, elems) ==
    [previous |-> previous,
     data |-> FlattenSeq([i \in DOMAIN round_manifests[round + 1].elements
                            \cap {1} |->
                 elems[round_manifests[round + 1].elements[i].name]])]

\* What a round hashes: the last challenge, then the elements in order.
RoundBuffer(round, previous, elems) ==
    [previous |-> previous,
     data |-> FlattenSeq([i \in DOMAIN round_manifests[round + 1].elements |->
                 elems[round_manifests[round + 1].elements[i].name]])]

\* Challenge j is a slice of the hash of the buffer, or, when there are more
\* challenges than slices, of the hash of that hash and a counter.
RoundChallenges(round, buffer) ==
    [j \in 1 .. round_manifests[round + 1].num_challenges |->
        [of |-> buffer, hash |-> (j - 1) \div challenges_per_hash,
         slice |-> (j - 1) % challenges_per_hash]]

\* Into a std::map: a challenge that is there stays what it is.
Inserted(derived, challenge_name, round_challenges) ==
    [c \in DOMAIN derived \cup {challenge_name} |->
        IF c \in DOMAIN derived THEN derived[c] ELSE round_challenges]

\* Mutant of apply_fiat_shamir: a round without challenges is not left early.
ApplyWithoutReturn(challenge_name, elems) ==
    LET fresh == RoundChallenges(current_round,
                     RoundBuffer(current_round, current_challenge, elems))
    IN  /\ current_round' = current_round + 1
        /\ challenges' = Inserted(challenges, challenge_name, fresh)
        /\ current_challenge' = IF fresh = <<>> THEN current_challenge ELSE Last(fresh)
        /\ elements' = elems

apply_fiat_shamir(challenge_name, elems) ==
    LET fresh == RoundChallenges(current_round,
                     RoundBuffer(current_round, current_challenge, elems))
    IN  /\ current_round' = current_round + 1
        /\ IF round_manifest.num_challenges = 0
           THEN UNCHANGED <<challenges, current_challenge>>
           ELSE /\ challenges' = Inserted(challenges, challenge_name, fresh)
                /\ current_challenge' = Last(fresh)
        /\ elements' = elems

has_challenge(challenge_name) == challenge_name \in DOMAIN challenges

\* What export_transcript's comment asserts: all elements, as declared.
ExportAsserts ==
    \A i \in DOMAIN round_manifests : \A e \in ToSet(round_manifests[i].elements) :
        /\ has_element(e.name)
        /\ e.derived_by_verifier \/ ByteLen(elements[e.name]) = e.num_bytes
==============================================================================
