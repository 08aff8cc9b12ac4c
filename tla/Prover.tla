------------------------------- MODULE Prover -------------------------------
(***************************************************************************)
(* plonk/proof_system/prover.rs and commitment_scheme.rs: construct_proof, *)
(* with the proving key, work queue and transcript it drives.              *)
(*                                                                         *)
(* construct_proof is a fixed sequence of rounds.  Each begins by flushing *)
(* the queue and, but for the first, deriving its challenge (BeginRound);  *)
(* then it computes and queues (one action per round); then, but for the   *)
(* fifth, the queue is processed, an item per step.  Which stubs of the    *)
(* source count as completed is Implemented; a stub that is reached        *)
(* panics, and a panic ends the program.                                   *)
(*                                                                         *)
(* Random widgets are trait objects that get the transcript and the queue: *)
(* what they add to both, and the numerator they leave in the quotient's   *)
(* parts, is chosen from constants.  Transition widgets drop the term they *)
(* compute (transition_widget.rs:145-153) and so change nothing here.  No  *)
(* settings of the source have is_plookup.                                 *)
(***************************************************************************)
EXTENDS WorkQueue

CONSTANTS
    program_width,
    num_public_inputs,
    quotient_polynomial_parts, \* the four cells the proving key made
    witness,          \* the evaluations callers store for each wire
    WireDraws,        \* what rng draws for the wires: three for each
    QuotientDraws,    \* and for the quotient: one for each wire but the last
    Numerators,       \* what random widgets leave in the parts, n each
    WidgetRounds,     \* what they add to the transcript and to the queue in
                      \* rounds 1 to 3, as [elements, items]
    OpeningElements,  \* what add_opening_evaluations_to_transcript adds
    transform_slices(_),  \* the divided and transformed slices
    lagrange_1,           \* what compute_lagrange_polynomial_fft makes of zeros
    field_add(_, _),
    field_sub(_, _),
    MaxProvers        \* bounds the provers that use the key

\* The settings cut four roots out of the vanishing polynomial, and callers
\* leave as many rows after the public inputs.
num_roots_cut_out_of_vanishing_polynomial == 4

ASSUME ProverAssumption ==
    /\ program_width \in {3, 4}
    /\ num_public_inputs \in 0 .. n - num_roots_cut_out_of_vanishing_polynomial
    /\ quotient_polynomial_parts \in [1 .. 4 -> Refs]
    /\ \A i, j \in 1 .. 4 :
          quotient_polynomial_parts[i] = quotient_polynomial_parts[j] => i = j

VARIABLES
    round,    \* where construct_proof is, or how the last call ended
    begun,    \* whether the round has got its challenge
    widgets,  \* what the prover's random widgets add, round by round
    provers   \* the provers made on this key so far

proverVars == <<round, begun, widgets, provers>>
vars == <<storeVars, transcriptVars, queueVars, proverVars>>

WireTags == <<"w_1", "w_2", "w_3", "w_4">>
CommitTags == <<"W_1", "W_2", "W_3", "W_4">>
QuotientTags == <<"T_1", "T_2", "T_3", "T_4">>
WireIndices == 1 .. program_width

Part(i) == quotient_polynomial_parts[i]
PartRefs == {Part(i) : i \in 1 .. 4}

\* Mutant of Held: the key does not keep the parts alive.
HeldByTheQueue == ItemRefs(work_items)

Held == PartRefs \cup ItemRefs(work_items)

\* Several elements are added, one after the other.
WithAll(elems, added) ==
    [e \in DOMAIN elems \cup DOMAIN added |->
        IF e \in DOMAIN added THEN added[e] ELSE elems[e]]

\* What the prover itself sends, but for the evaluations of the fifth round.
ProverElements ==
    {"circuit_size", "public_input_size", "public_inputs"}
    \cup {CommitTags[i] : i \in 1 .. 4} \cup {QuotientTags[i] : i \in 1 .. 4}

\* The names that an item is about.
ItemNames(item) ==
    {Monomial(item.tag),
     IF item.work = "Ifft" THEN Lagrange(item.tag) ELSE FftForm(item.tag)}

\* A widget commits to polynomials of the key, under names of its own.
WidgetItem(item) ==
    /\ item.mul_scalars \in PartRefs \cup {NoRef}
    /\ \/ /\ item.work = "ScalarMultiplication"
          /\ item.mul_scalars # NoRef
          /\ item.tag \notin ProverElements
       \/ /\ item.work \in {"Ifft", "Fft", "SmallFft"}
          /\ ItemNames(item) \subseteq Names

ASSUME KeyAssumption ==
    /\ \A i \in WireIndices :
          {Monomial(WireTags[i]), Lagrange(WireTags[i]), FftForm(WireTags[i])} \subseteq Names
    /\ FftForm("lagrange_1") \in Names
    /\ \A i \in WireIndices : /\ IsPolynomial(witness[i])
                              /\ DOMAIN witness[i].coefficients = 0 .. n - 1
    /\ ~ IsPolynomial(Freed)
    /\ \A draws \in WireDraws : \A i \in WireIndices :
          draws[i] = [k \in 0 .. 2 |-> draws[i][k]]

ASSUME WidgetsAssumption ==
    /\ \A added \in WidgetRounds : \A i \in 1 .. 3 :
          /\ added[i].items \in Seq(ToSet(added[i].items))
          /\ \A item \in ToSet(added[i].items) : WidgetItem(item)
          /\ DOMAIN added[i].elements \cap ProverElements = {}
    /\ DOMAIN OpeningElements \cap ProverElements = {}

\* No challenge is derived twice.
ASSUME RoundsAssumption ==
    /\ num_rounds \in Nat
    /\ \A q, r \in 1 .. num_rounds :
          round_manifests[q].challenge = round_manifests[r].challenge => q = r

Rounds == <<"preamble", "first", "second", "third", "fourth", "fifth", "sixth",
            "export">>
RoundAfter(r) == Rounds[1 + CHOOSE i \in DOMAIN Rounds : Rounds[i] = r]

Challenge ==
    [preamble |-> "init", second |-> "eta", third |-> "beta", fourth |-> "alpha",
     fifth |-> "z", sixth |-> "nu"]

\* Prover::new on a key, with the random widgets its user adds.
Init ==
    /\ polynomial_map = [k \in Names |-> NoRef]
    /\ cells = [r \in Refs |->
                  IF r \in PartRefs \ {Part(4)} THEN new_polynomial(n + 1)
                  ELSE IF r = Part(4) THEN new_polynomial(n) ELSE Freed]
    /\ TranscriptInit /\ QueueInit
    /\ round = "new" /\ begun = FALSE
    /\ widgets \in WidgetRounds
    /\ provers = 1

Idle == ~processing /\ panic = "no"
Resting == round \in {"new", "ok", "err"}

-----------------------------------------------------------------------------
(* What callers do between proofs.                                           *)

\* A composer stores the wires it has not stored yet.
StoreWitness(i) ==
    /\ Idle /\ Resting
    /\ ~contains(Lagrange(WireTags[i]))
    /\ put(Lagrange(WireTags[i]), witness[i], Held)
    /\ UNCHANGED <<transcriptVars, queueVars, proverVars>>

construct_proof ==
    /\ Idle /\ Resting
    /\ round' = "preamble"
    /\ begun' = FALSE
    /\ UNCHANGED <<storeVars, transcriptVars, queueVars, widgets, provers>>

\* Another prover on the same key: its queue and transcript are new.
NewProver ==
    /\ Idle /\ round \in {"ok", "err"} /\ provers < MaxProvers
    /\ elements' = <<>> /\ challenges' = <<>>
    /\ current_round' = 0 /\ current_challenge' = NoChallenge
    /\ work_items' = <<>> /\ queue_pos' = 0
    /\ cells' = Reclaim(cells, polynomial_map, PartRefs)
    /\ round' = "new"
    /\ widgets' \in WidgetRounds
    /\ provers' = provers + 1
    /\ UNCHANGED <<polynomial_map, processing, panic, begun>>

-----------------------------------------------------------------------------
(* How a round begins and ends.                                              *)

\* The sizes are added before the first challenge, the four lowest bytes of each.
Bytes32(x) == [i \in 1 .. 4 |-> Chunk(1, (x \div 256 ^ (4 - i)) % 256)]
ElementsToHash ==
    IF round = "preamble"
    THEN With(With(elements, "circuit_size", Bytes32(n)),
              "public_input_size", Bytes32(num_public_inputs))
    ELSE elements

BeginTrouble ==
    IF round \notin DOMAIN Challenge THEN "no"
    ELSE IF "apply_fiat_shamir" \notin Implemented THEN "todo"
    ELSE IF ~FiatShamirAsserts(Challenge[round], ElementsToHash) THEN "assert"
    ELSE "no"

BeginRound ==
    /\ Idle /\ ~Resting /\ round # "export" /\ ~begun
    /\ BeginTrouble = "no"
    /\ flush_queue(PartRefs)
    /\ IF round \in DOMAIN Challenge
       THEN apply_fiat_shamir(Challenge[round], ElementsToHash)
       ELSE UNCHANGED transcriptVars
    /\ begun' = TRUE
    /\ UNCHANGED <<panic, round, widgets, provers>>

\* A round has queued its items and process_queue is called.
QueueAndProcess(items) ==
    /\ work_items' = work_items \o items
    /\ processing' = TRUE
    /\ UNCHANGED <<queue_pos, panic>>

In(r) == Idle /\ round = r /\ begun

FinishRound ==
    /\ FinishQueue(PartRefs)
    /\ round' = RoundAfter(round)
    /\ begun' = FALSE
    /\ UNCHANGED <<widgets, provers>>

-----------------------------------------------------------------------------
(* The rounds.                                                               *)

\* Mutant of Blinded: a row too late.
BlindedLate(p, draws) ==
    [p EXCEPT !.coefficients =
        [k \in DOMAIN @ |->
            IF k - (n + 1 - num_roots_cut_out_of_vanishing_polynomial) \in 0 .. 2
            THEN draws[k - (n + 1 - num_roots_cut_out_of_vanishing_polynomial)]
            ELSE @[k]]]

\* Three rows before the last of the four cut out get what rng draws.
Blinded(p, draws) ==
    [p EXCEPT !.coefficients =
        [k \in DOMAIN @ |->
            IF k - (n - num_roots_cut_out_of_vanishing_polynomial) \in 0 .. 2
            THEN draws[k - (n - num_roots_cut_out_of_vanishing_polynomial)]
            ELSE @[k]]]

\* The wires are blinded in place one after the other; a missing one makes the
\* call return Err with those before it blinded.
execute_preamble_round(draws) ==
    LET Reached == {i \in WireIndices :
                      \A j \in 1 .. i : contains(Lagrange(WireTags[j]))}
        WireAt(r) == {i \in Reached : get(Lagrange(WireTags[i])) = r}
    IN  /\ In("preamble")
        /\ cells' = [r \in Refs |->
              IF WireAt(r) = {} THEN cells[r]
              ELSE Blinded(cells[r], draws[CHOOSE i \in WireAt(r) : TRUE])]
        /\ IF Reached = WireIndices
           THEN /\ QueueAndProcess([i \in WireIndices |-> Ifft(WireTags[i])])
                /\ UNCHANGED <<round, begun>>
           ELSE /\ round' = "err" /\ begun' = FALSE
                /\ UNCHANGED queueVars
        /\ UNCHANGED <<polynomial_map, transcriptVars, widgets, provers>>

\* Mutant of domain_size_flag: the third as well.
domain_size_flag_third(i) == IF i - 1 >= 2 THEN n ELSE n + 1

\* The fourth wire and part are committed to with n points, the rest with n+1.
domain_size_flag(i) == IF i - 1 > 2 THEN n ELSE n + 1

commit(coefficients, tag, item_constant) ==
    ScalarMultiplication(tag, item_constant, coefficients)

\* Mutant of public_wires: the coefficients are read.
public_wires_monomial ==
    [i \in 1 .. num_public_inputs |-> Stored(Monomial("w_2")).coefficients[i - 1]]

public_wires ==
    [i \in 1 .. num_public_inputs |-> Stored(Lagrange("w_2")).coefficients[i - 1]]

\* compute_wire_commitments, and the widgets.  What is read is there: the
\* preamble got w_2_lagrange, and the inverse FFTs stored the wires.
execute_first_round ==
    /\ In("first")
    /\ QueueAndProcess([i \in WireIndices |->
          commit(get(Monomial(WireTags[i])), CommitTags[i], domain_size_flag(i))]
          \o widgets[1].items)
    /\ elements' = WithAll(With(elements, "public_inputs",
                                SerializeVector(public_wires)), widgets[1].elements)
    /\ UNCHANGED <<storeVars, challenges, current_round, current_challenge,
                   proverVars>>

execute_second_round ==
    /\ In("second")
    /\ QueueAndProcess(widgets[2].items)
    /\ elements' = WithAll(elements, widgets[2].elements)
    /\ UNCHANGED <<storeVars, challenges, current_round, current_challenge,
                   proverVars>>

\* Mutant of execute_third_round: process_queue is not called after it.
execute_third_round_only ==
    /\ In("third")
    /\ work_items' = widgets[3].items \o [i \in WireIndices |-> Fft(WireTags[i], 0)]
    /\ elements' = WithAll(elements, widgets[3].elements)
    /\ round' = "fourth" /\ begun' = FALSE
    /\ UNCHANGED <<storeVars, queue_pos, processing, panic, challenges,
                   current_round, current_challenge, widgets, provers>>

execute_third_round ==
    /\ In("third")
    /\ QueueAndProcess(widgets[3].items \o [i \in WireIndices |-> Fft(WireTags[i], 0)])
    /\ elements' = WithAll(elements, widgets[3].elements)
    /\ UNCHANGED <<storeVars, challenges, current_round, current_challenge,
                   proverVars>>

\* The coefficients of the parts: t_1 to t_3 have n+1, t_4 has n.
Parts == [i \in 1 .. 4 |-> cells[Part(i)].coefficients]

\* Widgets fill the first n coefficients of each.
Filled(t, numerator) ==
    [i \in 1 .. 4 |-> [k \in DOMAIN t[i] |->
        IF k < n THEN numerator[i][k] ELSE t[i][k]]]

\* The slices that are divided and transformed are of one coefficient each.
SlicesTransformed(t) ==
    LET slices == transform_slices([i \in 1 .. 4 |-> t[i][0]])
    IN  [i \in 1 .. 4 |-> [t[i] EXCEPT ![0] = slices[i]]]

\* A quotient of degree 3n: its last coefficient moves from t_4 to t_3.
LastMoved(t) ==
    IF program_width = 3
    THEN [t EXCEPT ![3] = [@ EXCEPT ![n] = t[4][0]], ![4] = [@ EXCEPT ![0] = Zero]]
    ELSE t

\* Mutant of WithBlinding: each part loses the draw it gains.
WithBlindingOfItsOwn(t, draws) ==
    [i \in 1 .. 4 |-> [k \in DOMAIN t[i] |->
        IF k = n /\ i < program_width THEN field_add(t[i][k], draws[i])
        ELSE IF k = 0 /\ i < program_width THEN field_sub(t[i][k], draws[i])
        ELSE t[i][k]]]

\* add_blinding_to_quotient_polynomial_parts
WithBlinding(t, draws) ==
    [i \in 1 .. 4 |-> [k \in DOMAIN t[i] |->
        IF k = n /\ i < program_width THEN field_add(t[i][k], draws[i])
        ELSE IF k = 0 /\ i \in 2 .. program_width
             THEN field_sub(t[i][k], draws[i - 1])
        ELSE t[i][k]]]

lagrange_1_fft ==
    [size |-> 4 * n + 8,
     coefficients |-> [i \in 0 .. 4 * n + 7 |->
        IF i < 4 * n THEN lagrange_1[i] ELSE lagrange_1[i - 4 * n]]]

QuotientStubs == {"divide_by_pseudo_vanishing_polynomial", "coset_ifft_vec"}

execute_fourth_round(numerator, draws) ==
    LET t == WithBlinding(LastMoved(SlicesTransformed(Filled(Parts, numerator))), draws)
        heap == [r \in Refs |->
                   IF r \in PartRefs
                   THEN [cells[r] EXCEPT !.coefficients =
                            t[CHOOSE i \in 1 .. 4 : Part(i) = r]]
                   ELSE cells[r]]
    IN  /\ In("fourth") /\ QuotientStubs \subseteq Implemented
        /\ PutInto(heap, FftForm("lagrange_1"), lagrange_1_fft, Held)
        /\ QueueAndProcess([i \in WireIndices |->
              commit(Part(i), QuotientTags[i], domain_size_flag(i))])
        /\ UNCHANGED <<transcriptVars, proverVars>>

\* compute_quotient_evaluation: zeta is read as an element, and of each part
\* the first coefficient and, of all but t_4, the last go into t.
t_eval ==
    [zeta |-> get_field_element("zeta"),
     first |-> [i \in 1 .. 4 |-> Parts[i][0]],
     last |-> [i \in 1 .. 3 |-> Parts[i][n]]]

FifthTrouble ==
    IF ~has_element("zeta") THEN "assert"
    ELSE IF "add_opening_evaluations_to_transcript" \notin Implemented THEN "todo"
    ELSE "no"

\* The queue is not processed after this round.
execute_fifth_round ==
    /\ In("fifth") /\ FifthTrouble = "no"
    /\ elements' = With(WithAll(elements, OpeningElements), "t", Serialize(FrWidth, t_eval))
    /\ round' = RoundAfter(round)
    /\ begun' = FALSE
    /\ UNCHANGED <<storeVars, queueVars, challenges, current_round,
                   current_challenge, widgets, provers>>

execute_sixth_round ==
    /\ In("sixth") /\ "batch_open" \in Implemented
    /\ QueueAndProcess(<<>>)
    /\ UNCHANGED <<storeVars, transcriptVars, proverVars>>

ExportTrouble ==
    IF "export_transcript" \notin Implemented THEN "todo"
    ELSE IF ~ExportAsserts THEN "assert" ELSE "no"

export_proof ==
    /\ Idle /\ round = "export" /\ ExportTrouble = "no"
    /\ flush_queue(PartRefs)
    /\ round' = "ok"
    /\ UNCHANGED <<transcriptVars, panic, begun, widgets, provers>>

\* Why a round panics: a challenge that cannot be derived, one that is not the
\* bytes of a field element, a missing element, or a stub.  What a round did
\* before it panicked is left out: nobody is left to read it.
Troubles ==
    {IF ~begun /\ round # "export" THEN BeginTrouble
     ELSE CASE round = "fourth" ->
                 IF QuotientStubs \subseteq Implemented THEN "no" ELSE "todo"
            [] round = "fifth" -> FifthTrouble
            [] round = "sixth" -> IF "batch_open" \in Implemented THEN "no" ELSE "todo"
            [] round = "export" -> ExportTrouble
            [] OTHER -> "no"}
    \cup (IF round = "fourth" /\ begun THEN {"unwrap"} ELSE {})

PanicInRound ==
    /\ Idle /\ ~Resting
    /\ panic' \in Troubles \ {"no"}
    /\ UNCHANGED <<storeVars, transcriptVars, work_items, queue_pos, processing,
                   proverVars>>

-----------------------------------------------------------------------------

Process ==
    \/ ProcessItem(Held) /\ UNCHANGED proverVars
    \/ PanicOnItem /\ UNCHANGED proverVars

Stopped == panic # "no" /\ UNCHANGED vars

Next ==
    \/ \E i \in WireIndices : StoreWitness(i)
    \/ construct_proof
    \/ NewProver
    \/ BeginRound
    \/ \E draws \in WireDraws : execute_preamble_round(draws)
    \/ execute_first_round
    \/ execute_second_round
    \/ execute_third_round
    \/ \E numerator \in Numerators, draws \in QuotientDraws :
          execute_fourth_round(numerator, draws)
    \/ execute_fifth_round
    \/ execute_sixth_round
    \/ export_proof
    \/ Process
    \/ FinishRound
    \/ PanicInRound
    \/ Stopped

Spec == Init /\ [][Next]_vars

-----------------------------------------------------------------------------
(* Properties.                                                               *)

\* Names and queued items lead to allocated cells, no name to a part of the
\* quotient, and the counters are in range.
TypeOK ==
    /\ MapTypeOK
    /\ \A name \in Names : contains(name) =>
          get(name) \notin PartRefs /\ cells[get(name)] # Freed
    /\ \A r \in Held : cells[r] # Freed
    /\ queue_pos \in 0 .. Len(work_items)
    /\ current_round \in 0 .. num_rounds
    /\ Resting \/ \E i \in DOMAIN Rounds : round = Rounds[i]

\* What a wire's commitment in the transcript commits to is the interpolation
\* of the evaluations the key still stores, in which the three rows are what
\* rng drew: blinding, the inverse FFT and the commitment happen in this order
\* in separate rounds, through references to polynomials other rounds change.
CommittedWiresAreBlinded ==
    \A i \in WireIndices : has_element(CommitTags[i]) =>
        LET evaluations == Stored(Lagrange(WireTags[i])).coefficients
            row == n - num_roots_cut_out_of_vanishing_polynomial
        IN  /\ elements[CommitTags[i]] =
                  Serialize(G1Width, pippenger_unsafe(ifft(evaluations), n))
            /\ [k \in 0 .. 2 |-> evaluations[row + k]] \in {d[i] : d \in WireDraws}

\* The public inputs in the transcript are the first rows of the second wire as
\* the composer stored it, although they are read after it was blinded, and
\* although the key may have been through a proof before.
PublicInputsAreTheWitness ==
    has_element("public_inputs") =>
        elements["public_inputs"] =
            SerializeVector([i \in 1 .. num_public_inputs |->
                                witness[2].coefficients[i - 1]])

\* The commitment to a part of the quotient is to all its coefficients, the
\* one that blinding or the move from t_4 put past the n-th included.
QuotientCommitmentsAreComplete ==
    \A i \in WireIndices : has_element(QuotientTags[i]) =>
        elements[QuotientTags[i]] =
            Serialize(G1Width, pippenger_unsafe(Parts[i], n + 1))

\* The quotient of which t_1 to t_4 are the parts.
Reconstructed(t) ==
    [m \in 0 .. 4 * n - 1 |->
        IF m > 0 /\ m % n = 0 THEN field_add(t[m \div n + 1][0], t[m \div n][n])
        ELSE t[m \div n + 1][m % n]]

UnusedParts == [i \in 1 .. 4 |-> new_polynomial(IF i < 4 THEN n + 1 ELSE n).coefficients]

QuotientIsKept ==
    \E numerator \in Numerators :
        Reconstructed(Parts') =
            Reconstructed(SlicesTransformed(Filled(UnusedParts, numerator)))

\* On the first use of a key, the parts that are committed to make up the
\* quotient that was transformed: moving its last coefficient and blinding
\* the parts cancel out over the four.
FirstProofKeepsQuotient ==
    [][In("fourth") /\ processing' /\ provers = 1 => QuotientIsKept]_vars

\* Every item a round queues is processed before the next round flushes the
\* queue.
NothingQueuedIsDropped ==
    Idle /\ ~Resting /\ ~begun => work_items = <<>>

\* The chain of hashes behind the last challenge holds, round by round, the
\* elements as they are in the transcript now: nothing the verifier is sent
\* was added or replaced after a challenge was derived without it, neither by
\* a later round nor by calling construct_proof once more.
LastChallengeBindsTheProof ==
    LET back[k \in 0 .. current_round] ==
            IF k = 0 THEN current_challenge ELSE back[k - 1].of.previous
    IN  \A r \in 1 .. current_round :
            back[current_round - r].of.data =
                FlattenSeq([i \in DOMAIN round_manifests[r].elements |->
                               elements[round_manifests[r].elements[i].name]])

\* The verifier's test (verifier/test.rs:549-563) has construct_proof return a
\* proof, and takes the challenge z for zeta (167-169): the fifth round finds
\* the point it evaluates at.
EvaluationPointIsThere == In("fifth") => FifthTrouble # "assert"
==============================================================================
