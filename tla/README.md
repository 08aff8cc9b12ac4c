# Verification of barustenberg

TLA+ models of the PLONK prover in `barustenberg/src`, of the arithmetic under it and of
the circuit and the verifier around it: what is modelled, what TLC checks and what TLAPS
proves. The reference is the code; the crate is unfinished, and
much of this document is about which of its stubs a model has to stand in for.

## The system

`barustenberg` is a single-threaded Rust library. A *composer* turns a circuit into a
*proving key*; a *prover* made on the key runs `construct_proof`, eight steps that read
and write the key's *polynomial store* through reference-counted cells, defer their heavy
operations to a *work queue*, and record what the verifier is to see in a *transcript*,
from which the challenges of the Fiat-Shamir transform come.

| Component | State | Operations | Interacts with | What makes it correct |
| --- | --- | --- | --- | --- |
| Polynomial store (`proof_system/polynomial_store.rs`) | a map from names to `Rc<RefCell<Polynomial>>` | put, insert, get, remove, contains, sizes | everyone keeps clones of its `Rc`s and writes through them | behaves as a map from names to polynomials; no name changes another's polynomial; nothing is lost but what is removed |
| Polynomial (`polynomials/polynomial.rs`) | coefficients, and the size it was made with | new, resize, set_coefficient, interpolation, `+=`, `-=`, `*=` | content of the store | its vector is never shorter than its size; operators give the sum or product, whatever was resized before |
| Work queue (`proof_system/work_queue.rs`) | the queued items | add_to_queue, flush_queue, process_queue; counting, taking and giving back items by number | reads and writes the store, adds commitments to the transcript | items take effect once, in order, on what is stored under their names at that moment; a result goes where its item says |
| Transcript (`transcript.rs`) | named byte strings, challenges, the round | add/get/put of elements, apply_fiat_shamir, get_challenge, export | prover, queue, widgets | a challenge depends on everything sent before it; what is added can be read back |
| Prover (`plonk/proof_system/prover.rs`) | key, transcript, queue, widgets | construct_proof and its rounds | all of the above | commits to what it evaluates, blinded, in full, in the order of the protocol |
| Commitment scheme (`plonk/proof_system/commitment_scheme.rs`) | the openings | commit, generic_batch_open, the rest stubs | queue | |
| Proving key (`plonk/proof_system/proving_key.rs`) | store, domains, four quotient polynomials, reference string | new, init | shared by prover, queue and widgets | the parts are cells of their own |
| Other widgets (`plonk/proof_system/widgets`) | the key | a round's commitments, a quotient term | prover | |
| Polynomial arithmetic (`polynomials/polynomial_arithmetic.rs`) | arrays of its caller, scratch space | serial and parallel FFTs, partial FFTs, evaluation, L_1 on a coset, linear products, interpolation | prover, queue | each computes its definition, for every size and however many threads share it |
| Evaluation domain (`polynomials/evaluation_domain.rs`) | sizes, threads, lookup tables of roots | new | arithmetic | a round finds its roots in its row |
| Composer (`plonk/composer/composer_base.rs`) | variables, classes of equal ones as linked lists, public inputs, wires | add_variable, add_public_variable, set_public_input; assert_equal and gates by those who use the base | produces the key | two variables have the same real variable when they were asserted to be equal, and only then |
| Permutation mapping, public inputs (`plonk/proof_system/utils/permutation.rs`, `public_inputs`) | | permutation polynomials from a mapping, the public inputs' factor | composer, permutation widget | the grand product ends at the factor the verifier computes alone |
| Permutation widget (`widgets/random_widgets/permutation_widget.rs`) | powers of alpha | the verifier's quotient contribution, the next alpha | verifier | its parts sum to the identity that is to be checked |
| Reference strings (`srs`) | points | readers | queue | |
| Verifier, curves, settings, hashes, other crates | | stubs, tables, glue | | |

But for the loops of an FFT, whose threads write to disjoint elements, nothing runs in
parallel, and nothing survives the process. The hard behaviours are those
of *sharing* and *order*: an `Rc` that outlives the name it was got under; polynomials
that one round changes in place and a later one reads; work that is queued now and reads
its inputs later; transformations of a stored polynomial where a copy was meant; results
given back under a number that means something else by then; a round that fails or panics
half-way; a key that is used for a second proof; loops and tables whose bounds are right
for one size and not for the next; prover and verifier computing the same thing in two ways. `PROJECT.json` lists them line by line
under `hazards`.

## The modules

| Module | Models |
| --- | --- |
| `PolynomialMap` | abstract: a map from names to polynomials in which a step changes one name |
| `PolynomialStore` | the store: `polynomial_map` is the HashMap, `cells` the heap of reference-counted cells. `Reclaim` frees cells without references and so is part of every operation that drops one |
| `StoreClients` | the store and callers that keep handles, write through them and drop them |
| `Polynomial` | the operations on polynomials that the store's users need |
| `Transcript` | elements as sequences of chunks, rounds, challenges |
| `TranscriptClients` | a prover's transcript, the proof it is exported to, and a verifier's transcript made of that: `Transcript` once extended and once instantiated |
| `WorkQueue` | items and what they do; `process_queue` an item per step, with what makes an item panic; the interface for workers outside |
| `DeferredBatch` | abstract: jobs performed first in, first out, as functions of the polynomials known by name |
| `QueueClients` | a queue, a store and callers that use both in any order |
| `QueueWorkers` | the same with a worker that computes items outside |
| `Prover` | `construct_proof`: its rounds, on a key used by several provers |
| `Arithmetic` | bits, threads, domains and their tables; the transforms, sums, products and interpolations as operators on arrays; the operators of polynomials |
| `ArithmeticCalls` | callers of the arithmetic: an FFT a round per step, sequences of operators on one polynomial |
| `Composer` | variables, classes, public inputs, gates |
| `Permutation` | permutation polynomials and the public inputs' factor |
| `PermutationWidget` | the verifier's half of the permutation argument |
| `Circuit` | a composer filled in any order, compiled to permutation polynomials, proved and verified |
| `ToyField` | the field modulo 17, its transforms from their definitions, for the instances |
| `MC*` | instances for TLC |
| `PolynomialStore_proofs`, `StoreClients_proofs` | the store's lemmas and theorems |
| `Queue_proofs` | those of the queue, and of the queue with a worker |
| `Arithmetic_proofs` | laws of sums, products, powers and geometric sums in a field; how the threads share an evaluation; roots of unity and interpolation on their subgroup; bit reversal, the tables of roots and the pairs of a round; the serial FFT |
| `ArithmeticCalls_proofs` | theorems of the operators of polynomials, and of the results of the calls |
| `TranscriptClients_proofs`, `Prover_proofs`, `Circuit_proofs` | those of the transcripts, of `construct_proof`, of the composer with its permutation and the verifier's widget |

`PolynomialStore`, `Polynomial` and `Transcript` are extended by `WorkQueue`, which
`QueueClients` (and through it `QueueWorkers`) and `Prover` extend: a step of the prover or
of the queue is written with the operators of the store and of the transcript, whose
variables it shares, as the code shares them through `Rc<RefCell<..>>`.
`ArithmeticCalls` extends `Arithmetic` extends `Polynomial`; `Circuit` extends `Composer`
and `PermutationWidget`, which extends `Permutation`, which extends `Arithmetic`. A proof of
`Circuit` carries the transcript's content as a record; `Transcript` and `Prover` do not
compute values, and the prover's permutation widget is a stub, so nothing would be shared
but the names.

Code and model correspond as follows.

* A function of the source is an operator of the same name. Operators with primed
  variables are the calls; `held` is the set of references outside the store's map, which
  the calling module knows (handles, the scalars of queued items, the key's four parts).
* `put` and `insert` give a name a *new* cell; `get` hands out the cell; a write through it
  is `WriteThrough`. `remove` erases the entry before it tries to unwrap the `Rc`.
* `process_queue` sets `processing`; each `ProcessItem` does one item and moves
  `queue_pos`; `FinishQueue` is the `clear` at the end. `PanicOnItem` has the missing
  polynomial, the assertion on the reference string, and stubs. A panic ends the program:
  `panic` is set and nothing but `Stopped` is enabled.
* A round of the prover is `BeginRound` (flush, then the challenge), the round's own
  action, then `Process` steps and `FinishRound`, or `PanicInRound`. `execute_preamble_round`
  may return Err, after which the prover can be called again.
* A serialized element is the zeros that its buffer was made with followed by its bytes
  (`Serialize`): `transcript.rs:631-641` appends to a buffer that is already full size.
* In `Arithmetic` a loop whose passes write what no other pass reads is a function; one
  whose passes do is a fold in the order of the loop: the rounds of an FFT, the bit
  reversal, the passes of the linear product. Where a call panics is `...Panics`, where it
  returns Err is `...Fails`; what an Err leaves behind is part of the step. Overflow is
  modelled for builds with and without its checks where the code meets it: the index of
  `partial_fft_parallel_inner`, and `get_msb`, whose multiplication by a de Bruijn sequence
  (`get_msb.rs:40`) is a plain `*` and overflows for arguments from 64 on (`MsbOverflows`).
  `EvaluationDomain::new` and `compute_num_threads` take it of the size and of the number
  of processors, so that a build with the checks has no domains of 64 and more: whatever
  is said of a domain of such a size is said of the builds without.
* A class of the composer is the linked list that `next_var_index` and `prev_var_index`
  make. `classes` is what the callers asserted, kept beside it.
* Tags are strings, names pairs of a tag and a suffix; a field element is opaque but for
  `field_element_to_usize`, the number its memory holds.

### What stands in for stubs

* In the modules of the queue and the prover, FFTs, `ifft` and `pippenger_unsafe` are
  constant operators. `Implemented` names the
  primitives of the build that are not `todo!()`; another one panics when it is reached.
* `apply_fiat_shamir` and `export_transcript` are `todo!()` with the C++ they should become
  in a comment; the model follows that comment. The hash is taken to be injective.
  The comment's assertion lets the round be one past the last; the lookup of that
  round's manifest then fails, which `FiatShamirAsserts` has as one condition.
* Random widgets are trait objects whose implementation is a stub: what they add to the
  transcript and to the queue, and the numerator they leave in the first `n` coefficients of
  each quotient part, are constants.
* `ProvingKey::new` reaches a stub; the prover starts with the key it would make.
* `EvaluationDomain::new` ends in `todo!()`; `new_domain` has the fields it computes before,
  and those that the comment after it gives.
* The generators of the cosets (`permutation.rs`, `public_inputs/mod.rs`) are constants.
* No composer is built on `composer_base.rs` yet. `assert_equal`, `create_gate` and the
  compilation to copy cycles (`SigmaElement`, `IdElement`) follow what the base keeps for
  them and the worked example in its comment (lines 480 to 596), and are external.
* The prover's permutation widget is `todo!()`; `Prove` makes the grand product from its
  definition.

## What is checked

| Run | Question | Instance | Distinct states |
| --- | --- | --- | --- |
| `store` | is the store a map, and are failed removals harmless? | 2 names, 2 handles, 2 polynomials, 5 cells | 33 674 |
| `queue` | is the queue a batch of jobs, and does processing end? | n = 4, 1 wire, 3 items, 3 stores or writes, cosets 0 and 3 | 325 145 |
| `workers` | do results computed outside land under their tag? | n = 4, 2 wires, 2 items, 2 stores or writes | 542 296 |
| `prover` | does `construct_proof` commit to what it should, in order? | n = 8, width 3, 4 public inputs, 2 provers on one key | 12 462 |
| `arithmetic` | what do the transforms, products and operators compute, and where do they stop being right? | field of 17, domains of 2, 4, 8 and 16, 2 threads, up to 4 operators on a polynomial | 15 766 |
| `transcript` | do prover and verifier agree on what a challenge stands for? | 4 rounds, 5 elements, 2 challenges a hash, 1 replacement | 996 094 |
| `circuit` | does the verifier check the identity of the circuit that was built? | field of 41, up to 3 variables, 2 public inputs, 1 gate | 41 587 |

Bounds. Two names and two handles are what aliasing needs: a name shared with another name,
and with a handle that outlived it. `Refs` has one cell more than names and holders can
need, so `put` never lacks one. Three items let one item be queued before and one after
that which changes its input; the batch's merge of cosets is reached with the first and
the last coset. `n = 8` is the least circuit with the four rows that are cut out and four
public inputs right before them, which is where an off-by-one would let blinding touch an
input. The widgets of `MCProver` commit in time, through the queue, early and again, never,
or queue an item whose polynomial is missing; so all rounds, the early panics and the
return are reached, and a second call of `construct_proof` and a second prover on the same
key. In `MCQueueClients` the memory of the element 4 holds 1, and that of 5 holds 14, more
than the reference string has; in `MCProver` memory and element agree, since otherwise no
commitment of n+1 gets through. Sizes in the instance's manifest are the doubled ones that
the code's serialization gives.

The domains of `arithmetic` are the sizes at which something new happens: 2 has no round
after the first, 4 one, 8 is the first where a round that is no power of two is reached, 16
the first where threads share and where such a round comes before one that is. Three
processors make two threads, which `compute_num_threads` rounds down to. Transforms are
linear, so that inputs of one element each show what they do, and one of all elements that
they are; one array is its own bit reversal. Three roots are where the linear product's
range is longer than one and has ended before it starts; the partial FFT's index falls below zero at size 8 and not at 4. The
transcript's manifest has an element of each kind, a round without challenges, and one with
three, so that one hash does not make them. One replacement is enough for an element to be
hashed once and sent as another. In `circuit` three variables and one gate of three wires
make cycles within a row, across rows, and through both public inputs; the field of 41 has a
root of order 8, for up to three rows and the four reserved ones, and 5 cosets. One query is
at the point 1, where the verifier divides by zero, and one has a wrong evaluation.

Runs that find a disagreement between the code and what a comment or test says:

| Run | Shows |
| --- | --- |
| `queue_sizes` | a commitment to n coefficients is made to as many as Montgomery's form of n says |
| `prover_zeta` | the fifth round panics, since no round adds the element `zeta` |
| `lagrange` | on a target domain k times as large, the evaluations of L_1 are wrong but at every k-th point |
| `interpolation` | a polynomial made by `from_interpolations` does not go through its points: it is zero if one of them is, since the Err is dropped (`polynomial.rs:21`) |
| `transcript_readback` | a field element that was added reads back as the zeros its buffer was made with |

Disagreements that the models have, without a run of their own: the linear product of two
roots other than zero has no constant term, so that it does not vanish at them, where the
comment has `N(X) = ∏ (X - xi)` (`polynomial_arithmetic.rs:724`; the loop at 698 sums over an
empty range) and two such points are not interpolated either; the bit reversal of
`fft_inner_serial` copies an element over the one it should be exchanged with
(`polynomial_arithmetic.rs:71`), so that its result is not the transform of coefficients
that the reversal moves; `get_msb`'s tests for 0x80, for bit 31 of a `u32` and for bit 63 of
a `u64` (`get_msb.rs:138`, 114, 126) expect a value where a build with overflow checks, the
one tests are run in by default, panics; `remove` erases an entry and
returns Err for a polynomial that is held elsewhere (`polynomial_store.rs:63`); four small
FFTs are not an FFT, since they transform the stored polynomial one after the other
(`work_queue.rs:308`); an inverse FFT computed outside is replaced by zeros
(`work_queue.rs:164`); on the second proof with a key the first one's blinding is still in
the quotient (`prover.rs:619`).

### Properties

* `ImplementsMap`, `ImplementsBatch`: refinements of the abstract modules. Under
  `ImplementsBatch` each step of the queue and of its callers is a step on values known by
  name. The one trace of references is that multiplications take their scalars when they
  are performed; the abstract module lets these be rebound, to the same for all that share
  them.
* `NoAliasing`, `FailedRemoveKeepsPolynomialAlive`: sharing.
* `FftWrapsAround`: all three ways to make an `_fft` polynomial repeat the first four
  evaluations past the end, where widgets read the next row.
* `ProcessingEnds`: liveness, under weak fairness of `Run`: `process_queue` is a loop of the
  only thread, which nothing suspends. No fairness is assumed of callers.
* `CommitmentsLandUnderTheirTag`: items are got by count and put by position; for
  batches of the shapes the prover queues the two agree.
* `CommittedWiresAreBlinded`, `PublicInputsAreTheWitness`, `QuotientCommitmentsAreComplete`,
  `FirstProofKeepsQuotient`: relations between what the transcript says and what the key
  holds, across rounds that change polynomials in place.
* `NothingQueuedIsDropped`, `LastChallengeBindsTheProof`: order of rounds; the latter walks
  the chain of hashes behind the last challenge and compares every element in it with the
  transcript as it is now.
* `RoundsTransformBlocks`: the invariant of the FFT's outer loop, for the variants in place
  too and for any sharing among threads. It holds as far as the loop's steps are powers of
  two, and the round for 6 ends it: the transforms of sizes 2 and 4 are right, those of 8
  and more are not.
* `SerialFftTransformsSymmetric`, `ProductIsOfItsFactors`, `LagrangeRightAtMultiples`,
  `InterpolatesOnePoint`: that the result agrees with its definition on the inputs for which
  it does. They say nothing of the others, which are the matter of `LagrangeIsL1`,
  `InterpolatesItsPoints` and the list above; a repair of the code leaves all of them true.
* `PartialFftSplits`, `EvaluateIsTheValue`: the four parts are the evaluations of the whole,
  in the order and with the factors that the loop's index arithmetic gives; shares add up
  whatever is left over.
* `OperatorsAgree`: after any sequence of operators, when the polynomial is the sum that was
  asked for. `+=` resizes the vector and not the size, so that a smaller right side can cut
  what a larger one added.
* `ChallengesBindElements`, `VerifierFollowsProver`: soundness and completeness of the
  transcripts. The first has no premise on what was replaced when; the second has the least
  one. `ProofReloads`: the export, cut into the manifest's sizes, is what was sent.
* `MockReadiesChallenge`: the loop over rounds mocks all that the challenge asserts.
* `ClassesAreThoseAsserted`: the linked lists and real variables after any sequence of
  `assert_equal` against the partition that was asserted.
* `DeltaRebalances`: two ways to the same factor, by the product over the permutation and by
  the public inputs alone. `VerifierComputesTheIdentity`: the contribution's five parts,
  spread over two functions' signs and powers of alpha, against the identity in the comment
  at `permutation_widget.rs:100`, for right and wrong evaluations.

Deadlock is checked in every run but `transcript` and `circuit`, where a proof that was
verified or refused is the end.

## What is proved

For every set of names, cells, polynomials and callers, every circuit size, width, manifest
and number of widgets, and whatever the transforms, the commitments and the hash compute.
Each theorem is an invariant or an action property that a run checks, or a refinement, and
each is proved from an inductive invariant that TLC was asked about first.

**The store** (`StoreClients_proofs`). `TypeCorrect` and `NamesNeverShare` are one invariant:
a write or a free keeps the types only since references lead to allocated cells, and `put`
keeps names apart only since a fresh cell is one that no name refers to. From it,
`StoreImplementsMap`: initial states map to initial states, and each call to one `Assign`,
one `Erase`, or a stutter (`PutContents`, `RemoveContents`, `WriteContents`,
`ReclaimContents` in `PolynomialStore_proofs`). `FailedRemoveLosesTheNameOnly` is an action
property: the reference that makes the unwrap fail is a handle, since no other name can be
it, and it outlives the step.

**The queue** (`Queue_proofs`). That every `_fft` polynomial wraps around
(`FftsWrapAround`) is not inductive: a write through a handle would break it if the handle
shared an `_fft` polynomial's cell, a small FFT if the wire it transforms did, and a coset
past the third would miss the wrapped entries. `IInv` adds `HandleApart`, `NoAliasing`
(`QueueNeverShares`) and the ranges of the items. `BInv` adds what the refinement needs:
cells that are referred to are allocated (`AllocatedIn`), the handle and the queued scalars
are apart from the names or are one name's (`HeldApart`), and the scalars of every queued
item are still there (`ItemsLive`). `NothingDangles` is a part of it;
`QueueImplementsBatch` maps every step, one lemma for each, to one of the batch.

**The workers** (`Queue_proofs`). `WInv` is `BInv` and what an answer may be.
`NothingDanglesUnderWorkers` and `WorkersFftsWrapAround` say that an answer may come
arbitrarily late. `CommitmentsLand`: when the first items of a batch are all of a kind, the
one with k of its kind before it is at position k, which is a fact about cardinalities
(`KthIsAtK`) and holds for batches of any length.

**The operators** (`ArithmeticCalls_proofs`). `PolynomialsKeepTheirSize`: `Padded` may make
the vector longer or shorter than it was; that it never gets shorter than the size, and that
the loop over the right side never runs off it, are one argument by cases on the two sizes.
`OperatorsAreRight`: after any number of operators the vector is as long as the size or as
the last right side that was larger (`VectorOK`), so that where sizes allow nothing has been
cut that the sum still has.

**The arithmetic** (`Arithmetic_proofs`, `ArithmeticCalls_proofs`). A `field_sum` folds over a
set by an element that it chooses at each step; in a commutative monoid such a fold exists
(`FoldExists`, by induction on the size of subsets), does not depend on the choice
(`FoldUnique`) and splits along disjoint sets (`FoldSplits`). From these come the laws of
powers, and `GeometricSum`. `EvaluationIsRight` follows the threads: the shares of the first t
are the sum up to where the next begins. `ProductsAreOfTheirFactors`
goes through the passes of the linear product, of which there is at most one in a call that
does not panic (`ProductsAreShort`): the coefficient it computes is zero, which is the
constant term of `(X - x) X`. `OnePointIsInterpolated` divides the product of one factor by
that factor. `LagrangeIsRightThere`: at
every k-th point the subgroup's root, of the wrong order, is raised to a multiple of its
period, so that the numerator is that of `X^n - 1` and the denominator the one inverted.

A domain's table of roots is proved right for every size that is a power of two up to
`2^30`: the offsets that `round_root_offsets` cuts it at are where the rows of the lengths
before end (`OffsetsAre`), an entry is written by the round of its row and by no later one
(`TableIs`), and the root of the last row is the domain's own (`LastRowIs`). A fold over a
sequence is characterised by its prefixes (`PrefixesFold`), the round of an entry by the
entry's highest bit (`RoundOfEntry`). `PartialFftIsSplit` uses the row for half the size: the
root turns around in the domain (`Turns`), so that what is read from the row, negated past
the half, is the power of the root that `root_index` says, also where the coset's index
fell below zero; the four terms of each sum are the quarters of one evaluation.

`TransformsAreRight` is the transform itself. Its invariant `RoundsInv` says more than the
property: that the loop variable is even; that as long as a round may come that finds a row,
the target has room and is in the field; and that what has been made, which is in the
caller's array after the last round in place and in the target before, is for blocks of up to
eight the transform of the coefficients that belong to the block, at the root or at its
inverse. Blocks of 2h come of blocks of h in four facts:

1. A reversal is a sum over the bits of the index (`ReversalSums`), spelled out for up to
   three (`ReversedBits`); so the even coefficients of a block of 2h are those of its first
   half, the odd ones those of its second (`BlockHalves`).
2. The value of a polynomial is made of the values of its even and its odd coefficients at
   the square (`ValueInHalves`).
3. The pairs that a round's iterations write, shared among the threads in any way, are each
   written once (`PairsWritten`, `WrittenOnce`), so that the round's result is a function of
   the array before (`RoundCombines`, `FinalRoundCombines`).
4. The row's entry is the power of the root for 2h, whose square is the root for h and which
   turns around at h (`RootsOfRounds`). Of the inverse's table: the inverse of a root turns
   around too (`InverseTurns`).

The first round is the case of blocks of two, where the root is -1 and no table is read. The
invariant stops at eight because the code does: the round for 6 takes the row for 4 past its
end, and no call gets beyond it. `SerialFftIsRightThere` is proved call by call. The loop of the
bit reversal, which copies and does not exchange, leaves at each index the element of the
higher of the index and its reversal (`BitReversedIs`); for sizes of eight and more a round
reads past its row, so that the call panics (`SerialIsSmall`); and the transform of four is
that of the copied coefficients (`SerialFour`).

**The transcripts** (`TranscriptClients_proofs`). The invariant has the chain of hashes on
both sides, each round's challenge made of the one before and of the elements as they were
at that time, and the buffers: how long an element is and of which chunks, given the
manifest. `TranscriptsTypeCorrect`; `ExportedIsReloaded`, that a sequence of buffers is
determined by its concatenation and their sizes; `VerifierFollows` and `ChallengesBind`,
completeness and soundness, both along the two chains; `MockedIsReady`, from the loop that
mocks one round after the other.

**The prover** (`Prover_proofs`). `IInv` has the heap (references of the queue keep their
cells alive; names, parts of the quotient and queued scalars are apart as the rounds need),
the control (which round, what it has queued, how many items are done) and the wires: stored
by the preamble with their blinding, interpolated by the first round's inverse FFTs,
committed to after. The `init` challenge is derived once, so that a second
`construct_proof` by the same prover ends in the preamble and blinds nothing again. From it:
`ProverTypeCorrect`, `NothingIsDropped`, `PublicInputsSent`, `WiresAreBlindedFirst`,
`PartsAreCommittedWhole`. `LastChallengeBinds` adds `CInv`, which states the chain of hashes
for the function that follows it back from the last challenge and so needs no induction over
rounds: a new challenge makes the chain one longer, and every other step keeps what was
hashed. `FirstProofIsOfTheQuotient` adds that the parts are as they were made until the
quotient is computed, and then is algebra: what is moved from the end of a part is the first
coefficient of the next, and what is added to one is taken from the other.

**The composer** (`Circuit_proofs`). `RealVariablesAreTheClasses`: classes are least closed
sets of variables, lists are what `next_var_index` makes of them, and an `assert_equal` that
walks two lists to their ends links one to the other; that a walk reaches all of a list is
induction over its length. `ListsTypeCorrect` has the links inverse to each other, and no
variable public twice.

**The permutation** (`Circuit_proofs`). `ProofInv` adds to the composer's invariant what each
phase leaves: of a compiled circuit, that its values are elements, that identities without
tags are multiples of the roots, and that its rows balance (`CompiledFacts`); of a proof,
the challenges for which no denominator is zero (`ProofFacts`); of a verdict, the query for
which nothing was divided by zero (`VerdictFacts`). The balance is shown when `Compile` is
taken, for all challenges at once, so that no later step disturbs it:

1. The next wire in a cycle is the first after it or the first of all; since nodes are
   ordered and finitely many, every wire is the next of exactly one (`NextPermutes`).
2. A wire's permutation has the value of the next one's identity (`NextHasTheValue`: with
   tags the last wire's permutation and the first one's identity are the same tag), but for
   the first wire of a public input, whose permutation is its external coset, where the
   second's would be (`PublicValues`). Cells that are no copies map to themselves.
3. So the terms of the permutation are those of the identity in another order, but for the
   public inputs, and their products differ by the two factors of `compute_public_input_delta`
   (`CellsBalance`); row by row and divided, they are the grand product
   (`GrandProductIsDelta`). This is `TheGrandProductEndsAtDelta`. It does not use that
   asserted values are equal, since the variables of a class have one value, that of the real
   variable.

**The verifier's widget** (`Circuit_proofs`, on `Arithmetic_proofs`). The powers of a root
whose half power is -1 are the roots of `X^n - 1`, by induction from n to 2n: the factors of
two roots half the order apart make one factor of the squares (`FactorsPair`,
`RootsOfUnity`). From this the product that defines L_i is the quotient that the widget
computes (`BasisValue`, `StartAndEnd`), and the identity polynomials, which the verifier may
leave out of the transcript, evaluate to multiples of the point (`PowersInterpolate`,
`IdentityEvaluates`). With the factor of the public inputs from the previous theorem, what
is read is what the identity is about (`ReadsOfAProof`), and the rest is the algebra of six
terms (`PartsAreTheIdentity`), which holds for any evaluations, also of a false claim. This
is `TheVerifierChecksTheIdentity`.

Induction is over sets of numbers: `\A T : 0 \in T /\ (\A k \in T : k + 1 \in T) => Nat
\subseteq T`, from a least number in every set of them. Sums of sizes and concatenations are
characterised by the functions that their definitions follow (`IsTotal`, `IsFlat`), shown to
exist and to be unique that way.

Assumptions are those named in the modules: `NoRef` is no cell, polynomials of callers have
both their fields and are not `Freed`, the circuit size is positive, coset indices are at
most 3, names of wires are names, the manifest names no element twice and its widths are
positive, tags and names of the key are apart, widgets name what is theirs, composers' markers
are no variables, a right side has as many coefficients as its size and one is the longest,
and the number of threads is positive (that it is a power of two is not needed). The provers
have no laws of `2^b`; those used here are proved case by case for b up to 31.
Each is evaluated on the instances. Hypotheses of single theorems:

| Hypothesis | Of | Says |
| --- | --- | --- |
| `OneDerived` | `ChallengesBind` | no round leaves the size of two elements open; the bytes of two can be divided in more than one way |
| `CircuitSizeFits` | `MockedIsReady` | the circuit's size has the four bytes it is mocked with |
| `PrimitivesFit` | `WiresAreBlindedFirst`, `PartsAreCommittedWhole` | `n` and `n+1` are read back from memory right or too large for the reference string; an inverse FFT keeps the length; a point past the last coefficient adds nothing |
| `ManifestFits` | `LastChallengeBinds` | an element is sent before the round that hashes it, and rounds have challenges |
| `QuotientFits` | `FirstProofIsOfTheQuotient` | addition and subtraction of a field, on a set that has the numerators and the draws |
| `OperandsFit` | `OperatorsAreRight` | `x+0 = x`, `x-0 = x`, `0*x = 0`, on a set that has the coefficients |
| `FieldFits` | `EvaluationIsRight`, `ProductsAreOfTheirFactors`, `OnePointIsInterpolated` | a field with its powers, which has the scalars, inputs and values |
| `DomainsFit` | `LagrangeIsRightThere` | the sizes are powers of two that divide each other and are what their threads share; the root is of its order; the size has an inverse |
| `PartialFits` | `PartialFftIsSplit` | a field with its powers, which has the inputs; sizes are powers of two from 4 to 2^30, the half power of whose root is -1; an input has as many coefficients as the size |
| `TransformsFit` | `TransformsAreRight` | as `PartialFits`, for sizes from 2; the processors are fewer than 2^31 |
| `SerialFits` | `SerialFftIsRightThere` | as `TransformsFit`, for any number of processors |
| `CircuitFits` | `TheGrandProductEndsAtDelta`, `TheVerifierChecksTheIdentity` | a field with its powers, which has the values, challenges, queries, roots and the generators of the cosets; the sizes of circuits within the bounds (powers of two, up to 2^30) are not zero in the field and their root's half power is -1; rows and columns fit the entry they are packed in; fewer roots are cut out than there are; two gates are reserved |

TLC finds all of them true of the instances that the runs use.

At Turbo's width there is no run: the theorems of `Prover_proofs` are for every
`program_width`, and what differs at 4 (the fourth wire and the fourth part are committed to
with n points, no coefficient moves) is a case of their proofs. `prover` checks the same
properties at width 3.

Only model-checked: `ProcessingEnds`, since liveness is out of the prover's reach, and the
runs that find a disagreement. Every invariant and every action property of the passing runs
has a theorem. The transforms of `ToyField`, which stand for stubs in the instances, are
TLC's alone.

## What is not modelled

* Plookup (no settings have `is_plookup`), `reset`, `generic_batch_open` (neither has a
  caller); the readers of the challenge map, which nothing calls.
* Transition widgets. Every path through them ends in `todo!()` or a panic, or has no effect:
  the arithmetic kernel's required challenges and its sum of linear terms are `todo!()`
  (`arithmetic_widget.rs:63-69`, 148), the verifier's getter asserts away the index that the
  kernel passes (`getters.rs:155`, `arithmetic_widget.rs:84`), and the prover drops the term
  it would compute (`transition_widget.rs:146-153`).
* The coset transforms and divisions of the arithmetic (stubs), and
  `coset_fft_inplace_extension`, which calls `scale_by_generator`, a stub.
* Selectors and keys of the composer, which nothing reads.
* Reference strings (a number of points), `verify_proof` (a stub), the curves, hashes that
  no module declares, wall-clock and memory use. On `wasm32`, where `add_to_queue` is a
  stub, none of what uses the queue applies.

## Plan

Done: the store, the queue and its workers, `construct_proof`, the arithmetic, the
transcripts of both sides, the composer with its permutation and the verifier's widget; the
theorems above.
