------------------------------ MODULE WorkQueue ------------------------------
(***************************************************************************)
(* proof_system/work_queue.rs: the operations the prover defers, on the    *)
(* polynomials of the proving key's store, with the commitments going to   *)
(* the transcript.                                                         *)
(*                                                                         *)
(* process_queue runs an item per step (queue_pos counts those done), so   *)
(* that what an item leaves behind when it panics is a state.  `held` are  *)
(* the references to polynomials outside the map and outside the queue.    *)
(*                                                                         *)
(* ifft, the coset FFTs and Pippenger's algorithm are stubs (todo!) in the *)
(* source: calling one panics unless it is in Implemented, the primitives  *)
(* of the build, and its result is then what its constant operator says.   *)
(***************************************************************************)
EXTENDS PolynomialStore, Polynomial, Transcript

CONSTANTS
    circuit_size,
    monomial_size,                   \* points in the reference string
    Implemented,                     \* the primitives that are not stubs
    ifft(_),                         \* coefficients from evaluations
    coset_fft_with_generator_shift(_, _),
    coset_fft_inplace(_),            \* over large_domain
    pippenger_unsafe(_, _),          \* coefficients, msm_size
    field_element_to_usize(_),
    root_pow(_)                      \* powers of large_domain.root

ASSUME CircuitAssumption == circuit_size \in Nat \ {0}

VARIABLES
    work_items,
    queue_pos,   \* items process_queue has done in this call
    processing,  \* whether process_queue is running
    panic        \* why the program panicked, or "no"

n == circuit_size

queueVars == <<work_items, queue_pos, processing, panic>>

-----------------------------------------------------------------------------
(* Items.  A name of the store is a tag with a suffix.                       *)

Monomial(tag) == <<tag, "">>
Lagrange(tag) == <<tag, "_lagrange">>
FftForm(tag) == <<tag, "_fft">>

Item(work, tag, index, constant, mul_scalars) ==
    [work |-> work, tag |-> tag, index |-> index, constant |-> constant,
     mul_scalars |-> mul_scalars]

Ifft(tag) == Item("Ifft", tag, 0, Zero, NoRef)
Fft(tag, index) == Item("Fft", tag, index, Zero, NoRef)
SmallFft(tag, constant, index) == Item("SmallFft", tag, index, constant, NoRef)
ScalarMultiplication(tag, constant, mul_scalars) ==
    Item("ScalarMultiplication", tag, 0, constant, mul_scalars)

ItemRefs(items) == {items[i].mul_scalars : i \in DOMAIN items} \ {NoRef}

QueueInit ==
    /\ work_items = <<>>
    /\ queue_pos = 0
    /\ processing = FALSE
    /\ panic = "no"

add_to_queue(item) ==
    /\ work_items' = Append(work_items, item)
    /\ UNCHANGED <<queue_pos, processing, panic>>

\* The references the dropped items held are dropped with them.
flush_queue(held) ==
    /\ work_items' = <<>>
    /\ queue_pos' = 0
    /\ cells' = Reclaim(cells, polynomial_map, held)
    /\ UNCHANGED <<polynomial_map, processing>>

-----------------------------------------------------------------------------
(* What one item does, when nothing in it panics.                            *)

\* Mutant of Interleaved: the first entry is not repeated past the end.
InterleavedUnwrapped(buffer, evaluations, index) ==
    [size |-> buffer.size,
     coefficients |-> [i \in 0 .. 4 * n + 3 |->
        IF i < 4 * n /\ i % 4 = index THEN evaluations[i \div 4]
        ELSE buffer.coefficients[i]]]

\* A buffer of 4n+4 in which coset `index` holds the evaluations, and its
\* first entry again past the end.
Interleaved(buffer, evaluations, index) ==
    [size |-> buffer.size,
     coefficients |-> [i \in 0 .. 4 * n + 3 |->
        IF i < 4 * n /\ i % 4 = index THEN evaluations[i \div 4]
        ELSE IF i = 4 * n + index THEN evaluations[0]
        ELSE buffer.coefficients[i]]]

msm_size(item) == field_element_to_usize(item.constant)

DoScalarMultiplication(item) ==
    /\ add_group_element(item.tag,
           pippenger_unsafe(cells[item.mul_scalars].coefficients, msm_size(item)))
    /\ UNCHANGED storeVars

\* The stored polynomial itself is transformed.
ShiftedHeap(item) ==
    [cells EXCEPT ![get(Monomial(item.tag))].coefficients =
        coset_fft_with_generator_shift(@, item.constant)]

DoSmallFft(item, held) ==
    LET heap == ShiftedHeap(item)
        wire == heap[get(Monomial(item.tag))].coefficients
        fft == FftForm(item.tag)
    IN  /\ IF item.index # 0
           THEN /\ cells' = [heap EXCEPT ![get(fft)] =
                                Interleaved(@, wire, item.index)]
                /\ UNCHANGED polynomial_map
           ELSE PutInto(heap, fft,
                        Interleaved(new_polynomial(4 * n + 4), wire, 0), held)
        /\ UNCHANGED transcriptVars

\* Mutant of WrapAround: the first entry past the end is left as it was.
WrapAroundLate(coefficients) ==
    [i \in 0 .. 4 * n + 3 |->
        IF i <= 4 * n THEN coefficients[i] ELSE coefficients[i - 4 * n]]

\* The stored polynomial is copied, and the copy grown to 4n+4 and
\* transformed; its size stays what it was.
WrapAround(coefficients) ==
    [i \in 0 .. 4 * n + 3 |->
        IF i < 4 * n THEN coefficients[i] ELSE coefficients[i - 4 * n]]

FftOf(wire) ==
    LET grown == resize(wire, 4 * n + 4)
    IN  [size |-> grown.size,
         coefficients |-> WrapAround(coset_fft_inplace(grown.coefficients))]

\* Mutant of DoFft: the Rc is cloned instead of the polynomial.
FftOfTheSharedCell(item, held) ==
    LET wire == get(Monomial(item.tag))
    IN  /\ polynomial_map' = [polynomial_map EXCEPT ![FftForm(item.tag)] = wire]
        /\ cells' = Reclaim([cells EXCEPT ![wire] = FftOf(@)], polynomial_map', held)
        /\ UNCHANGED transcriptVars

DoFft(item, held) ==
    /\ insert(FftForm(item.tag), FftOf(Stored(Monomial(item.tag))), held)
    /\ UNCHANGED transcriptVars

IfftOf(wire_lagrange) ==
    [size |-> n, coefficients |-> ifft(wire_lagrange.coefficients)]

DoIfft(item, held) ==
    /\ insert(Monomial(item.tag), IfftOf(Stored(Lagrange(item.tag))), held)
    /\ UNCHANGED transcriptVars

-----------------------------------------------------------------------------
(* What makes an item panic: an unwrap of a missing polynomial, the assertion *)
(* on the reference string, or a stub.                                       *)

Stub(work) ==
    CASE work = "ScalarMultiplication" -> "pippenger_unsafe"
      [] work = "SmallFft" -> "coset_fft_with_generator_shift"
      [] work = "Fft" -> "coset_fft_inplace"
      [] work = "Ifft" -> "ifft"

\* The polynomial an item cannot do without, when it starts.
Needs(item) ==
    IF item.work = "Ifft" THEN Lagrange(item.tag) ELSE Monomial(item.tag)

PanicBefore(item) ==
    IF item.work = "ScalarMultiplication" /\ msm_size(item) > monomial_size
    THEN "assert"
    ELSE IF item.work # "ScalarMultiplication" /\ ~contains(Needs(item))
    THEN "unwrap"
    ELSE IF Stub(item.work) \notin Implemented THEN "todo" ELSE "no"

\* The merge of a later coset unwraps after the transform.
PanicAfterShift(item) ==
    item.work = "SmallFft" /\ item.index # 0 /\ ~contains(FftForm(item.tag))

-----------------------------------------------------------------------------
(* process_queue.                                                            *)

item_in_hand == work_items[queue_pos + 1]

process_queue ==
    /\ ~processing
    /\ processing' = TRUE
    /\ UNCHANGED <<work_items, queue_pos, panic>>

InHand == processing /\ queue_pos < Len(work_items)

\* Mutant of ProcessItem: an inverse FFT is done without moving on.
ProcessItemAgain(held) ==
    LET item == item_in_hand IN
    /\ InHand
    /\ PanicBefore(item) = "no" /\ ~PanicAfterShift(item)
    /\ queue_pos' = queue_pos + (IF item.work = "Ifft" THEN 0 ELSE 1)
    /\ CASE item.work = "ScalarMultiplication" -> DoScalarMultiplication(item)
         [] item.work = "SmallFft" -> DoSmallFft(item, held)
         [] item.work = "Fft" -> DoFft(item, held)
         [] item.work = "Ifft" -> DoIfft(item, held)
    /\ UNCHANGED <<work_items, processing, panic>>

\* `held` are the references outside the map, those of the queue included.
ProcessItem(held) ==
    LET item == item_in_hand IN
    /\ InHand
    /\ PanicBefore(item) = "no" /\ ~PanicAfterShift(item)
    /\ queue_pos' = queue_pos + 1
    /\ CASE item.work = "ScalarMultiplication" -> DoScalarMultiplication(item)
         [] item.work = "SmallFft" -> DoSmallFft(item, held)
         [] item.work = "Fft" -> DoFft(item, held)
         [] item.work = "Ifft" -> DoIfft(item, held)
    /\ UNCHANGED <<work_items, processing, panic>>

PanicOnItem ==
    LET item == item_in_hand IN
    /\ InHand
    /\ \/ /\ PanicBefore(item) # "no"
          /\ panic' = PanicBefore(item)
          /\ UNCHANGED cells
       \/ /\ PanicBefore(item) = "no" /\ PanicAfterShift(item)
          /\ panic' = "unwrap"
          /\ cells' = ShiftedHeap(item)
    /\ processing' = FALSE
    /\ UNCHANGED <<polynomial_map, work_items, queue_pos>>
    /\ UNCHANGED transcriptVars

\* Mutant of FinishQueue: the items stay in the queue.
FinishWithoutClearing(held) ==
    /\ processing /\ queue_pos = Len(work_items)
    /\ processing' = FALSE
    /\ queue_pos' = 0
    /\ UNCHANGED <<storeVars, work_items, panic>>
    /\ UNCHANGED transcriptVars

\* The items are cleared once all are done.
FinishQueue(held) ==
    /\ processing /\ queue_pos = Len(work_items)
    /\ processing' = FALSE
    /\ work_items' = <<>>
    /\ queue_pos' = 0
    /\ cells' = Reclaim(cells, polynomial_map, held)
    /\ UNCHANGED <<polynomial_map, panic>>
    /\ UNCHANGED transcriptVars

-----------------------------------------------------------------------------
(* The interface for workers outside, that compute the items themselves:     *)
(* how many items of each kind there are, the data of the k-th, and a place  *)
(* for its result.                                                           *)

\* The positions of the items of a kind.
Positions(work) == {i \in DOMAIN work_items : work_items[i].work = work}

\* Fft items count as nothing: only SmallFft items do.
get_queued_work_item_info ==
    [num_scalar_multiplications |-> Cardinality(Positions("ScalarMultiplication")),
     num_ffts |-> Cardinality(Positions("SmallFft")),
     num_iffts |-> Cardinality(Positions("Ifft"))]

\* The k-th item of a kind, from 0, has k of its kind before it: how the get
\* functions and put_fft_data count.  put_ifft_data and
\* put_scalar_multiplication_data take the number as a position among all items.
CountBefore(i, work) == Cardinality({j \in Positions(work) : j < i})
HasKth(work, k) == \E i \in Positions(work) : CountBefore(i, work) = k
Kth(work, k) == work_items[CHOOSE i \in Positions(work) : CountBefore(i, work) = k]
HasAt(work, k) == k < Len(work_items) /\ work_items[k + 1].work = work

get_scalar_multiplication_data(k) ==
    cells[Kth("ScalarMultiplication", k).mul_scalars].coefficients
get_scalar_multiplication_size(k) == msm_size(Kth("ScalarMultiplication", k))
get_ifft_data(k) == Stored(Lagrange(Kth("Ifft", k).tag)).coefficients
get_fft_data(k) == Stored(Monomial(Kth("SmallFft", k).tag)).coefficients
get_fft_shift(k) == root_pow(Kth("SmallFft", k).index)

\* The zeros of a new polynomial are copied into the result, and stored.
put_ifft_data(k, held) ==
    /\ IF HasAt("Ifft", k)
       THEN put(Monomial(work_items[k + 1].tag), new_polynomial(n), held)
       ELSE UNCHANGED storeVars
    /\ UNCHANGED queueVars

\* Each coset comes in a buffer of its own.
put_fft_data(result, k, held) ==
    /\ IF HasKth("SmallFft", k)
       THEN LET item == Kth("SmallFft", k)
            IN  insert(FftForm(item.tag),
                       Interleaved(new_polynomial(4 * n + 4), result, item.index),
                       held)
       ELSE UNCHANGED storeVars
    /\ UNCHANGED queueVars

\* Mutant of put_scalar_multiplication_data: always the first item's tag.
PutUnderTheFirstTag(result, k) ==
    /\ IF HasAt("ScalarMultiplication", k)
       THEN add_group_element(work_items[1].tag, result)
       ELSE UNCHANGED transcriptVars
    /\ UNCHANGED queueVars

put_scalar_multiplication_data(result, k) ==
    /\ IF HasAt("ScalarMultiplication", k)
       THEN add_group_element(work_items[k + 1].tag, result)
       ELSE UNCHANGED transcriptVars
    /\ UNCHANGED queueVars
==============================================================================
