---------------------------- MODULE QueueWorkers ----------------------------
(***************************************************************************)
(* A work queue whose items are computed outside: a worker asks how many   *)
(* items of each kind are queued, takes the data of one by its number,     *)
(* computes, and gives the result back under the same number, while the    *)
(* callers of QueueClients go on.  When the worker is done the queue is    *)
(* flushed.  Nothing in the crate calls these functions: the worker is     *)
(* what their names and results make of it.                                *)
(***************************************************************************)
EXTENDS QueueClients

CONSTANT Nothing  \* no answer is being computed

VARIABLE answer   \* the kind, number, tag and result of the item in work

workerVars == <<vars, answer>>

WorkerInit == Init /\ answer = Nothing

Answer(work, k, result) ==
    [work |-> work, number |-> k, tag |-> Kth(work, k).tag, result |-> result]

\* How many items a worker is told there are.
Counted(work) ==
    CASE work = "ScalarMultiplication" -> get_queued_work_item_info.num_scalar_multiplications
      [] work = "SmallFft" -> get_queued_work_item_info.num_ffts
      [] work = "Ifft" -> get_queued_work_item_info.num_iffts

\* The data of an item whose polynomial is missing panics in get_ifft_data
\* and get_fft_data; a worker asks for those that are there.
HasData(work, k) ==
    work = "ScalarMultiplication" \/ contains(Needs(Kth(work, k)))

WorkerTake(work, k) ==
    /\ Idle /\ answer = Nothing
    /\ k < Counted(work) /\ HasData(work, k)
    /\ answer' = Answer(work, k,
          CASE work = "ScalarMultiplication" ->
                  pippenger_unsafe(get_scalar_multiplication_data(k),
                                   get_scalar_multiplication_size(k))
            [] work = "SmallFft" ->
                  coset_fft_with_generator_shift(get_fft_data(k), get_fft_shift(k))
            [] work = "Ifft" -> ifft(get_ifft_data(k)))
    /\ UNCHANGED vars

WorkerGive ==
    /\ Idle /\ answer # Nothing
    /\ CASE answer.work = "ScalarMultiplication" ->
                /\ put_scalar_multiplication_data(answer.result, answer.number)
                /\ UNCHANGED storeVars
         [] answer.work = "SmallFft" ->
                /\ put_fft_data(answer.result, answer.number, Held)
                /\ UNCHANGED transcriptVars
         [] answer.work = "Ifft" ->
                /\ put_ifft_data(answer.number, Held)
                /\ UNCHANGED transcriptVars
    /\ answer' = Nothing
    /\ UNCHANGED callerVars

WorkerNext ==
    \/ Next /\ UNCHANGED answer
    \/ \E work \in {"ScalarMultiplication", "SmallFft", "Ifft"},
          k \in 0 .. MaxQueued - 1 : WorkerTake(work, k)
    \/ WorkerGive

WorkerSpec == WorkerInit /\ [][WorkerNext]_workerVars

-----------------------------------------------------------------------------
(* Properties.                                                               *)

\* The items that a worker's number finds by position are those it finds by
\* count: the shape of every batch the prover queues.
PositionsAgree ==
    \A work \in {"ScalarMultiplication", "Ifft"} :
        \A k \in 0 .. Cardinality(Positions(work)) - 1 : HasAt(work, k)

\* The item the worker took is still the one its number means.
StillQueued ==
    /\ HasKth(answer.work, answer.number)
    /\ Kth(answer.work, answer.number).tag = answer.tag

\* In batches of the prover's shapes a commitment computed outside lands under
\* the tag of the item it was computed for, and no other commitment changes,
\* although items are got by count and put by position.
CommitmentsLandUnderTheirTag ==
    [][WorkerGive /\ answer.work = "ScalarMultiplication"
       /\ PositionsAgree /\ StillQueued
       => elements' = With(elements, answer.tag, Serialize(G1Width, answer.result))
      ]_workerVars
==============================================================================
