---------------------------- MODULE QueueClients ----------------------------
(***************************************************************************)
(* A work queue and its callers, who fill the store, queue items in any    *)
(* order, keep and write through references meanwhile, flush the queue and *)
(* have it processed.  All of it is one thread: while process_queue runs   *)
(* nobody else does, and a panic stops everything.                         *)
(***************************************************************************)
EXTENDS WorkQueue

CONSTANTS
    Wires,       \* the tags of polynomials
    Witnesses,   \* the polynomials callers store, n coefficients each
    Updates,     \* those they write over a stored one
    Cosets,      \* the indices of small FFTs
    Scalars,     \* the sizes multiplications are queued with, as field elements
    NoHandle,    \* the empty handle
    MaxStored,   \* bounds the polynomials callers put or write
    MaxQueued    \* bounds the items they queue

ASSUME CallersAssumption ==
    /\ NoHandle \notin Refs
    /\ Cosets \subseteq 0 .. 3
    /\ \A tag \in Wires : {Monomial(tag), Lagrange(tag), FftForm(tag)} \subseteq Names
    /\ \A p \in Witnesses \cup Updates : IsPolynomial(p)
    /\ ~ IsPolynomial(Freed)

VARIABLES
    handle,      \* a reference some caller keeps, or NoHandle
    stored,      \* polynomials put or written so far
    queued       \* items queued so far

callerVars == <<handle, stored, queued>>
vars == <<storeVars, transcriptVars, queueVars, callerVars>>

HandleRefs == {handle} \ {NoHandle}

\* Mutant of Held: items borrow their scalars without a reference.
HeldByCallers == HandleRefs

Held == HandleRefs \cup ItemRefs(work_items)

Init ==
    /\ StoreInit /\ TranscriptInit /\ QueueInit
    /\ handle = NoHandle
    /\ stored = 0
    /\ queued = 0

\* No call is being executed and none has panicked.
Idle == ~processing /\ panic = "no"

\* Names callers store under: what the queue computes is the other one.
InputNames == {Lagrange(tag) : tag \in Wires} \cup {Monomial(tag) : tag \in Wires}

CallerPut(name, p) ==
    /\ Idle /\ stored < MaxStored
    /\ put(name, p, Held)
    /\ stored' = stored + 1
    /\ UNCHANGED <<transcriptVars, queueVars, handle, queued>>

CallerGet(name) ==
    /\ Idle /\ handle = NoHandle /\ contains(name)
    /\ handle' = get(name)
    /\ UNCHANGED <<storeVars, transcriptVars, queueVars, stored, queued>>

CallerWrite(p) ==
    /\ Idle /\ handle # NoHandle /\ stored < MaxStored
    /\ WriteThrough(handle, p)
    /\ stored' = stored + 1
    /\ UNCHANGED <<polynomial_map, transcriptVars, queueVars, handle, queued>>

CallerDrop ==
    /\ Idle /\ handle # NoHandle
    /\ handle' = NoHandle
    /\ cells' = Reclaim(cells, polynomial_map, ItemRefs(work_items))
    /\ UNCHANGED <<polynomial_map, transcriptVars, queueVars, stored, queued>>

\* Items as callers make them: a multiplication takes a reference that the
\* store gave out, a small FFT the shift of its coset.
Queueable(tag) ==
    {Ifft(tag), Fft(tag, 0)}
    \cup {SmallFft(tag, root_pow(i), i) : i \in Cosets}
    \cup {ScalarMultiplication(tag, s, get(Monomial(tag))) :
             s \in IF contains(Monomial(tag)) THEN Scalars ELSE {}}

CallerQueue(item) ==
    /\ Idle /\ queued < MaxQueued
    /\ add_to_queue(item)
    /\ queued' = queued + 1
    /\ UNCHANGED <<storeVars, transcriptVars, handle, stored>>

CallerFlush ==
    /\ Idle
    /\ flush_queue(HandleRefs)
    /\ UNCHANGED <<transcriptVars, callerVars, panic>>

CallerProcess ==
    /\ Idle
    /\ process_queue
    /\ UNCHANGED <<storeVars, transcriptVars, callerVars>>

Run ==
    \/ ProcessItem(Held) /\ UNCHANGED callerVars
    \/ PanicOnItem /\ UNCHANGED callerVars
    \/ FinishQueue(HandleRefs) /\ UNCHANGED callerVars

\* After a panic nothing happens any more.
Stopped == panic # "no" /\ UNCHANGED vars

Next ==
    \/ \E name \in InputNames, p \in Witnesses : CallerPut(name, p)
    \/ \E name \in InputNames : CallerGet(name)
    \/ \E p \in Updates : CallerWrite(p)
    \/ CallerDrop
    \/ \E tag \in Wires : \E item \in Queueable(tag) : CallerQueue(item)
    \/ CallerFlush
    \/ CallerProcess
    \/ Run
    \/ Stopped

\* process_queue is a loop of the one thread: once called it keeps running.
Spec == Init /\ [][Next]_vars /\ WF_vars(Run)

-----------------------------------------------------------------------------
(* Properties.                                                               *)

Live(r) == r \in Refs /\ cells[r] # Freed

\* The map has its type and nothing dangles: what a name, the handle or a
\* queued multiplication refers to is allocated.
TypeOK ==
    /\ MapTypeOK
    /\ DOMAIN cells = Refs
    /\ \A name \in Names : contains(name) => Live(get(name))
    /\ handle # NoHandle => Live(handle)
    /\ \A r \in ItemRefs(work_items) : Live(r)
    /\ queue_pos \in 0 .. Len(work_items)

\* The first four evaluations stand again past the end of the other 4n.
Wraps(p) == \A i \in 0 .. 3 : p.coefficients[4 * n + i] = p.coefficients[i]

\* Every `_fft` polynomial wraps around, since the widgets read the next row
\* of the last ones there: whichever of the three ways made it, and however
\* far a merge of cosets has got.
FftWrapsAround ==
    \A tag \in Wires : contains(FftForm(tag)) => Wraps(Stored(FftForm(tag)))

\* A call of process_queue ends, by clearing the queue or by panicking.
ProcessingEnds == processing ~> (Idle /\ work_items = <<>>) \/ panic # "no"

\* field_element_to_usize pretends to be the conversion of an element to the
\* integer it stands for (work_queue.rs:62-68): a commitment is to as many
\* coefficients as the prover asked for.
CommitmentsHaveTheSizeAsked ==
    [][InHand /\ item_in_hand.work = "ScalarMultiplication" /\ queue_pos' = queue_pos + 1
       => elements'[item_in_hand.tag] =
             Serialize(G1Width,
                 pippenger_unsafe(cells[item_in_hand.mul_scalars].coefficients,
                                  item_in_hand.constant))]_vars

(* The queue as a batch of jobs on polynomials known by name.                *)

Job(item) ==
    [work |-> item.work, tag |-> item.tag, index |-> item.index,
     constant |-> item.constant,
     scalars |-> IF item.work = "ScalarMultiplication"
                 THEN cells[item.mul_scalars].coefficients ELSE <<>>]

Jobs == [i \in 1 .. Len(work_items) - queue_pos |-> Job(work_items[queue_pos + i])]

Multiplies(job) == job.work = "ScalarMultiplication"

Shifted(job, c) ==
    [c EXCEPT ![Monomial(job.tag)].coefficients =
        coset_fft_with_generator_shift(@, job.constant)]

\* The evaluations on the four cosets, interleaved, of which `job` fills one.
CosetsAfter(job, c) ==
    Interleaved(IF job.index = 0 THEN new_polynomial(4 * n + 4)
                ELSE c[FftForm(job.tag)],
                Shifted(job, c)[Monomial(job.tag)].coefficients, job.index)

\* Whether the polynomials a job reads are there.
HasInputs(job, c) ==
    CASE job.work = "ScalarMultiplication" -> TRUE
      [] job.work = "SmallFft" ->
            /\ c[Monomial(job.tag)] # Freed
            /\ job.index # 0 => c[FftForm(job.tag)] # Freed
      [] job.work = "Fft" -> c[Monomial(job.tag)] # Freed
      [] job.work = "Ifft" -> c[Lagrange(job.tag)] # Freed

EffectOf(job, c) ==
    CASE job.work = "ScalarMultiplication" -> c
      [] job.work = "SmallFft" ->
            [Shifted(job, c) EXCEPT ![FftForm(job.tag)] = CosetsAfter(job, c)]
      [] job.work = "Fft" ->
            [c EXCEPT ![FftForm(job.tag)] = FftOf(c[Monomial(job.tag)])]
      [] job.work = "Ifft" ->
            [c EXCEPT ![Monomial(job.tag)] = IfftOf(c[Lagrange(job.tag)])]

CommitmentAfter(job, commitments) ==
    With(commitments, job.tag,
         Serialize(G1Width,
                   pippenger_unsafe(job.scalars, field_element_to_usize(job.constant))))

TransformsInput(job) == job.work = "SmallFft"

Batch == INSTANCE DeferredBatch
    WITH jobs <- Jobs, contents <- Contents, commitments <- elements,
         Absent <- Freed, Possible <- HasInputs, Effect <- EffectOf,
         Commits <- Multiplies, Committed <- CommitmentAfter,
         TransformsInput <- TransformsInput

\* Through every interleaving of puts, reads, writes and queued work, items
\* are performed in order and once, and no item changes a polynomial or a
\* commitment other than its own through a reference it shares.
ImplementsBatch == Batch!Spec
==============================================================================
