---------------------------- MODULE DeferredBatch ----------------------------
(***************************************************************************)
(* What a work queue promises: the jobs queued are performed once each,    *)
(* first in first out, and a job does to the polynomials and commitments,  *)
(* known by name, what a function of those says, and nothing more.  There  *)
(* are no references here: the one trace of them is that the scalars of a  *)
(* queued multiplication are those of the moment it is performed.          *)
(***************************************************************************)
EXTENDS Sequences, Naturals

CONSTANTS
    Names,
    Absent,           \* what a name without a polynomial maps to
    Possible(_, _),   \* whether a job has the polynomials it reads
    Effect(_, _),     \* the polynomials after a job, from those before
    Commits(_),       \* whether a job makes a commitment
    Committed(_, _),  \* the commitments after such a job
    TransformsInput(_) \* whether a job also changes the polynomial it reads

VARIABLES jobs, contents, commitments

Init ==
    /\ jobs = <<>>
    /\ contents = [k \in Names |-> Absent]
    /\ commitments = <<>>

\* jobs' are the jobs js, in which multiplications that share their scalars
\* may have got new ones, the same for all.
Rebinds(js) ==
    /\ DOMAIN jobs' = DOMAIN js
    /\ LET Changed == {i \in DOMAIN js : jobs'[i] # js[i]}
       IN  /\ \A i \in Changed :
                 /\ Commits(js[i])
                 /\ jobs'[i] = [js[i] EXCEPT !.scalars = jobs'[i].scalars]
           /\ \A i, j \in Changed : /\ js[i].scalars = js[j].scalars
                                    /\ jobs'[i].scalars = jobs'[j].scalars

\* A caller queues a job.
Enqueue ==
    /\ Len(jobs') = Len(jobs) + 1
    /\ SubSeq(jobs', 1, Len(jobs)) = jobs
    /\ UNCHANGED <<contents, commitments>>

\* A caller stores or updates one polynomial.
Update ==
    /\ \E k \in Names : contents' = [contents EXCEPT ![k] = contents'[k]]
    /\ Rebinds(jobs)
    /\ UNCHANGED commitments

\* The first job is performed.
Perform ==
    /\ jobs # <<>>
    /\ Possible(Head(jobs), contents)
    /\ contents' = Effect(Head(jobs), contents)
    /\ commitments' = IF Commits(Head(jobs))
                      THEN Committed(Head(jobs), commitments) ELSE commitments
    /\ IF TransformsInput(Head(jobs))
       THEN Rebinds(Tail(jobs)) ELSE jobs' = Tail(jobs)

\* All the jobs are thrown away.
Discard ==
    /\ jobs' = <<>>
    /\ UNCHANGED <<contents, commitments>>

Next == Enqueue \/ Update \/ Perform \/ Discard

Spec == Init /\ [][Next]_<<jobs, contents, commitments>>
==============================================================================
