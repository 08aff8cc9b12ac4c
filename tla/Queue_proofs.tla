---------------------------- MODULE Queue_proofs ----------------------------
(***************************************************************************)
(* Theorems about QueueClients and QueueWorkers, for every circuit size,   *)
(* every set of wires and coset indices, and whatever the transforms and   *)
(* commitments compute.                                                    *)
(*                                                                         *)
(* FftWrapsAround alone is not inductive.  A write through a handle would  *)
(* break it if the handle shared the cell of an `_fft` polynomial          *)
(* (HandleApart), and so would a small FFT, which transforms the stored    *)
(* polynomial in its cell, if that were the cell of another name's         *)
(* (NoAliasing); a coset index past 3 would miss the wrapped entries       *)
(* (ItemsOK).                                                              *)
(*                                                                         *)
(* That the queue is a batch of jobs (DeferredBatch) needs in addition     *)
(* that what is referred to is allocated (AllocatedIn): an item finds its  *)
(* input by name in the abstract batch if and only if it does in the map.  *)
(* And that no queued multiplication refers to an `_fft` polynomial        *)
(* (HeldApart): a merge of cosets writes through that one's cell, and      *)
(* would change scalars that no job of the batch may change.               *)
(*                                                                         *)
(* With a worker outside the same invariant (BInv) holds: an answer is put *)
(* into a new cell, so that it disturbs no reference, and the two buffers  *)
(* a worker's results are put in are made on the spot, with the right      *)
(* length.  Commitments need arithmetic instead: items are got by count    *)
(* and put by position, and the two numbers agree because an item with k   *)
(* of its kind before it, when the first k + 1 items are all of its kind,  *)
(* can only be at position k.                                              *)
(***************************************************************************)
EXTENDS QueueWorkers, PolynomialStore_proofs, SequenceTheorems, FiniteSetTheorems

\* What callers queue, with the references left open.
QueueableItems ==
    [work : {"Ifft", "Fft", "SmallFft", "ScalarMultiplication"},
     tag : Wires, index : 0 .. 3,
     constant : {Zero} \cup {root_pow(i) : i \in Cosets} \cup Scalars,
     mul_scalars : Refs \cup {NoRef}]

ItemsOK == work_items \in Seq(QueueableItems) /\ queue_pos \in Nat

\* No caller's reference is to an `_fft` polynomial.
HandleApart ==
    \A tag \in Wires : contains(FftForm(tag)) => get(FftForm(tag)) # handle

WrapsIn(heap) ==
    \A tag \in Wires : contains(FftForm(tag)) => Wraps(heap[get(FftForm(tag))])

HeapOK == MapTypeOK /\ DOMAIN cells = Refs /\ NoAliasing

IInv ==
    /\ HeapOK
    /\ ItemsOK
    /\ handle \in Refs \cup {NoHandle}
    /\ HandleApart
    /\ WrapsIn(cells)

-----------------------------------------------------------------------------
(* The three ways an `_fft` polynomial is made.                              *)

LEMMA NewWraps == Wraps(new_polynomial(4 * n + 4))
  BY CircuitAssumption DEF Wraps, new_polynomial, n

(* A coset's first entry goes to its place and past the end together.        *)
LEMMA InterleavedWraps ==
    ASSUME NEW buffer, NEW evaluations, NEW index \in 0 .. 3, Wraps(buffer)
    PROVE  Wraps(Interleaved(buffer, evaluations, index))
<1> DEFINE c == [i \in 0 .. 4 * n + 3 |->
                    IF i < 4 * n /\ i % 4 = index THEN evaluations[i \div 4]
                    ELSE IF i = 4 * n + index THEN evaluations[0]
                    ELSE buffer.coefficients[i]]
<1>1. n \in Nat /\ n >= 1
  BY CircuitAssumption DEF n
<1>2. Interleaved(buffer, evaluations, index).coefficients = c
  BY DEF Interleaved
<1>3. ASSUME NEW i \in 0 .. 3
      PROVE  c[4 * n + i] = c[i]
  <2>1. /\ i \in 0 .. 4 * n + 3 /\ 4 * n + i \in 0 .. 4 * n + 3
        /\ i < 4 * n /\ ~(4 * n + i < 4 * n)
    BY <1>1
  <2>2. i % 4 = i /\ i \div 4 = 0
    BY <1>3
  <2>3. c[4 * n + i] = IF i = index THEN evaluations[0]
                       ELSE buffer.coefficients[4 * n + i]
    BY <1>1, <2>1
  <2>4. c[i] = IF i = index THEN evaluations[0] ELSE buffer.coefficients[i]
    BY <1>1, <2>1, <2>2
  <2>5. QED
    BY <2>3, <2>4 DEF Wraps
<1>4. QED
  BY <1>2, <1>3 DEF Wraps

LEMMA FftWraps ==
    ASSUME NEW wire
    PROVE  Wraps(FftOf(wire))
<1> DEFINE c == coset_fft_inplace(resize(wire, 4 * n + 4).coefficients)
<1>1. n \in Nat /\ n >= 1
  BY CircuitAssumption DEF n
<1>2. FftOf(wire).coefficients = WrapAround(c)
  BY DEF FftOf
<1> HIDE DEF c
<1>3. \A i \in 0 .. 3 : WrapAround(c)[4 * n + i] = c[i] /\ WrapAround(c)[i] = c[i]
  BY <1>1 DEF WrapAround
<1>4. QED
  BY <1>2, <1>3 DEF Wraps

-----------------------------------------------------------------------------
(* What the operations of the store keep.                                    *)

LEMMA NamesOfWires ==
    ASSUME NEW tag \in Wires
    PROVE  /\ Monomial(tag) \in Names /\ Lagrange(tag) \in Names
           /\ FftForm(tag) \in Names
           /\ \A t \in Wires : /\ FftForm(t) # Monomial(tag)
                               /\ FftForm(t) # Lagrange(tag)
  BY CallersAssumption DEF Monomial, Lagrange, FftForm

(* A stored polynomial leaves the others as they are, and the handle apart.  *)
LEMMA PutKeepsHeap ==
    ASSUME NEW held, NEW name \in Names, NEW p,
           NEW heap, DOMAIN heap = Refs,
           HeapOK, HandleApart, handle \in Refs \cup {NoHandle}, WrapsIn(heap),
           HandleRefs \subseteq held, UNCHANGED handle,
           PutInto(heap, name, p, held),
           \A tag \in Wires : name = FftForm(tag) => Wraps(p)
    PROVE  HeapOK' /\ HandleApart' /\ WrapsIn(cells)'
<1> DEFINE f == FreshRef(held)
<1>1. MapTypeOK /\ NoAliasing
  BY DEF HeapOK
<1>2. MapTypeOK' /\ NoAliasing'
  BY <1>1, PutKeepsMap
<1>3. f \in Refs /\ f \notin held
  BY FreshRefIsFree DEF PutInto
<1>4. /\ polynomial_map' = [polynomial_map EXCEPT ![name] = f]
      /\ cells' = Reclaim([heap EXCEPT ![f] = p], polynomial_map', held)
  BY DEF PutInto
<1>5. Contents' = [ContentsOf(heap) EXCEPT ![name] = p]
  BY <1>1, PutContents
<1> HIDE DEF f
<1>6. DOMAIN cells' = Refs
  BY <1>4 DEF Reclaim
<1>7. HandleApart'
  <2> SUFFICES ASSUME NEW tag \in Wires, contains(FftForm(tag))'
               PROVE  polynomial_map'[FftForm(tag)] # handle
    BY DEF HandleApart, get
  <2>1. FftForm(tag) \in Names
    BY NamesOfWires
  <2>2. CASE FftForm(tag) = name
    <3>1. polynomial_map'[FftForm(tag)] = f
      BY <1>1, <1>4, <2>2 DEF MapTypeOK
    <3>2. QED
      BY <1>3, <3>1, CallersAssumption DEF HandleRefs
  <2>3. CASE FftForm(tag) # name
    <3>1. polynomial_map'[FftForm(tag)] = polynomial_map[FftForm(tag)]
      BY <1>1, <1>4, <2>1, <2>3 DEF MapTypeOK
    <3>2. QED
      BY <3>1 DEF HandleApart, contains, get
  <2>4. QED
    BY <2>2, <2>3
<1>8. WrapsIn(cells)'
  <2> SUFFICES ASSUME NEW tag \in Wires, contains(FftForm(tag))'
               PROVE  Wraps(cells'[polynomial_map'[FftForm(tag)]])
    BY DEF WrapsIn, get, Wraps
  <2>1. FftForm(tag) \in Names
    BY NamesOfWires
  <2>2. Contents'[FftForm(tag)] = cells'[polynomial_map'[FftForm(tag)]]
    BY <2>1 DEF Contents, ContentsOf, contains, get
  <2>3. CASE FftForm(tag) = name
    BY <1>5, <2>1, <2>2, <2>3 DEF ContentsOf
  <2>4. CASE FftForm(tag) # name
    <3>1. polynomial_map'[FftForm(tag)] = polynomial_map[FftForm(tag)]
      BY <1>1, <1>4, <2>1, <2>4 DEF MapTypeOK
    <3>2. contains(FftForm(tag))
      BY <3>1 DEF contains
    <3>3. Contents'[FftForm(tag)] = heap[get(FftForm(tag))]
      BY <1>5, <2>1, <2>4, <3>2 DEF ContentsOf
    <3>4. QED
      BY <2>2, <3>2, <3>3 DEF WrapsIn
  <2>5. QED
    BY <2>3, <2>4
<1>9. QED
  BY <1>2, <1>6, <1>7, <1>8 DEF HeapOK

(* So does dropping references.                                              *)
LEMMA ReclaimKeepsWraps ==
    ASSUME NEW held, HeapOK, WrapsIn(cells), UNCHANGED polynomial_map,
           cells' = Reclaim(cells, polynomial_map, held)
    PROVE  HeapOK' /\ WrapsIn(cells)'
<1>1. HeapOK'
  BY DEF HeapOK, MapTypeOK, NoAliasing, get, contains, Reclaim
<1>2. ASSUME NEW tag \in Wires, contains(FftForm(tag))
      PROVE  cells'[get(FftForm(tag))] = cells[get(FftForm(tag))]
  <2>1. FftForm(tag) \in Names /\ get(FftForm(tag)) \in Refs
    BY <1>2, NamesOfWires DEF HeapOK, MapTypeOK, get, contains
  <2>2. QED
    BY <2>1 DEF Reclaim, get
<1>3. WrapsIn(cells)'
  BY <1>2 DEF WrapsIn, get, contains, Wraps
<1>4. QED
  BY <1>1, <1>3

-----------------------------------------------------------------------------
(* The invariant.                                                            *)

LEMMA InitIInv == Init => IInv
<1> SUFFICES ASSUME Init
             PROVE  IInv
  OBVIOUS
<1>1. \A k \in Names : ~contains(k)
  BY DEF Init, StoreInit, contains
<1>2. HeapOK
  BY <1>1 DEF Init, StoreInit, HeapOK, MapTypeOK, NoAliasing
<1>3. HandleApart /\ WrapsIn(cells)
  BY <1>1, NamesOfWires DEF HandleApart, WrapsIn
<1>4. QED
  BY <1>2, <1>3 DEF Init, QueueInit, IInv, ItemsOK

LEMMA QueueableIsOK ==
    ASSUME NEW tag \in Wires, NEW item \in Queueable(tag), MapTypeOK
    PROVE  item \in QueueableItems
<1>1. CASE item \in {Ifft(tag), Fft(tag, 0)}
  BY <1>1 DEF QueueableItems, Ifft, Fft, Item
<1>2. CASE \E i \in Cosets : item = SmallFft(tag, root_pow(i), i)
  BY <1>2, CallersAssumption DEF QueueableItems, SmallFft, Item
<1>3. CASE \E s \in Scalars : item = ScalarMultiplication(tag, s, get(Monomial(tag)))
  <2>1. get(Monomial(tag)) \in Refs \cup {NoRef}
    BY NamesOfWires DEF MapTypeOK, get
  <2>2. QED
    BY <1>3, <2>1 DEF QueueableItems, ScalarMultiplication, Item
<1>4. QED
  BY <1>1, <1>2, <1>3 DEF Queueable

(* A small FFT transforms the cell of its own polynomial, which is no        *)
(* `_fft` polynomial's.                                                      *)
LEMMA ShiftKeepsWraps ==
    ASSUME IInv, NEW item, item.tag \in Wires, contains(Monomial(item.tag))
    PROVE  DOMAIN ShiftedHeap(item) = Refs /\ WrapsIn(ShiftedHeap(item))
<1> DEFINE wire == Monomial(item.tag)
<1>1. DOMAIN ShiftedHeap(item) = Refs
  BY DEF ShiftedHeap, IInv, HeapOK
<1>2. ASSUME NEW tag \in Wires, contains(FftForm(tag))
      PROVE  ShiftedHeap(item)[get(FftForm(tag))] = cells[get(FftForm(tag))]
  <2>1. get(FftForm(tag)) \in Refs
    BY <1>2, NamesOfWires DEF IInv, HeapOK, MapTypeOK, get, contains
  <2>2. FftForm(tag) # wire /\ FftForm(tag) \in Names /\ wire \in Names
    BY NamesOfWires
  <2>3. get(FftForm(tag)) # get(wire)
    BY <1>2, <2>2 DEF IInv, HeapOK, NoAliasing
  <2>4. QED
    BY <2>1, <2>3 DEF ShiftedHeap, IInv, HeapOK
<1>3. QED
  BY <1>1, <1>2 DEF WrapsIn, IInv

LEMMA SmallFftIInv ==
    ASSUME IInv, NEW item \in QueueableItems,
           contains(Monomial(item.tag)), ~PanicAfterShift(item),
           item.work = "SmallFft", DoSmallFft(item, Held),
           UNCHANGED handle
    PROVE  HeapOK' /\ HandleApart' /\ WrapsIn(cells)'
<1> DEFINE heap == ShiftedHeap(item)
           wire == heap[get(Monomial(item.tag))].coefficients
           fft == FftForm(item.tag)
<1>1. item.tag \in Wires /\ item.index \in 0 .. 3
  BY DEF QueueableItems
<1>2. DOMAIN heap = Refs /\ WrapsIn(heap)
  BY <1>1, ShiftKeepsWraps
<1>3. fft \in Names
  BY <1>1, NamesOfWires
<1> HIDE DEF heap
<1>4. CASE item.index # 0
  <2>1. /\ cells' = [heap EXCEPT ![get(fft)] = Interleaved(@, wire, item.index)]
        /\ polynomial_map' = polynomial_map
    BY <1>4 DEF DoSmallFft, heap
  <2>2. contains(fft)
    BY <1>4 DEF PanicAfterShift
  <2>3. get(fft) \in Refs
    BY <1>3, <2>2 DEF IInv, HeapOK, MapTypeOK, get, contains
  <2>4. Wraps(heap[get(fft)])
    BY <1>1, <1>2, <2>2 DEF WrapsIn
  <2>5. Wraps(Interleaved(heap[get(fft)], wire, item.index))
    BY <1>1, <2>4, InterleavedWraps
  <2>6. HeapOK' /\ HandleApart'
    BY <1>2, <2>1 DEF IInv, HeapOK, HandleApart, MapTypeOK, NoAliasing, get, contains
  <2>7. ASSUME NEW tag \in Wires, contains(FftForm(tag))
        PROVE  Wraps(cells'[get(FftForm(tag))])
    <3>1. get(FftForm(tag)) \in Refs
      BY <2>7, NamesOfWires DEF IInv, HeapOK, MapTypeOK, get, contains
    <3>2. CASE get(FftForm(tag)) = get(fft)
      BY <1>2, <2>1, <2>5, <3>1, <3>2
    <3>3. CASE get(FftForm(tag)) # get(fft)
      BY <1>2, <2>1, <2>7, <3>1, <3>3 DEF WrapsIn
    <3>4. QED
      BY <3>2, <3>3
  <2>8. WrapsIn(cells)'
    BY <2>1, <2>7 DEF WrapsIn, get, contains, Wraps
  <2>9. QED
    BY <2>6, <2>8
<1>5. CASE item.index = 0
  <2> DEFINE p == Interleaved(new_polynomial(4 * n + 4), wire, 0)
  <2>1. PutInto(heap, fft, p, Held)
    BY <1>5 DEF DoSmallFft, heap
  <2>2. Wraps(p)
    BY NewWraps, InterleavedWraps
  <2> HIDE DEF p
  <2>3. HandleRefs \subseteq Held
    BY DEF Held
  <2>4. QED
    BY <1>2, <1>3, <2>1, <2>2, <2>3, PutKeepsHeap DEF IInv
<1>6. QED
  BY <1>4, <1>5

LEMMA ProcessIInv ==
    ASSUME IInv, ProcessItem(Held), UNCHANGED callerVars
    PROVE  IInv'
<1> DEFINE item == item_in_hand
<1>1. /\ item \in QueueableItems
      /\ queue_pos' = queue_pos + 1 /\ work_items' = work_items /\ handle' = handle
  BY DEF ProcessItem, InHand, IInv, ItemsOK, item_in_hand, callerVars
<1>2. ItemsOK' /\ handle' \in Refs \cup {NoHandle}
  BY <1>1 DEF IInv, ItemsOK
<1>3. item.tag \in Wires /\ HandleRefs \subseteq Held
  BY <1>1 DEF QueueableItems, Held
<1>4. PanicBefore(item) = "no" /\ ~PanicAfterShift(item)
  BY DEF ProcessItem
<1>5. \/ item.work = "ScalarMultiplication" /\ DoScalarMultiplication(item)
      \/ item.work = "SmallFft" /\ DoSmallFft(item, Held)
      \/ item.work = "Fft" /\ DoFft(item, Held)
      \/ item.work = "Ifft" /\ DoIfft(item, Held)
  BY <1>1 DEF ProcessItem, QueueableItems
<1> HIDE DEF item
<1>6. CASE item.work = "ScalarMultiplication" /\ DoScalarMultiplication(item)
  <2>1. UNCHANGED storeVars /\ handle' = handle
    BY <1>1, <1>6 DEF DoScalarMultiplication
  <2>2. HeapOK' /\ HandleApart' /\ WrapsIn(cells)'
    BY <2>1 DEF IInv, HeapOK, HandleApart, WrapsIn, MapTypeOK, NoAliasing, get,
                contains, storeVars, Wraps
  <2>3. QED
    BY <1>2, <2>2 DEF IInv
<1>7. CASE item.work = "SmallFft" /\ DoSmallFft(item, Held)
  <2>1. contains(Monomial(item.tag))
    BY <1>4, <1>7 DEF PanicBefore, Needs
  <2>2. HeapOK' /\ HandleApart' /\ WrapsIn(cells)'
    BY <1>1, <1>4, <1>7, <2>1, SmallFftIInv
  <2>3. QED
    BY <1>2, <2>2 DEF IInv
<1>8. CASE item.work = "Fft" /\ DoFft(item, Held)
  <2> DEFINE p == FftOf(Stored(Monomial(item.tag)))
  <2>1. PutInto(cells, FftForm(item.tag), p, Held)
    BY <1>8 DEF DoFft, insert, put
  <2>2. Wraps(p)
    BY FftWraps
  <2> HIDE DEF p
  <2>3. FftForm(item.tag) \in Names
    BY <1>3, NamesOfWires
  <2>4. DOMAIN cells = Refs
    BY DEF IInv, HeapOK
  <2>5. HeapOK' /\ HandleApart' /\ WrapsIn(cells)'
    BY <1>1, <1>3, <2>1, <2>2, <2>3, <2>4, PutKeepsHeap DEF IInv
  <2>6. QED
    BY <1>2, <2>5 DEF IInv
<1>9. CASE item.work = "Ifft" /\ DoIfft(item, Held)
  <2> DEFINE p == IfftOf(Stored(Lagrange(item.tag)))
  <2>1. PutInto(cells, Monomial(item.tag), p, Held)
    BY <1>9 DEF DoIfft, insert, put
  <2> HIDE DEF p
  <2>2. /\ Monomial(item.tag) \in Names
        /\ \A t \in Wires : FftForm(t) # Monomial(item.tag)
    BY <1>3, NamesOfWires
  <2>3. DOMAIN cells = Refs
    BY DEF IInv, HeapOK
  <2>4. HeapOK' /\ HandleApart' /\ WrapsIn(cells)'
    BY <1>1, <1>3, <2>1, <2>2, <2>3, PutKeepsHeap DEF IInv
  <2>5. QED
    BY <1>2, <2>4 DEF IInv
<1>10. QED
  BY <1>5, <1>6, <1>7, <1>8, <1>9

LEMMA NextIInv == IInv /\ [Next]_vars => IInv'
<1> SUFFICES ASSUME IInv, [Next]_vars
             PROVE  IInv'
  OBVIOUS
<1>a. HeapOK /\ HandleApart /\ WrapsIn(cells) /\ DOMAIN cells = Refs
  BY DEF IInv, HeapOK
<1>b. HandleRefs \subseteq Held
  BY DEF Held
<1>1. ASSUME NEW name \in InputNames, NEW p \in Witnesses, CallerPut(name, p)
      PROVE  IInv'
  <2>1. /\ PutInto(cells, name, p, Held)
        /\ handle' = handle
    BY <1>1 DEF CallerPut, put
  <2>2. name \in Names /\ \A t \in Wires : name # FftForm(t)
    BY NamesOfWires DEF InputNames
  <2>3. HeapOK' /\ HandleApart' /\ WrapsIn(cells)'
    BY <1>a, <1>b, <2>1, <2>2, PutKeepsHeap DEF IInv
  <2>4. ItemsOK'
    BY <1>1 DEF CallerPut, queueVars, IInv, ItemsOK
  <2>5. QED
    BY <2>1, <2>3, <2>4 DEF IInv
<1>2. ASSUME NEW name \in InputNames, CallerGet(name)
      PROVE  IInv'
  <2>1. /\ UNCHANGED <<polynomial_map, cells, work_items, queue_pos>>
        /\ handle' = get(name) /\ contains(name)
    BY <1>2 DEF CallerGet, storeVars, queueVars
  <2>2. name \in Names /\ \A t \in Wires : name # FftForm(t)
    BY NamesOfWires DEF InputNames
  <2>3. handle' \in Refs
    BY <1>a, <2>1, <2>2 DEF HeapOK, MapTypeOK, get, contains
  <2>4. HandleApart'
    <3> SUFFICES ASSUME NEW tag \in Wires, contains(FftForm(tag))
                 PROVE  get(FftForm(tag)) # get(name)
      BY <2>1 DEF HandleApart, get, contains
    <3>1. FftForm(tag) \in Names
      BY NamesOfWires
    <3>2. QED
      BY <1>a, <2>2, <3>1 DEF HeapOK, NoAliasing
  <2>5. HeapOK' /\ WrapsIn(cells)' /\ ItemsOK'
    BY <1>a, <2>1 DEF IInv, HeapOK, ItemsOK, MapTypeOK, NoAliasing, WrapsIn, get,
                      contains, Wraps
  <2>6. QED
    BY <2>3, <2>4, <2>5 DEF IInv
<1>3. ASSUME NEW p \in Updates, CallerWrite(p)
      PROVE  IInv'
  <2>1. /\ cells' = [cells EXCEPT ![handle] = p]
        /\ UNCHANGED <<polynomial_map, work_items, queue_pos, handle>>
    BY <1>3 DEF CallerWrite, WriteThrough, queueVars
  <2>2. HeapOK' /\ HandleApart' /\ ItemsOK'
    BY <1>a, <2>1 DEF IInv, HeapOK, HandleApart, ItemsOK, MapTypeOK, NoAliasing,
                      get, contains
  <2>3. ASSUME NEW tag \in Wires, contains(FftForm(tag))
        PROVE  cells'[get(FftForm(tag))] = cells[get(FftForm(tag))]
    <3>1. get(FftForm(tag)) \in Refs /\ get(FftForm(tag)) # handle
      BY <1>a, <2>3, NamesOfWires
      DEF HeapOK, HandleApart, MapTypeOK, get, contains
    <3>2. QED
      BY <1>a, <2>1, <3>1
  <2>4. WrapsIn(cells)'
    BY <1>a, <2>1, <2>3 DEF WrapsIn, get, contains, Wraps
  <2>5. QED
    BY <2>1, <2>2, <2>4 DEF IInv
<1>4. ASSUME CallerDrop
      PROVE  IInv'
  <2>1. /\ cells' = Reclaim(cells, polynomial_map, ItemRefs(work_items))
        /\ handle' = NoHandle
        /\ UNCHANGED <<polynomial_map, work_items, queue_pos>>
    BY <1>4 DEF CallerDrop, queueVars
  <2>2. HeapOK' /\ WrapsIn(cells)'
    BY <1>a, <2>1, ReclaimKeepsWraps
  <2>3. HandleApart'
    <3> SUFFICES ASSUME NEW tag \in Wires, contains(FftForm(tag))
                 PROVE  get(FftForm(tag)) # NoHandle
      BY <2>1 DEF HandleApart, get, contains
    <3>1. QED
      BY <1>a, NamesOfWires, CallersAssumption DEF HeapOK, MapTypeOK, get, contains
  <2>4. QED
    BY <2>1, <2>2, <2>3 DEF IInv, ItemsOK
<1>5. ASSUME NEW tag \in Wires, NEW item \in Queueable(tag), CallerQueue(item)
      PROVE  IInv'
  <2>1. item \in QueueableItems
    BY <1>a, QueueableIsOK DEF HeapOK
  <2>2. ItemsOK'
    BY <1>5, <2>1 DEF CallerQueue, add_to_queue, IInv, ItemsOK
  <2>3. UNCHANGED <<polynomial_map, cells, handle>>
    BY <1>5 DEF CallerQueue, storeVars
  <2>4. QED
    BY <2>2, <2>3 DEF IInv, HeapOK, HandleApart, MapTypeOK, NoAliasing, WrapsIn,
                      get, contains, Wraps
<1>6. ASSUME \/ CallerFlush
             \/ FinishQueue(HandleRefs) /\ UNCHANGED callerVars
      PROVE  IInv'
  <2>1. /\ cells' = Reclaim(cells, polynomial_map, HandleRefs)
        /\ work_items' = <<>> /\ queue_pos' = 0
        /\ UNCHANGED <<polynomial_map, handle>>
    BY <1>6 DEF CallerFlush, flush_queue, FinishQueue, callerVars
  <2>2. HeapOK' /\ WrapsIn(cells)'
    BY <1>a, <2>1, ReclaimKeepsWraps
  <2>3. QED
    BY <2>1, <2>2 DEF IInv, ItemsOK, HandleApart, get, contains
<1>7. ASSUME CallerProcess
      PROVE  IInv'
  BY <1>7 DEF CallerProcess, process_queue, storeVars, callerVars, IInv, HeapOK,
      ItemsOK, HandleApart, MapTypeOK, NoAliasing, WrapsIn, get, contains, Wraps
<1>8. ASSUME ProcessItem(Held), UNCHANGED callerVars
      PROVE  IInv'
  BY <1>8, ProcessIInv
<1>9. ASSUME PanicOnItem, UNCHANGED callerVars
      PROVE  IInv'
  <2> DEFINE item == item_in_hand
  <2>1. /\ item \in QueueableItems
        /\ UNCHANGED <<polynomial_map, work_items, queue_pos, handle>>
    BY <1>9 DEF PanicOnItem, InHand, IInv, ItemsOK, item_in_hand, callerVars
  <2>2. CASE cells' = cells
    BY <2>1, <2>2 DEF IInv, HeapOK, ItemsOK, HandleApart, MapTypeOK, NoAliasing,
                      WrapsIn, get, contains, Wraps
  <2>3. CASE /\ PanicBefore(item) = "no" /\ item.work = "SmallFft"
             /\ cells' = ShiftedHeap(item)
    <3>1. item.tag \in Wires
      BY <2>1 DEF QueueableItems
    <3>2. contains(Monomial(item.tag))
      BY <2>3 DEF PanicBefore, Needs
    <3>3. DOMAIN cells' = Refs /\ WrapsIn(cells')
      BY <2>3, <3>1, <3>2, ShiftKeepsWraps
    <3>4. QED
      BY <2>1, <3>3 DEF IInv, HeapOK, ItemsOK, HandleApart, MapTypeOK, NoAliasing,
                        WrapsIn, get, contains, Wraps
  <2>4. QED
    BY <1>9, <2>2, <2>3 DEF PanicOnItem, PanicAfterShift
<1>10. CASE UNCHANGED vars
  BY <1>10 DEF vars, storeVars, queueVars, callerVars, IInv, HeapOK, ItemsOK,
      HandleApart, MapTypeOK, NoAliasing, WrapsIn, get, contains, Wraps
<1>11. QED
  BY <1>1, <1>2, <1>3, <1>4, <1>5, <1>6, <1>7, <1>8, <1>9, <1>10
  DEF Next, Run, Stopped

LEMMA Invariance == Spec => []IInv
  BY InitIInv, NextIInv, PTL DEF Spec

(* Whatever is queued, put and written in between, and wherever a call of    *)
(* process_queue stops, no two names come to share a cell.                   *)
THEOREM QueueNeverShares == Spec => []NoAliasing
<1>1. IInv => NoAliasing
  BY DEF IInv, HeapOK
<1>2. QED
  BY <1>1, Invariance, PTL

(* Every `_fft` polynomial in the store wraps around, for every circuit size *)
(* and however many of its cosets have been merged.                          *)
THEOREM FftsWrapAround == Spec => []FftWrapsAround
<1>1. IInv => FftWrapsAround
  BY DEF IInv, WrapsIn, FftWrapsAround, Stored
<1>2. QED
  BY <1>1, Invariance, PTL

-----------------------------------------------------------------------------
(* The queue as a batch of jobs: the invariant.                              *)

\* What names, callers and items refer to is allocated.
AllocatedIn(heap) ==
    /\ \A name \in Names : contains(name) => IsPolynomial(heap[get(name)])
    /\ \A r \in Held : r \in Refs /\ IsPolynomial(heap[r])

\* Neither a caller's reference nor an item's is to an `_fft` polynomial.
HeldApart ==
    \A tag \in Wires : contains(FftForm(tag)) => get(FftForm(tag)) \notin Held

\* A multiplication always has scalars.
ItemsLive ==
    \A i \in DOMAIN work_items :
        work_items[i].work = "ScalarMultiplication" => work_items[i].mul_scalars \in Refs

BInv ==
    /\ IInv
    /\ AllocatedIn(cells)
    /\ HeldApart
    /\ ItemsLive
    /\ queue_pos <= Len(work_items)

-----------------------------------------------------------------------------
(* What the steps do to the heap.                                            *)

LEMMA MadePolynomials ==
    /\ \A size : IsPolynomial(new_polynomial(size))
    /\ \A buffer, evaluations, index : IsPolynomial(Interleaved(buffer, evaluations, index))
    /\ \A wire : IsPolynomial(FftOf(wire)) /\ IsPolynomial(IfftOf(wire))
  BY DEF IsPolynomial, new_polynomial, Interleaved, FftOf, IfftOf

(* The references of the items stay while the items do.                      *)
LEMMA HeldRefs ==
    /\ HandleRefs \subseteq Held
    /\ ItemRefs(work_items) \subseteq Held
    /\ UNCHANGED <<handle, work_items>> => Held' = Held
  BY DEF Held, HandleRefs, ItemRefs

LEMMA PutKeepsAllocated ==
    ASSUME NEW name \in Names, NEW p, IsPolynomial(p),
           NEW heap, DOMAIN heap = Refs,
           HeapOK, AllocatedIn(heap), HeldApart, UNCHANGED <<handle, work_items>>,
           PutInto(heap, name, p, Held)
    PROVE  AllocatedIn(cells)' /\ HeldApart'
<1> DEFINE f == FreshRef(Held)
<1>1. MapTypeOK /\ Held' = Held
  BY HeldRefs DEF HeapOK
<1>2. f \in Refs /\ f \notin Held
  BY FreshRefIsFree DEF PutInto
<1>3. /\ polynomial_map' = [polynomial_map EXCEPT ![name] = f]
      /\ Contents' = [ContentsOf(heap) EXCEPT ![name] = p]
  BY <1>1, PutContents DEF PutInto
<1> HIDE DEF f
<1>4. ASSUME NEW k \in Names, contains(k)'
      PROVE  IsPolynomial(cells'[polynomial_map'[k]])
  <2>1. Contents'[k] = cells'[polynomial_map'[k]]
    BY <1>4 DEF Contents, ContentsOf, contains, get
  <2>2. CASE k = name
    BY <1>3, <2>1, <2>2 DEF ContentsOf
  <2>3. CASE k # name
    <3>1. polynomial_map'[k] = polynomial_map[k] /\ Contents'[k] = ContentsOf(heap)[k]
      BY <1>1, <1>3, <2>3 DEF MapTypeOK, ContentsOf
    <3>2. contains(k) /\ ContentsOf(heap)[k] = heap[get(k)]
      BY <1>4, <3>1 DEF contains, ContentsOf
    <3>3. QED
      BY <2>1, <3>1, <3>2 DEF AllocatedIn
  <2>4. QED
    BY <2>2, <2>3
<1>5. \A r \in Held : r \in Refs /\ cells'[r] = heap[r]
  BY PutKeepsHeldCells DEF AllocatedIn
<1>6. AllocatedIn(cells)'
  BY <1>1, <1>4, <1>5 DEF AllocatedIn, IsPolynomial, get, contains
<1>7. HeldApart'
  <2> SUFFICES ASSUME NEW tag \in Wires, contains(FftForm(tag))'
               PROVE  polynomial_map'[FftForm(tag)] \notin Held
    BY <1>1 DEF HeldApart, get
  <2>1. FftForm(tag) \in Names
    BY NamesOfWires
  <2>2. CASE FftForm(tag) = name
    BY <1>1, <1>2, <1>3, <2>2 DEF MapTypeOK
  <2>3. CASE FftForm(tag) # name
    BY <1>1, <1>3, <2>1, <2>3 DEF MapTypeOK, HeldApart, contains, get
  <2>4. QED
    BY <2>2, <2>3
<1>8. QED
  BY <1>6, <1>7

LEMMA ReclaimKeepsAllocated ==
    ASSUME NEW held, HeapOK, AllocatedIn(cells), HeldApart, UNCHANGED polynomial_map,
           cells' = Reclaim(cells, polynomial_map, held),
           Held' \subseteq Held, Held' \subseteq held
    PROVE  AllocatedIn(cells)' /\ HeldApart'
<1>1. \A k \in Names : contains(k) => cells'[get(k)] = cells[get(k)]
  BY DEF Reclaim, HeapOK, MapTypeOK, contains, get
<1>2. \A r \in Held' : r \in Refs /\ cells'[r] = cells[r]
  BY DEF Reclaim, AllocatedIn
<1>3. AllocatedIn(cells)'
  BY <1>1, <1>2 DEF AllocatedIn, IsPolynomial, get, contains
<1>4. HeldApart'
  BY DEF HeldApart, get, contains
<1>5. QED
  BY <1>3, <1>4

(* A write in place leaves what is there a polynomial.                       *)
LEMMA WriteKeepsAllocated ==
    ASSUME NEW heap, NEW r, NEW p, DOMAIN heap = Refs, IsPolynomial(p), AllocatedIn(heap),
           MapTypeOK, NEW after, after = [heap EXCEPT ![r] = p]
    PROVE  AllocatedIn(after)
  BY DEF AllocatedIn, MapTypeOK, contains, get

(* A heap after a write to the cell of a name.                               *)
WritesByName(heap, name, p, after) ==
    /\ name \in Names /\ contains(name) /\ HeapOK /\ DOMAIN heap = Refs
    /\ after = [heap EXCEPT ![get(name)] = p]

(* What is known by name after a write to a name's cell: it reaches that     *)
(* name only.                                                                *)
LEMMA WriteByName ==
    ASSUME NEW heap, NEW name, NEW p, NEW after, WritesByName(heap, name, p, after)
    PROVE  ContentsOf(after) = [ContentsOf(heap) EXCEPT ![name] = p]
<1> /\ name \in Names /\ contains(name) /\ HeapOK /\ DOMAIN heap = Refs
    /\ after = [heap EXCEPT ![get(name)] = p]
  BY DEF WritesByName
<1>1. get(name) \in Refs
  BY DEF HeapOK, MapTypeOK, contains, get
<1>2. ASSUME NEW k \in Names
      PROVE  (IF contains(k) THEN after[get(k)] ELSE Freed)
             = IF k = name THEN p ELSE IF contains(k) THEN heap[get(k)] ELSE Freed
  <2>1. CASE k = name
    BY <1>1, <2>1
  <2>2. CASE k # name /\ contains(k)
    <3>1. get(k) # get(name) /\ get(k) \in Refs
      BY <2>2 DEF HeapOK, NoAliasing, MapTypeOK, contains, get
    <3>2. QED
      BY <2>2, <3>1
  <2>3. CASE ~contains(k)
    BY <2>3
  <2>4. QED
    BY <2>1, <2>2, <2>3
<1>3. QED
  BY <1>2 DEF ContentsOf

(* The transform of a wire in its cell.                                      *)
LEMMA ShiftContents ==
    ASSUME BInv, NEW item, item.tag \in Wires, contains(Monomial(item.tag))
    PROVE  /\ DOMAIN ShiftedHeap(item) = Refs
           /\ AllocatedIn(ShiftedHeap(item))
           /\ ContentsOf(ShiftedHeap(item)) = Shifted(item, Contents)
           /\ \A r \in Refs : r # get(Monomial(item.tag)) => ShiftedHeap(item)[r] = cells[r]
<1> DEFINE wire == Monomial(item.tag)
           p == [cells[get(wire)] EXCEPT !.coefficients =
                    coset_fft_with_generator_shift(@, item.constant)]
<1>1. /\ wire \in Names /\ get(wire) \in Refs /\ contains(wire)
      /\ HeapOK /\ DOMAIN cells = Refs /\ MapTypeOK /\ AllocatedIn(cells)
  BY NamesOfWires DEF BInv, IInv, HeapOK, MapTypeOK, contains, get
<1>2. IsPolynomial(p)
  BY <1>1 DEF AllocatedIn, IsPolynomial
<1>3. ShiftedHeap(item) = [cells EXCEPT ![get(wire)] = p]
  BY DEF ShiftedHeap
<1>4. Shifted(item, Contents) = [Contents EXCEPT ![wire] = p]
  <2>1. Contents[wire] = cells[get(wire)] /\ DOMAIN Contents = Names
    BY <1>1 DEF Contents, ContentsOf
  <2>2. QED
    BY <1>1, <2>1 DEF Shifted
<1> HIDE DEF p, wire
<1>5. AllocatedIn(ShiftedHeap(item))
  BY <1>1, <1>2, <1>3, WriteKeepsAllocated
<1>6. ContentsOf(ShiftedHeap(item)) = [Contents EXCEPT ![wire] = p]
  <2> DEFINE h == ShiftedHeap(item)
  <2>1. h = [cells EXCEPT ![get(wire)] = p]
    BY <1>3
  <2> HIDE DEF h
  <2>a. WritesByName(cells, wire, p, h)
    BY <1>1, <2>1 DEF WritesByName
  <2>2. ContentsOf(h) = [ContentsOf(cells) EXCEPT ![wire] = p]
    BY ONLY <2>a, WriteByName
  <2>3. QED
    BY <2>2 DEF h, Contents
<1>7. QED
  BY <1>1, <1>3, <1>4, <1>5, <1>6 DEF wire

(* After an item the heap is that of BInv again.                             *)
LEMMA ItemKeepsAllocated ==
    ASSUME BInv, ProcessItem(Held), UNCHANGED callerVars
    PROVE  AllocatedIn(cells)' /\ HeldApart'
<1> DEFINE item == item_in_hand
<1>0. item \in QueueableItems /\ UNCHANGED <<work_items, handle>>
  BY DEF ProcessItem, InHand, BInv, IInv, ItemsOK, item_in_hand, callerVars
<1>1. item \in QueueableItems /\ item.tag \in Wires /\ UNCHANGED <<work_items, handle>>
  BY <1>0 DEF QueueableItems
<1>2. PanicBefore(item) = "no" /\ ~PanicAfterShift(item)
  BY DEF ProcessItem
<1>3. \/ item.work = "ScalarMultiplication" /\ DoScalarMultiplication(item)
      \/ item.work = "SmallFft" /\ DoSmallFft(item, Held)
      \/ item.work = "Fft" /\ DoFft(item, Held)
      \/ item.work = "Ifft" /\ DoIfft(item, Held)
  BY <1>1 DEF ProcessItem, QueueableItems
<1>4. /\ HeapOK /\ DOMAIN cells = Refs /\ AllocatedIn(cells) /\ HeldApart
      /\ Monomial(item.tag) \in Names /\ FftForm(item.tag) \in Names
  BY <1>1, NamesOfWires DEF BInv, IInv, HeapOK
<1> HIDE DEF item
<1>5. CASE item.work = "ScalarMultiplication" /\ DoScalarMultiplication(item)
  BY <1>1, <1>4, <1>5, HeldRefs
  DEF DoScalarMultiplication, AllocatedIn, HeldApart, storeVars, get, contains, IsPolynomial
<1>6. CASE item.work = "SmallFft" /\ DoSmallFft(item, Held)
  <2> DEFINE heap == ShiftedHeap(item)
             wire == heap[get(Monomial(item.tag))].coefficients
             fft == FftForm(item.tag)
  <2>1. contains(Monomial(item.tag))
    BY <1>2, <1>6 DEF PanicBefore, Needs
  <2>2. DOMAIN heap = Refs /\ AllocatedIn(heap)
    BY <1>1, <2>1, ShiftContents
  <2>3. \/ /\ item.index # 0
           /\ cells' = [heap EXCEPT ![get(fft)] = Interleaved(@, wire, item.index)]
           /\ UNCHANGED polynomial_map
        \/ PutInto(heap, fft, Interleaved(new_polynomial(4 * n + 4), wire, 0), Held)
    BY <1>6 DEF DoSmallFft
  <2> HIDE DEF heap, wire
  <2>4. CASE /\ cells' = [heap EXCEPT ![get(fft)] = Interleaved(@, wire, item.index)]
             /\ UNCHANGED polynomial_map
    <3> DEFINE p == Interleaved(heap[get(fft)], wire, item.index)
    <3>1. IsPolynomial(p)
      BY MadePolynomials
    <3>2. cells' = [heap EXCEPT ![get(fft)] = p]
      BY <2>4
    <3> HIDE DEF p
    <3>3. AllocatedIn(cells')
      BY <1>4, <2>2, <3>1, <3>2, WriteKeepsAllocated DEF HeapOK
    <3>4. QED
      BY <1>1, <1>4, <2>4, <3>3, HeldRefs
      DEF AllocatedIn, HeldApart, get, contains, IsPolynomial
  <2>5. CASE PutInto(heap, fft, Interleaved(new_polynomial(4 * n + 4), wire, 0), Held)
    <3> DEFINE p == Interleaved(new_polynomial(4 * n + 4), wire, 0)
    <3>1. IsPolynomial(p)
      BY MadePolynomials
    <3> HIDE DEF p
    <3>2. QED
      BY <1>1, <1>4, <2>2, <2>5, <3>1, PutKeepsAllocated DEF p
  <2>6. QED
    BY <2>3, <2>4, <2>5
<1>7. CASE item.work = "Fft" /\ DoFft(item, Held)
  <2> DEFINE p == FftOf(Stored(Monomial(item.tag)))
  <2>1. PutInto(cells, FftForm(item.tag), p, Held) /\ IsPolynomial(p)
    BY <1>7, MadePolynomials DEF DoFft, insert, put
  <2> HIDE DEF p
  <2>2. QED
    BY <1>1, <1>4, <2>1, PutKeepsAllocated
<1>8. CASE item.work = "Ifft" /\ DoIfft(item, Held)
  <2> DEFINE p == IfftOf(Stored(Lagrange(item.tag)))
  <2>1. PutInto(cells, Monomial(item.tag), p, Held) /\ IsPolynomial(p)
    BY <1>8, MadePolynomials DEF DoIfft, insert, put
  <2> HIDE DEF p
  <2>2. QED
    BY <1>1, <1>4, <2>1, PutKeepsAllocated
<1>9. QED
  BY <1>3, <1>5, <1>6, <1>7, <1>8

-----------------------------------------------------------------------------
(* The invariant.                                                            *)

LEMMA InitBInv == Init => BInv
<1> SUFFICES ASSUME Init
             PROVE  BInv
  OBVIOUS
<1>1. \A k \in Names : ~contains(k)
  BY DEF Init, StoreInit, contains
<1>2. Held = {}
  BY DEF Init, QueueInit, Held, HandleRefs, ItemRefs
<1>3. AllocatedIn(cells) /\ HeldApart
  BY <1>1, <1>2, NamesOfWires DEF AllocatedIn, HeldApart
<1>4. QED
  BY <1>3, InitIInv DEF Init, QueueInit, BInv, ItemsLive

(* What callers queue refers to nothing, or to the wire's own polynomial.    *)
LEMMA QueueableRefs ==
    ASSUME NEW tag \in Wires, NEW item \in Queueable(tag)
    PROVE  /\ item.tag = tag
           /\ \/ item.mul_scalars = NoRef /\ item.work # "ScalarMultiplication"
              \/ contains(Monomial(tag)) /\ item.mul_scalars = get(Monomial(tag))
  BY DEF Queueable, Ifft, Fft, SmallFft, ScalarMultiplication, Item

LEMMA QueueKeepsBInv ==
    ASSUME BInv, NEW tag \in Wires, NEW item \in Queueable(tag), CallerQueue(item)
    PROVE  AllocatedIn(cells)' /\ HeldApart' /\ ItemsLive' /\ queue_pos' <= Len(work_items')
<1>1. /\ HeapOK /\ MapTypeOK /\ NoAliasing /\ AllocatedIn(cells) /\ HeldApart /\ ItemsLive
      /\ work_items \in Seq(QueueableItems)
  BY DEF BInv, IInv, HeapOK, ItemsOK
<1>2. item \in QueueableItems
  BY <1>1, QueueableIsOK
<1>3. /\ work_items' = Append(work_items, item)
      /\ UNCHANGED <<polynomial_map, cells, handle, queue_pos>>
  BY DEF CallerQueue, add_to_queue, storeVars
<1>4. /\ Len(work_items') = Len(work_items) + 1
      /\ DOMAIN work_items' = 1 .. Len(work_items) + 1
      /\ \A i \in DOMAIN work_items : work_items'[i] = work_items[i]
      /\ work_items'[Len(work_items) + 1] = item
  BY <1>1, <1>2, <1>3
<1>5. /\ Monomial(tag) \in Names
      /\ contains(Monomial(tag)) => get(Monomial(tag)) \in Refs
  BY <1>1, NamesOfWires DEF MapTypeOK, contains, get
<1>6. Held' \subseteq Held \cup ({item.mul_scalars} \ {NoRef})
  <2>1. DOMAIN work_items = 1 .. Len(work_items) /\ Len(work_items) \in Nat
    BY <1>1
  <2>2. ItemRefs(work_items') \subseteq ItemRefs(work_items) \cup ({item.mul_scalars} \ {NoRef})
    BY <1>4, <2>1 DEF ItemRefs
  <2>3. QED
    BY <1>3, <2>2 DEF Held, HandleRefs
<1>7. \A r \in Held' : r \in Held \/ (contains(Monomial(tag)) /\ r = get(Monomial(tag)))
  BY <1>6, QueueableRefs
<1>8. AllocatedIn(cells)'
  BY <1>1, <1>3, <1>5, <1>7 DEF AllocatedIn, contains, get, IsPolynomial
<1>9. HeldApart'
  <2> SUFFICES ASSUME NEW t \in Wires, contains(FftForm(t))
               PROVE  get(FftForm(t)) \notin Held'
    BY <1>3 DEF HeldApart, contains, get
  <2>1. get(FftForm(t)) # get(Monomial(tag))
    BY <1>1, <1>5, NamesOfWires DEF NoAliasing
  <2>2. QED
    BY <1>1, <1>7, <2>1 DEF HeldApart
<1>10. ItemsLive'
  <2> SUFFICES ASSUME NEW i \in DOMAIN work_items', work_items'[i].work = "ScalarMultiplication"
               PROVE  work_items'[i].mul_scalars \in Refs
    BY DEF ItemsLive
  <2>1. CASE i \in DOMAIN work_items
    BY <1>1, <1>4, <2>1 DEF ItemsLive
  <2>2. CASE i = Len(work_items) + 1
    BY <1>4, <1>5, <2>2, QueueableRefs
  <2>3. QED
    BY <1>1, <1>4, <2>1, <2>2
<1>11. QED
  BY <1>1, <1>3, <1>4, <1>8, <1>9, <1>10 DEF BInv, IInv, ItemsOK

LEMMA NextBInv == BInv /\ [Next]_vars => BInv'
<1> SUFFICES ASSUME BInv, [Next]_vars
             PROVE  AllocatedIn(cells)' /\ HeldApart' /\ ItemsLive' /\ queue_pos' <= Len(work_items')
  BY NextIInv DEF BInv
<1>a. /\ IInv /\ HeapOK /\ DOMAIN cells = Refs /\ MapTypeOK /\ NoAliasing
      /\ AllocatedIn(cells) /\ HeldApart /\ ItemsLive /\ queue_pos <= Len(work_items)
      /\ work_items \in Seq(QueueableItems) /\ queue_pos \in Nat
  BY DEF BInv, IInv, HeapOK, ItemsOK
<1>b. UNCHANGED <<work_items, queue_pos>> => ItemsLive' /\ queue_pos' <= Len(work_items')
  BY <1>a DEF ItemsLive
<1>1. ASSUME NEW name \in InputNames, NEW p \in Witnesses, CallerPut(name, p)
      PROVE  AllocatedIn(cells)' /\ HeldApart' /\ ItemsLive' /\ queue_pos' <= Len(work_items')
  <2>1. /\ PutInto(cells, name, p, Held)
        /\ UNCHANGED <<handle, work_items, queue_pos>>
    BY <1>1 DEF CallerPut, put, queueVars
  <2>2. name \in Names /\ IsPolynomial(p)
    BY NamesOfWires, CallersAssumption DEF InputNames
  <2>3. QED
    BY <1>a, <1>b, <2>1, <2>2, PutKeepsAllocated
<1>2. ASSUME NEW name \in InputNames, CallerGet(name)
      PROVE  AllocatedIn(cells)' /\ HeldApart' /\ ItemsLive' /\ queue_pos' <= Len(work_items')
  <2>1. /\ UNCHANGED <<polynomial_map, cells, work_items, queue_pos>>
        /\ handle' = get(name) /\ contains(name)
    BY <1>2 DEF CallerGet, storeVars, queueVars
  <2>2. name \in Names /\ \A t \in Wires : FftForm(t) \in Names /\ name # FftForm(t)
    BY NamesOfWires DEF InputNames
  <2>3. get(name) \in Refs /\ IsPolynomial(cells[get(name)])
    BY <1>a, <2>1, <2>2 DEF AllocatedIn, MapTypeOK, contains, get
  <2>4. Held' \subseteq Held \cup {get(name)}
    BY <2>1 DEF Held, HandleRefs
  <2>5. AllocatedIn(cells)'
    BY <1>a, <2>1, <2>3, <2>4 DEF AllocatedIn, contains, get, IsPolynomial
  <2>6. \A t \in Wires : contains(FftForm(t)) => get(FftForm(t)) # get(name)
    BY <1>a, <2>2 DEF NoAliasing
  <2>7. HeldApart'
    BY <1>a, <2>1, <2>4, <2>6 DEF HeldApart, contains, get
  <2>8. QED
    BY <1>b, <2>1, <2>5, <2>7
<1>3. ASSUME NEW p \in Updates, CallerWrite(p)
      PROVE  AllocatedIn(cells)' /\ HeldApart' /\ ItemsLive' /\ queue_pos' <= Len(work_items')
  <2>1. /\ cells' = [cells EXCEPT ![handle] = p]
        /\ UNCHANGED <<polynomial_map, work_items, queue_pos, handle>>
    BY <1>3 DEF CallerWrite, WriteThrough, queueVars
  <2>2. IsPolynomial(p)
    BY CallersAssumption
  <2>3. AllocatedIn(cells')
    BY <1>a, <2>1, <2>2, WriteKeepsAllocated
  <2>4. Held' = Held
    BY <2>1, HeldRefs
  <2>5. QED
    BY <1>a, <1>b, <2>1, <2>3, <2>4 DEF AllocatedIn, HeldApart, contains, get, IsPolynomial
<1>4. ASSUME CallerDrop
      PROVE  AllocatedIn(cells)' /\ HeldApart' /\ ItemsLive' /\ queue_pos' <= Len(work_items')
  <2>1. /\ cells' = Reclaim(cells, polynomial_map, ItemRefs(work_items))
        /\ handle' = NoHandle
        /\ UNCHANGED <<polynomial_map, work_items, queue_pos>>
    BY <1>4 DEF CallerDrop, queueVars
  <2>2. Held' = ItemRefs(work_items) /\ Held' \subseteq Held
    BY <2>1 DEF Held, HandleRefs
  <2>3. QED
    BY <1>a, <1>b, <2>1, <2>2, ReclaimKeepsAllocated
<1>5. ASSUME NEW tag \in Wires, NEW item \in Queueable(tag), CallerQueue(item)
      PROVE  AllocatedIn(cells)' /\ HeldApart' /\ ItemsLive' /\ queue_pos' <= Len(work_items')
  BY <1>5, QueueKeepsBInv
<1>6. ASSUME \/ CallerFlush
             \/ FinishQueue(HandleRefs) /\ UNCHANGED callerVars
      PROVE  AllocatedIn(cells)' /\ HeldApart' /\ ItemsLive' /\ queue_pos' <= Len(work_items')
  <2>1. /\ cells' = Reclaim(cells, polynomial_map, HandleRefs)
        /\ work_items' = <<>> /\ queue_pos' = 0
        /\ UNCHANGED <<polynomial_map, handle>>
    BY <1>6 DEF CallerFlush, flush_queue, FinishQueue, callerVars
  <2>2. Held' = HandleRefs /\ Held' \subseteq Held
    BY <2>1 DEF Held, HandleRefs, ItemRefs
  <2>3. AllocatedIn(cells)' /\ HeldApart'
    BY <1>a, <2>1, <2>2, ReclaimKeepsAllocated
  <2>4. QED
    BY <2>1, <2>3 DEF ItemsLive
<1>7. ASSUME UNCHANGED <<polynomial_map, cells, work_items, queue_pos, handle>>
      PROVE  AllocatedIn(cells)' /\ HeldApart' /\ ItemsLive' /\ queue_pos' <= Len(work_items')
  BY <1>a, <1>b, <1>7, HeldRefs DEF AllocatedIn, HeldApart, contains, get, IsPolynomial
<1>8. ASSUME ProcessItem(Held), UNCHANGED callerVars
      PROVE  AllocatedIn(cells)' /\ HeldApart' /\ ItemsLive' /\ queue_pos' <= Len(work_items')
  <2>1. /\ queue_pos' = queue_pos + 1 /\ work_items' = work_items
        /\ queue_pos < Len(work_items)
    BY <1>8 DEF ProcessItem, InHand
  <2>2. ItemsLive' /\ queue_pos' <= Len(work_items')
    BY <1>a, <2>1 DEF ItemsLive
  <2>3. QED
    BY <1>8, <2>2, ItemKeepsAllocated
<1>9. ASSUME PanicOnItem, UNCHANGED callerVars
      PROVE  AllocatedIn(cells)' /\ HeldApart' /\ ItemsLive' /\ queue_pos' <= Len(work_items')
  <2> DEFINE item == item_in_hand
  <2>1. /\ item \in QueueableItems
        /\ UNCHANGED <<polynomial_map, work_items, queue_pos, handle>>
    BY <1>9 DEF PanicOnItem, InHand, IInv, BInv, ItemsOK, item_in_hand, callerVars
  <2>2. item.tag \in Wires
    BY <2>1 DEF QueueableItems
  <2>3. CASE cells' = cells
    BY <1>7, <2>1, <2>3
  <2>4. CASE /\ PanicBefore(item) = "no" /\ item.work = "SmallFft"
             /\ cells' = ShiftedHeap(item)
    <3>1. contains(Monomial(item.tag))
      BY <2>4 DEF PanicBefore, Needs
    <3>2. AllocatedIn(cells')
      BY <2>2, <2>4, <3>1, ShiftContents
    <3>3. QED
      BY <1>a, <1>b, <2>1, <3>2, HeldRefs
      DEF AllocatedIn, HeldApart, get, contains, IsPolynomial
  <2>5. QED
    BY <1>9, <2>3, <2>4 DEF PanicOnItem, PanicAfterShift
<1>10. ASSUME CallerProcess \/ UNCHANGED vars
       PROVE  UNCHANGED <<polynomial_map, cells, work_items, queue_pos, handle>>
  BY <1>10 DEF CallerProcess, process_queue, vars, storeVars, queueVars, callerVars
<1>11. QED
  BY <1>1, <1>2, <1>3, <1>4, <1>5, <1>6, <1>7, <1>8, <1>9, <1>10 DEF Next, Run, Stopped

LEMMA BInvariance == Spec => []BInv
  BY InitBInv, NextBInv, PTL DEF Spec

LEMMA NothingOfBInvDangles ==
    ASSUME BInv
    PROVE  TypeOK
<1>1. \A r \in Refs : IsPolynomial(cells[r]) => Live(r)
  BY CallersAssumption DEF Live
<1>2. MapTypeOK /\ DOMAIN cells = Refs
  BY DEF BInv, IInv, HeapOK
<1>3. \A name \in Names : contains(name) => Live(get(name))
  BY <1>1, <1>2 DEF BInv, AllocatedIn, MapTypeOK, contains, get
<1>4. \A r \in Held : Live(r)
  BY <1>1 DEF BInv, AllocatedIn
<1>5. queue_pos \in 0 .. Len(work_items)
  BY DEF BInv, IInv, ItemsOK
<1>6. QED
  BY <1>2, <1>3, <1>4, <1>5, HeldRefs DEF TypeOK, HandleRefs

(* The map has its type, and nothing it, a caller or a queued multiplication *)
(* refers to is ever freed, whatever is put, written, queued, dropped or     *)
(* flushed in between and wherever a panic stops process_queue.              *)
THEOREM NothingDangles == Spec => []TypeOK
  BY NothingOfBInvDangles, BInvariance, PTL

-----------------------------------------------------------------------------
(* The batch of jobs.                                                        *)

\* The jobs of the items after the first q.
JobsFrom(q) == [i \in 1 .. Len(work_items) - q |-> Job(work_items[q + i])]

AllJobs == {Job(work_items[i]) : i \in Nat}

LEMMA JobsShape ==
    ASSUME BInv
    PROVE  /\ Jobs = JobsFrom(queue_pos)
           /\ Len(Jobs) = Len(work_items) - queue_pos
           /\ \A q \in Nat : q < Len(work_items)
                 => /\ JobsFrom(q) # <<>>
                    /\ Head(JobsFrom(q)) = Job(work_items[q + 1])
                    /\ Tail(JobsFrom(q)) = JobsFrom(q + 1)
<1>1. /\ work_items \in Seq(QueueableItems) /\ queue_pos \in Nat
      /\ queue_pos <= Len(work_items) /\ Len(work_items) \in Nat
  BY DEF BInv, IInv, ItemsOK
<1>2. Jobs = JobsFrom(queue_pos)
  BY DEF Jobs, JobsFrom
<1>3. ASSUME NEW q \in Nat, q < Len(work_items)
      PROVE  /\ JobsFrom(q) # <<>>
             /\ Head(JobsFrom(q)) = Job(work_items[q + 1])
             /\ Tail(JobsFrom(q)) = JobsFrom(q + 1)
  <2> DEFINE js == JobsFrom(q)
             t == Tail(js)
  <2>1. \A i \in 1 .. Len(work_items) - q : q + i \in Nat /\ js[i] \in AllJobs
    BY <1>1 DEF JobsFrom, AllJobs
  <2>2. Len(work_items) - q \in Nat /\ Len(work_items) - q > 0
    BY <1>1, <1>3
  <2>3. js \in Seq(AllJobs) /\ Len(js) = Len(work_items) - q
    BY <2>1, <2>2 DEF JobsFrom
  <2>4. js[1] = Job(work_items[q + 1])
    BY <2>2 DEF JobsFrom
  <2>5. js # <<>>
    BY <2>2, <2>3
  <2>6. /\ Head(js) = js[1] /\ t \in Seq(AllJobs) /\ Len(t) = Len(js) - 1
        /\ \A i \in 1 .. Len(t) : t[i] = js[i + 1]
    BY <2>3, <2>5, HeadTailProperties
  <2> HIDE DEF t
  <2>7. t = [i \in 1 .. Len(work_items) - (q + 1) |-> Job(work_items[q + 1 + i])]
    <3>1. Len(t) = Len(work_items) - (q + 1)
      BY <1>1, <2>3, <2>6
    <3>2. t = [i \in 1 .. Len(t) |-> t[i]]
      BY <2>6
    <3>3. ASSUME NEW i \in 1 .. Len(work_items) - (q + 1)
          PROVE  js[i + 1] = Job(work_items[q + 1 + i])
      <4>1. i + 1 \in 1 .. Len(work_items) - q /\ q + (i + 1) = q + 1 + i
        BY <1>1
      <4>2. QED
        BY <4>1 DEF JobsFrom
    <3>4. QED
      BY <2>6, <3>1, <3>2, <3>3
  <2>8. QED
    BY <2>4, <2>5, <2>6, <2>7 DEF JobsFrom, t
<1>4. Len(Jobs) = Len(work_items) - queue_pos
  BY <1>1, <1>2 DEF JobsFrom
<1>5. QED
  BY <1>1, <1>2, <1>3, <1>4

(* The scalars an item refers to are held, as long as it is queued.          *)
LEMMA ScalarsHeld ==
    ASSUME BInv, NEW i \in DOMAIN work_items, work_items[i].work = "ScalarMultiplication"
    PROVE  work_items[i].mul_scalars \in ItemRefs(work_items)
  BY StoreAssumption DEF BInv, ItemsLive, ItemRefs

(* Writing one cell changes the scalars of those jobs that share it, to the  *)
(* same ones.                                                                *)
LEMMA WriteRebinds ==
    ASSUME BInv, NEW q \in Nat, queue_pos' = q, UNCHANGED work_items,
           NEW r, \A s \in ItemRefs(work_items) : s # r => cells'[s] = cells[s]
    PROVE  Batch!Rebinds(JobsFrom(q))
<1>1. Jobs' = [i \in 1 .. Len(work_items) - q |-> Job(work_items[q + i])']
  BY DEF Jobs, Job
<1>2. ASSUME NEW i \in 1 .. Len(work_items) - q, Jobs'[i] # JobsFrom(q)[i]
      PROVE  /\ Multiplies(JobsFrom(q)[i])
             /\ Jobs'[i] = [JobsFrom(q)[i] EXCEPT !.scalars = Jobs'[i].scalars]
             /\ JobsFrom(q)[i].scalars = cells[r].coefficients
             /\ Jobs'[i].scalars = cells'[r].coefficients
  <2> DEFINE item == work_items[q + i]
  <2>1. q + i \in DOMAIN work_items
    BY DEF BInv, IInv, ItemsOK
  <2>2. Jobs'[i] = Job(item)' /\ JobsFrom(q)[i] = Job(item)
    BY <1>1 DEF JobsFrom
  <2>3. item.work = "ScalarMultiplication" /\ item.mul_scalars = r
    BY <1>2, <2>1, <2>2, ScalarsHeld DEF Job
  <2>4. QED
    BY <2>2, <2>3 DEF Job, Multiplies
<1>3. DOMAIN Jobs' = DOMAIN JobsFrom(q) /\ DOMAIN JobsFrom(q) = 1 .. Len(work_items) - q
  BY <1>1 DEF JobsFrom
<1>4. QED
  BY <1>2, <1>3 DEF Batch!Rebinds

(* And as long as its scalars stay, the jobs do.                             *)
LEMMA KeptJobs ==
    ASSUME BInv, UNCHANGED work_items, NEW q \in Nat, queue_pos' = q,
           \A s \in ItemRefs(work_items) : cells'[s] = cells[s]
    PROVE  Jobs' = JobsFrom(q)
<1>1. Jobs' = [i \in 1 .. Len(work_items) - q |-> Job(work_items[q + i])']
  BY DEF Jobs, Job
<1>2. ASSUME NEW i \in 1 .. Len(work_items) - q
      PROVE  Job(work_items[q + i])' = Job(work_items[q + i])
  <2>1. q + i \in DOMAIN work_items
    BY DEF BInv, IInv, ItemsOK
  <2>2. QED
    BY <2>1, ScalarsHeld DEF Job
<1>3. QED
  BY <1>1, <1>2 DEF JobsFrom

(* What is stored under a name and found in the map is there in the batch.   *)
LEMMA FoundByName ==
    ASSUME BInv, NEW name \in Names, contains(name)
    PROVE  Contents[name] = cells[get(name)] /\ Contents[name] # Freed
  BY CallersAssumption DEF BInv, AllocatedIn, Contents, ContentsOf, contains

(* The steps of an item, on what is known by name.                           *)
LEMMA ScalarMultiplicationPerforms ==
    ASSUME BInv, NEW item \in QueueableItems, item.work = "ScalarMultiplication",
           DoScalarMultiplication(item)
    PROVE  /\ HasInputs(Job(item), Contents)
           /\ Contents' = EffectOf(Job(item), Contents)
           /\ elements' = CommitmentAfter(Job(item), elements)
           /\ cells' = cells
<1>1. /\ elements' = With(elements, item.tag,
                          Serialize(G1Width,
                              pippenger_unsafe(cells[item.mul_scalars].coefficients,
                                               msm_size(item))))
      /\ UNCHANGED storeVars
  BY DEF DoScalarMultiplication, add_group_element, add_element
<1>2. Contents' = Contents
  BY <1>1 DEF storeVars, Contents, ContentsOf, contains, get
<1>3. /\ Job(item).work = "ScalarMultiplication" /\ Job(item).tag = item.tag
      /\ Job(item).constant = item.constant
      /\ Job(item).scalars = cells[item.mul_scalars].coefficients
  BY DEF Job
<1>4. QED
  BY <1>1, <1>2, <1>3 DEF HasInputs, EffectOf, CommitmentAfter, msm_size, storeVars

LEMMA FftPerforms ==
    ASSUME BInv, NEW item \in QueueableItems, item.work = "Fft",
           contains(Monomial(item.tag)), DoFft(item, Held)
    PROVE  /\ HasInputs(Job(item), Contents)
           /\ Contents' = EffectOf(Job(item), Contents)
           /\ UNCHANGED elements
           /\ \A s \in ItemRefs(work_items) : cells'[s] = cells[s]
<1>1. /\ Job(item).work = "Fft" /\ Job(item).tag = item.tag
      /\ item.tag \in Wires
  BY DEF Job, QueueableItems
<1>2. /\ Monomial(item.tag) \in Names /\ FftForm(item.tag) \in Names
      /\ MapTypeOK /\ DOMAIN cells = Refs
  BY <1>1, NamesOfWires DEF BInv, IInv, HeapOK
<1> DEFINE p == FftOf(Contents[Monomial(item.tag)])
<1>3. PutInto(cells, FftForm(item.tag), p, Held) /\ UNCHANGED elements
  BY <1>2, FoundByName DEF DoFft, insert, put, Stored, transcriptVars
<1>4. Contents' = [Contents EXCEPT ![FftForm(item.tag)] = p]
  <2> HIDE DEF p
  <2>1. QED
    BY <1>2, <1>3, PutContents DEF Contents
<1>5. ASSUME NEW s \in ItemRefs(work_items)
      PROVE  cells'[s] = cells[s]
  <2> HIDE DEF p
  <2>1. s \in Held /\ s \in Refs
    BY HeldRefs DEF BInv, AllocatedIn
  <2>2. QED
    BY <1>2, <1>3, <2>1, PutKeepsHeldCells
<1>6. QED
  BY <1>1, <1>2, <1>3, <1>4, <1>5, FoundByName DEF HasInputs, EffectOf

LEMMA IfftPerforms ==
    ASSUME BInv, NEW item \in QueueableItems, item.work = "Ifft",
           contains(Lagrange(item.tag)), DoIfft(item, Held)
    PROVE  /\ HasInputs(Job(item), Contents)
           /\ Contents' = EffectOf(Job(item), Contents)
           /\ UNCHANGED elements
           /\ \A s \in ItemRefs(work_items) : cells'[s] = cells[s]
<1>1. /\ Job(item).work = "Ifft" /\ Job(item).tag = item.tag
      /\ item.tag \in Wires
  BY DEF Job, QueueableItems
<1>2. /\ Monomial(item.tag) \in Names /\ Lagrange(item.tag) \in Names
      /\ MapTypeOK /\ DOMAIN cells = Refs
  BY <1>1, NamesOfWires DEF BInv, IInv, HeapOK
<1> DEFINE p == IfftOf(Contents[Lagrange(item.tag)])
<1>3. PutInto(cells, Monomial(item.tag), p, Held) /\ UNCHANGED elements
  BY <1>2, FoundByName DEF DoIfft, insert, put, Stored, transcriptVars
<1>4. Contents' = [Contents EXCEPT ![Monomial(item.tag)] = p]
  <2> HIDE DEF p
  <2>1. QED
    BY <1>2, <1>3, PutContents DEF Contents
<1>5. ASSUME NEW s \in ItemRefs(work_items)
      PROVE  cells'[s] = cells[s]
  <2> HIDE DEF p
  <2>1. s \in Held /\ s \in Refs
    BY HeldRefs DEF BInv, AllocatedIn
  <2>2. QED
    BY <1>2, <1>3, <2>1, PutKeepsHeldCells
<1>6. QED
  BY <1>1, <1>2, <1>3, <1>4, <1>5, FoundByName DEF HasInputs, EffectOf

(* The first coset starts a polynomial of its own; the others are merged     *)
(* into it in its cell, which is that of no scalars.                         *)
LEMMA SmallFftPerforms ==
    ASSUME BInv, NEW item \in QueueableItems, item.work = "SmallFft",
           contains(Monomial(item.tag)), ~PanicAfterShift(item), DoSmallFft(item, Held)
    PROVE  /\ HasInputs(Job(item), Contents)
           /\ Contents' = EffectOf(Job(item), Contents)
           /\ UNCHANGED elements
           /\ \A s \in ItemRefs(work_items) :
                 s # get(Monomial(item.tag)) => cells'[s] = cells[s]
<1> DEFINE wire == Monomial(item.tag)
           fft == FftForm(item.tag)
           heap == ShiftedHeap(item)
           shifted == Shifted(item, Contents)
           values == heap[get(wire)].coefficients
<1>1. /\ Job(item).work = "SmallFft" /\ Job(item).tag = item.tag
      /\ Job(item).index = item.index /\ Job(item).constant = item.constant
      /\ item.tag \in Wires
  BY DEF Job, QueueableItems
<1>2. /\ wire \in Names /\ fft \in Names /\ fft # wire
      /\ MapTypeOK /\ NoAliasing /\ HeapOK /\ DOMAIN cells = Refs
      /\ get(wire) \in Refs
  BY <1>1, NamesOfWires DEF BInv, IInv, HeapOK, MapTypeOK, get, contains
<1>3. /\ DOMAIN heap = Refs
      /\ AllocatedIn(heap)
      /\ ContentsOf(heap) = shifted
      /\ \A r \in Refs : r # get(wire) => heap[r] = cells[r]
  BY <1>1, ShiftContents
<1>4. shifted[wire] = heap[get(wire)] /\ (contains(fft) => shifted[fft] = heap[get(fft)])
  BY <1>2, <1>3 DEF ContentsOf
<1>5. Shifted(Job(item), Contents) = shifted /\ shifted[fft] = Contents[fft]
  BY <1>1, <1>2 DEF Shifted, Contents, ContentsOf
<1>6. UNCHANGED elements
  BY DEF DoSmallFft, transcriptVars
<1>7. \A s \in ItemRefs(work_items) : s \in Held /\ s \in Refs
  BY HeldRefs DEF BInv, AllocatedIn
<1>8. ASSUME NEW p, p = Interleaved(IF item.index = 0 THEN new_polynomial(4 * n + 4)
                                    ELSE Contents[fft], values, item.index)
      PROVE  EffectOf(Job(item), Contents) = [shifted EXCEPT ![fft] = p]
  BY <1>1, <1>4, <1>5, <1>8 DEF EffectOf, CosetsAfter
<1>9. CASE item.index # 0
  <2> DEFINE p == Interleaved(heap[get(fft)], values, item.index)
  <2>1. contains(fft) /\ fft = FftForm(item.tag)
    BY <1>9 DEF PanicAfterShift
  <2>2. cells' = [heap EXCEPT ![get(fft)] = p] /\ UNCHANGED polynomial_map
    BY <1>9 DEF DoSmallFft
  <2>3. p = Interleaved(Contents[fft], values, item.index)
    BY <1>4, <1>5, <2>1
  <2>4. HasInputs(Job(item), Contents)
    BY <1>1, <1>2, <2>1, FoundByName DEF HasInputs
  <2> HIDE DEF p, heap, values, shifted, fft, wire
  <2>5. ContentsOf(cells') = [ContentsOf(heap) EXCEPT ![fft] = p]
    <3> DEFINE after == cells'
    <3>1. /\ after = [heap EXCEPT ![get(fft)] = p]
          /\ fft \in Names /\ contains(fft) /\ HeapOK /\ DOMAIN heap = Refs
      BY <1>2, <1>3, <2>1, <2>2
    <3> HIDE DEF after
    <3>2. ContentsOf(after) = [ContentsOf(heap) EXCEPT ![fft] = p]
      <4>1. WritesByName(heap, fft, p, after)
        BY ONLY <3>1 DEF WritesByName
      <4> QED
        BY ONLY <4>1, WriteByName
    <3>3. QED
      BY <3>2 DEF after
  <2>6. Contents' = ContentsOf(cells')
    BY <2>2 DEF Contents, ContentsOf, contains, get
  <2>7. Contents' = EffectOf(Job(item), Contents)
    BY <1>3, <1>8, <1>9, <2>3, <2>5, <2>6
  <2>8. \A s \in ItemRefs(work_items) : s # get(wire) => cells'[s] = cells[s]
    <3>1. get(fft) \notin Held
      BY <1>1, <2>1 DEF BInv, HeldApart, fft
    <3>2. QED
      BY <1>3, <1>7, <2>2, <3>1
  <2>9. QED
    BY <1>6, <2>4, <2>7, <2>8 DEF wire
<1>10. CASE item.index = 0
  <2> DEFINE p == Interleaved(new_polynomial(4 * n + 4), values, 0)
  <2>1. PutInto(heap, fft, p, Held)
    BY <1>10 DEF DoSmallFft
  <2>2. HasInputs(Job(item), Contents)
    BY <1>1, <1>2, <1>10, FoundByName DEF HasInputs
  <2>3. EffectOf(Job(item), Contents) = [shifted EXCEPT ![fft] = p]
    BY <1>8, <1>10
  <2> HIDE DEF p, heap, values, shifted, fft, wire
  <2>4. Contents' = [shifted EXCEPT ![fft] = p]
    BY <1>2, <1>3, <2>1, PutContents
  <2>5. \A s \in ItemRefs(work_items) : s # get(wire) => cells'[s] = cells[s]
    BY <1>2, <1>3, <1>7, <2>1, PutKeepsHeldCells
  <2>6. QED
    BY <1>6, <2>2, <2>3, <2>4, <2>5 DEF wire
<1>11. QED
  BY <1>9, <1>10

(* An item is performed as the first job of the batch.                       *)
LEMMA ItemPerforms ==
    ASSUME BInv, ProcessItem(Held), UNCHANGED callerVars
    PROVE  Batch!Perform
<1> DEFINE item == item_in_hand
           job == Job(item)
<1>1. /\ item \in QueueableItems
      /\ UNCHANGED work_items /\ queue_pos' = queue_pos + 1
      /\ queue_pos \in Nat /\ queue_pos < Len(work_items)
  BY DEF ProcessItem, InHand, BInv, IInv, ItemsOK, item_in_hand
<1>2. /\ Jobs # <<>> /\ Head(Jobs) = job /\ Tail(Jobs) = JobsFrom(queue_pos + 1)
  BY <1>1, JobsShape DEF item_in_hand
<1>3. PanicBefore(item) = "no" /\ ~PanicAfterShift(item)
  BY DEF ProcessItem
<1>4. \/ item.work = "ScalarMultiplication" /\ DoScalarMultiplication(item)
      \/ item.work = "SmallFft" /\ DoSmallFft(item, Held)
      \/ item.work = "Fft" /\ DoFft(item, Held)
      \/ item.work = "Ifft" /\ DoIfft(item, Held)
  BY <1>1 DEF ProcessItem, QueueableItems
<1>5. job.work = item.work
  BY DEF Job
<1> HIDE DEF item
<1>6. (\A s \in ItemRefs(work_items) : cells'[s] = cells[s]) => Jobs' = Tail(Jobs)
  BY <1>1, <1>2, KeptJobs
<1> HIDE DEF job
<1>7. CASE item.work = "ScalarMultiplication" /\ DoScalarMultiplication(item)
  <2>1. /\ HasInputs(job, Contents) /\ Contents' = EffectOf(job, Contents)
        /\ elements' = CommitmentAfter(job, elements) /\ cells' = cells
    BY <1>1, <1>7, ScalarMultiplicationPerforms DEF job
  <2>2. QED
    BY <1>2, <1>5, <1>6, <1>7, <2>1 DEF Batch!Perform, Multiplies, TransformsInput
<1>8. CASE item.work = "SmallFft" /\ DoSmallFft(item, Held)
  <2>1. contains(Monomial(item.tag))
    BY <1>3, <1>8 DEF PanicBefore, Needs
  <2>2. /\ HasInputs(job, Contents) /\ Contents' = EffectOf(job, Contents)
        /\ UNCHANGED elements
        /\ \A s \in ItemRefs(work_items) :
              s # get(Monomial(item.tag)) => cells'[s] = cells[s]
    BY <1>1, <1>3, <1>8, <2>1, SmallFftPerforms DEF job
  <2>3. Batch!Rebinds(JobsFrom(queue_pos + 1))
    <3> DEFINE q == queue_pos + 1
               r == get(Monomial(item.tag))
    <3>1. q \in Nat /\ queue_pos' = q /\ UNCHANGED work_items
      BY <1>1
    <3>2. \A s \in ItemRefs(work_items) : s # r => cells'[s] = cells[s]
      BY <2>2
    <3> HIDE DEF q, r
    <3>3. Batch!Rebinds(JobsFrom(q))
      BY <3>1, <3>2, WriteRebinds
    <3>4. QED
      BY <3>3 DEF q
  <2>4. QED
    BY <1>2, <1>5, <1>8, <2>2, <2>3 DEF Batch!Perform, Multiplies, TransformsInput
<1>9. CASE item.work = "Fft" /\ DoFft(item, Held)
  <2>1. contains(Monomial(item.tag))
    BY <1>3, <1>9 DEF PanicBefore, Needs
  <2>2. /\ HasInputs(job, Contents) /\ Contents' = EffectOf(job, Contents)
        /\ UNCHANGED elements
        /\ \A s \in ItemRefs(work_items) : cells'[s] = cells[s]
    BY <1>1, <1>9, <2>1, FftPerforms DEF job
  <2>3. QED
    BY <1>2, <1>5, <1>6, <1>9, <2>2 DEF Batch!Perform, Multiplies, TransformsInput
<1>10. CASE item.work = "Ifft" /\ DoIfft(item, Held)
  <2>1. contains(Lagrange(item.tag))
    BY <1>3, <1>10 DEF PanicBefore, Needs
  <2>2. /\ HasInputs(job, Contents) /\ Contents' = EffectOf(job, Contents)
        /\ UNCHANGED elements
        /\ \A s \in ItemRefs(work_items) : cells'[s] = cells[s]
    BY <1>1, <1>10, <2>1, IfftPerforms DEF job
  <2>3. QED
    BY <1>2, <1>5, <1>6, <1>10, <2>2 DEF Batch!Perform, Multiplies, TransformsInput
<1>11. QED
  BY <1>4, <1>7, <1>8, <1>9, <1>10

-----------------------------------------------------------------------------
(* The refinement.                                                           *)

batchVars == <<Jobs, Contents, elements>>

(* A caller's write is an update of one polynomial, or of the scalars of     *)
(* jobs only.                                                                *)
LEMMA WriteUpdates ==
    ASSUME BInv, NEW r \in Refs, NEW p, WriteThrough(r, p),
           UNCHANGED <<polynomial_map, work_items, queue_pos, elements>>
    PROVE  Batch!Update \/ UNCHANGED batchVars
<1>1. /\ MapTypeOK /\ NoAliasing /\ DOMAIN cells = Refs
      /\ work_items \in Seq(QueueableItems) /\ queue_pos \in Nat
  BY DEF BInv, IInv, HeapOK, ItemsOK
<1>2. \/ Contents' = Contents
      \/ \E k \in Names : Contents' = [Contents EXCEPT ![k] = p]
  BY <1>1, WriteContents
<1>3. \A s \in ItemRefs(work_items) : s # r => cells'[s] = cells[s]
  <2>1. \A s \in ItemRefs(work_items) : s \in Refs
    BY HeldRefs DEF BInv, AllocatedIn
  <2>2. QED
    BY <1>1, <2>1 DEF WriteThrough
<1>4. Batch!Rebinds(Jobs)
  <2>1. Batch!Rebinds(JobsFrom(queue_pos))
    <3> DEFINE q == queue_pos
    <3>1. q \in Nat /\ queue_pos' = q
      BY <1>1
    <3> HIDE DEF q
    <3>2. Batch!Rebinds(JobsFrom(q))
      BY <1>3, <3>1, WriteRebinds
    <3>3. QED
      BY <3>2 DEF q
  <2>2. QED
    BY <2>1, JobsShape
<1>5. CASE \E k \in Names : Contents' = [Contents EXCEPT ![k] = p]
  <2>1. PICK k \in Names : Contents' = [Contents EXCEPT ![k] = p]
    BY <1>5
  <2>2. Contents' = [Contents EXCEPT ![k] = Contents'[k]]
    BY <2>1 DEF Contents, ContentsOf
  <2>3. QED
    BY <1>4, <2>2 DEF Batch!Update
<1>6. CASE Contents' = Contents
  <2>1. CASE Jobs' = Jobs
    BY <1>6, <2>1 DEF batchVars
  <2>2. CASE Jobs' # Jobs
    <3>1. work_items # <<>>
      <4>1. SUFFICES ASSUME work_items = <<>>
                     PROVE  Jobs' = Jobs
        BY <2>2
      <4>2. \A i \in 1 .. Len(work_items) - queue_pos : FALSE
        BY <1>1, <4>1
      <4>3. QED
        BY <4>2 DEF Jobs
    <3>2. work_items[1] \in QueueableItems
      BY <1>1, <3>1
    <3>3. Monomial(work_items[1].tag) \in Names
      BY <3>2, NamesOfWires DEF QueueableItems
    <3>4. Contents' = [Contents EXCEPT ![Monomial(work_items[1].tag)]
                                         = Contents'[Monomial(work_items[1].tag)]]
      BY <1>6, <3>3 DEF Contents, ContentsOf
    <3>5. QED
      BY <1>4, <3>3, <3>4 DEF Batch!Update
  <2>3. QED
    BY <2>1, <2>2
<1>7. QED
  BY <1>2, <1>5, <1>6

(* Dropping references changes no job and nothing known by name, if those    *)
(* kept are the items' own.                                                  *)
LEMMA DropStutters ==
    ASSUME BInv, UNCHANGED <<polynomial_map, work_items, queue_pos, elements>>,
           cells' = Reclaim(cells, polynomial_map, ItemRefs(work_items))
    PROVE  UNCHANGED batchVars
<1>1. MapTypeOK /\ queue_pos \in Nat
  BY DEF BInv, IInv, HeapOK, ItemsOK
<1>2. Contents' = Contents
  BY <1>1, ReclaimContents
<1>3. \A s \in ItemRefs(work_items) : cells'[s] = cells[s]
  <2>1. \A s \in ItemRefs(work_items) : s \in Refs
    BY HeldRefs DEF BInv, AllocatedIn
  <2>2. QED
    BY <2>1 DEF Reclaim
<1>4. Jobs' = Jobs
  BY <1>1, <1>3, KeptJobs, JobsShape
<1>5. QED
  BY <1>2, <1>4 DEF batchVars

LEMMA QueueEnqueues ==
    ASSUME BInv, NEW tag \in Wires, NEW item \in Queueable(tag), CallerQueue(item)
    PROVE  Batch!Enqueue
<1>1. /\ work_items \in Seq(QueueableItems) /\ queue_pos \in Nat /\ MapTypeOK
      /\ queue_pos <= Len(work_items)
  BY DEF BInv, IInv, HeapOK, ItemsOK
<1>2. /\ work_items' = Append(work_items, item)
      /\ UNCHANGED <<polynomial_map, cells, elements, queue_pos>>
  BY DEF CallerQueue, add_to_queue, storeVars, transcriptVars
<1>3. item \in QueueableItems
  BY <1>1, QueueableIsOK
<1>4. /\ Len(work_items') = Len(work_items) + 1
      /\ \A i \in 1 .. Len(work_items) : work_items'[i] = work_items[i]
  BY <1>1, <1>2, <1>3
<1> DEFINE len == Len(work_items) - queue_pos
<1>5. len \in Nat /\ Len(Jobs) = len /\ Len(work_items') - queue_pos = len + 1
  BY <1>1, <1>2, <1>4, JobsShape
<1>6. \A i \in 1 .. len : /\ queue_pos + i \in 1 .. Len(work_items)
                           /\ work_items'[queue_pos + i] = work_items[queue_pos + i]
  BY <1>1, <1>4
<1> HIDE DEF len
<1>7. Jobs' = [i \in 1 .. len + 1 |-> Job(work_items'[queue_pos + i])]
  BY <1>2, <1>5 DEF Jobs, Job
<1>8. Jobs = [i \in 1 .. len |-> Job(work_items[queue_pos + i])]
  BY <1>5, JobsShape DEF Jobs, len
<1>9. \A i \in 1 .. len : Jobs'[i] = Jobs[i]
  BY <1>5, <1>6, <1>7, <1>8
<1> DEFINE js == Jobs
           ks == Jobs'
<1>10. /\ Len(ks) = len + 1 /\ Len(js) = len
       /\ js = [i \in 1 .. len |-> js[i]]
  BY <1>5, <1>7, <1>8
<1>11. SubSeq(ks, 1, len) = js
  <2>1. SubSeq(ks, 1, len) = [i \in 1 .. len |-> ks[i]]
    BY <1>5
  <2>2. QED
    BY <1>9, <1>10, <2>1
<1>12. Contents' = Contents
  BY <1>2 DEF Contents, ContentsOf, contains, get
<1>13. QED
  BY <1>2, <1>10, <1>11, <1>12 DEF Batch!Enqueue

LEMMA BatchStep == BInv /\ [Next]_vars => [Batch!Next]_batchVars
<1> SUFFICES ASSUME BInv, [Next]_vars
             PROVE  Batch!Next \/ UNCHANGED batchVars
  OBVIOUS
<1>a. /\ DOMAIN cells = Refs /\ MapTypeOK /\ queue_pos \in Nat
      /\ work_items \in Seq(QueueableItems)
      /\ \A s \in ItemRefs(work_items) : s \in Refs
  BY HeldRefs DEF BInv, IInv, HeapOK, ItemsOK, AllocatedIn
<1>1. ASSUME NEW name \in InputNames, NEW p \in Witnesses, CallerPut(name, p)
      PROVE  Batch!Update
  <2>1. /\ PutInto(cells, name, p, Held)
        /\ UNCHANGED <<work_items, queue_pos, elements>>
    BY <1>1 DEF CallerPut, put, queueVars, transcriptVars
  <2>2. name \in Names
    BY NamesOfWires DEF InputNames
  <2>3. Contents' = [Contents EXCEPT ![name] = p]
    BY <1>a, <2>1, <2>2, PutContents DEF Contents
  <2>4. \A s \in ItemRefs(work_items) : cells'[s] = cells[s]
    BY <1>a, <2>1, <2>2, HeldRefs, PutKeepsHeldCells
  <2>5. Jobs' = Jobs
    BY <1>a, <2>1, <2>4, KeptJobs, JobsShape
  <2>6. Batch!Rebinds(Jobs)
    BY <2>5 DEF Batch!Rebinds
  <2>7. Contents' = [Contents EXCEPT ![name] = Contents'[name]]
    BY <2>2, <2>3 DEF Contents, ContentsOf
  <2>8. QED
    BY <2>1, <2>2, <2>6, <2>7 DEF Batch!Update
<1>2. ASSUME NEW p \in Updates, CallerWrite(p)
      PROVE  Batch!Update \/ UNCHANGED batchVars
  <2>1. handle \in Refs
    BY <1>2 DEF CallerWrite, BInv, IInv
  <2>2. /\ WriteThrough(handle, p)
        /\ UNCHANGED <<polynomial_map, work_items, queue_pos, elements>>
    BY <1>2 DEF CallerWrite, queueVars, transcriptVars
  <2>3. QED
    BY <2>1, <2>2, WriteUpdates
<1>3. ASSUME CallerDrop
      PROVE  UNCHANGED batchVars
  BY <1>3, DropStutters DEF CallerDrop, queueVars, transcriptVars
<1>4. ASSUME NEW tag \in Wires, NEW item \in Queueable(tag), CallerQueue(item)
      PROVE  Batch!Enqueue
  BY <1>4, QueueEnqueues
<1>5. ASSUME \/ CallerFlush
             \/ FinishQueue(HandleRefs) /\ UNCHANGED callerVars
      PROVE  Batch!Discard
  <2>1. /\ cells' = Reclaim(cells, polynomial_map, HandleRefs)
        /\ work_items' = <<>> /\ queue_pos' = 0
        /\ UNCHANGED <<polynomial_map, elements>>
    BY <1>5 DEF CallerFlush, flush_queue, FinishQueue, transcriptVars
  <2>2. Contents' = Contents
    BY <1>a, <2>1, ReclaimContents
  <2>3. Jobs' = <<>>
    BY <2>1 DEF Jobs
  <2>4. QED
    BY <2>1, <2>2, <2>3 DEF Batch!Discard
<1>6. ASSUME UNCHANGED <<storeVars, work_items, queue_pos, elements>>
      PROVE  UNCHANGED batchVars
  BY <1>6 DEF storeVars, batchVars, Jobs, Job, Contents, ContentsOf, contains, get
<1>7. ASSUME ProcessItem(Held), UNCHANGED callerVars
      PROVE  Batch!Perform
  BY <1>7, ItemPerforms
<1>8. ASSUME PanicOnItem, UNCHANGED callerVars
      PROVE  Batch!Update \/ UNCHANGED batchVars
  <2> DEFINE item == item_in_hand
             wire == Monomial(item.tag)
             p == [cells[get(wire)] EXCEPT !.coefficients =
                      coset_fft_with_generator_shift(@, item.constant)]
  <2>1. /\ item \in QueueableItems
        /\ UNCHANGED <<polynomial_map, work_items, queue_pos, elements>>
    BY <1>8 DEF PanicOnItem, InHand, IInv, BInv, ItemsOK, item_in_hand, transcriptVars
  <2>2. CASE cells' = cells
    BY <1>6, <2>1, <2>2 DEF storeVars
  <2>3. CASE /\ PanicBefore(item) = "no" /\ item.work = "SmallFft"
             /\ cells' = ShiftedHeap(item)
    <3>1. wire \in Names /\ contains(wire)
      BY <2>1, <2>3, NamesOfWires DEF PanicBefore, Needs, QueueableItems
    <3>2. get(wire) \in Refs
      BY <1>a, <3>1 DEF MapTypeOK, contains, get
    <3>3. WriteThrough(get(wire), p)
      BY <2>3 DEF ShiftedHeap, WriteThrough
    <3> HIDE DEF p
    <3>4. QED
      BY <2>1, <3>2, <3>3, WriteUpdates
  <2>4. QED
    BY <1>8, <2>2, <2>3 DEF PanicOnItem, PanicAfterShift
<1>9. ASSUME \/ \E name \in InputNames : CallerGet(name)
             \/ CallerProcess
             \/ UNCHANGED vars
      PROVE  UNCHANGED <<storeVars, work_items, queue_pos, elements>>
  BY <1>9 DEF CallerGet, CallerProcess, process_queue, vars, storeVars, queueVars,
              transcriptVars
<1>10. QED
  BY <1>1, <1>2, <1>3, <1>4, <1>5, <1>6, <1>7, <1>8, <1>9
  DEF Next, Run, Stopped, Batch!Next

(* The queue implements the batch: through every interleaving of puts,       *)
(* reads, writes and queued work, items are performed in order and once, and *)
(* change no polynomial, commitment or scalars but those of their job.       *)
THEOREM QueueImplementsBatch == Spec => ImplementsBatch
<1>1. Init => Batch!Init
  BY DEF Init, StoreInit, TranscriptInit, QueueInit, Batch!Init, Jobs, Contents,
         ContentsOf, contains, get
<1>2. QED
  BY <1>1, BInvariance, BatchStep, PTL DEF Spec, ImplementsBatch, Batch!Spec, batchVars

-----------------------------------------------------------------------------
(* The queue with a worker outside.                                          *)


\* The kinds of items that are computed outside.
OutsideWork == {"ScalarMultiplication", "SmallFft", "Ifft"}

\* The number of an item in work counts the items of its kind before it.
AnswerOK == answer # Nothing => answer.work \in OutsideWork /\ answer.number \in Nat

WInv == BInv /\ AnswerOK

-----------------------------------------------------------------------------
(* Items by their number.                                                    *)

LEMMA KthIsQueued ==
    ASSUME ItemsOK, NEW work, NEW k, HasKth(work, k)
    PROVE  Kth(work, k) \in QueueableItems /\ Kth(work, k).work = work
<1> DEFINE i0 == CHOOSE i \in Positions(work) : CountBefore(i, work) = k
<1>1. i0 \in Positions(work)
  BY DEF HasKth
<1>2. Kth(work, k) = work_items[i0]
  BY DEF Kth
<1> HIDE DEF i0
<1>3. QED
  BY <1>1, <1>2 DEF Positions, ItemsOK

(* The positions before a given one that hold the kind are finitely many.    *)
LEMMA PositionsFinite ==
    ASSUME ItemsOK, NEW work
    PROVE  /\ Positions(work) \subseteq 1 .. Len(work_items)
           /\ Len(work_items) \in Nat
           /\ IsFiniteSet(Positions(work))
<1>1. Positions(work) \subseteq 1 .. Len(work_items) /\ Len(work_items) \in Nat
  BY DEF Positions, ItemsOK
<1>2. IsFiniteSet(1 .. Len(work_items))
  BY <1>1, FS_Interval
<1>3. QED
  BY <1>1, <1>2, FS_Subset

(* When the first items are as many as there are of the kind, and of the     *)
(* kind, the k-th of the kind is at position k, from 0.                      *)
LEMMA KthIsAtK ==
    ASSUME ItemsOK, NEW work, NEW k \in Nat, HasKth(work, k),
           \A j \in 0 .. Cardinality(Positions(work)) - 1 : HasAt(work, j)
    PROVE  HasAt(work, k) /\ Kth(work, k) = work_items[k + 1]
<1> DEFINE S == Positions(work)
           Before(i) == {j \in S : j < i}
           i0 == CHOOSE i \in S : CountBefore(i, work) = k
<1>1. S \subseteq 1 .. Len(work_items) /\ Len(work_items) \in Nat /\ IsFiniteSet(S)
  BY PositionsFinite
<1>2. i0 \in S /\ Cardinality(Before(i0)) = k
  BY DEF HasKth, CountBefore
<1>3. Kth(work, k) = work_items[i0]
  BY DEF Kth
<1> HIDE DEF i0
<1>4. \A j \in 1 .. Cardinality(S) : j \in S
  <2> SUFFICES ASSUME NEW j \in 1 .. Cardinality(S)
               PROVE  j \in S
    OBVIOUS
  <2>1. Cardinality(S) \in Nat
    BY <1>1, FS_CardinalityType
  <2>2. j - 1 \in 0 .. Cardinality(S) - 1
    BY <2>1
  <2>3. HasAt(work, j - 1)
    BY <2>2
  <2>4. j - 1 < Len(work_items) /\ work_items[j].work = work
    BY <2>1, <2>3 DEF HasAt
  <2>5. j \in DOMAIN work_items
    BY <2>1, <2>4 DEF ItemsOK
  <2>6. QED
    BY <2>4, <2>5 DEF Positions
<1>5. k < Cardinality(S)
  <2>1. Before(i0) \in SUBSET S /\ i0 \notin Before(i0)
    BY <1>1, <1>2
  <2>2. /\ Cardinality(Before(i0)) <= Cardinality(S)
        /\ Cardinality(S) = Cardinality(Before(i0)) => S = Before(i0)
    BY <1>1, <2>1, FS_Subset
  <2>3. Cardinality(S) # Cardinality(Before(i0))
    BY <1>2, <2>1, <2>2
  <2>4. Cardinality(S) \in Nat
    BY <1>1, FS_CardinalityType
  <2>5. QED
    BY <1>2, <2>2, <2>3, <2>4
<1>6. Cardinality(S) \in Nat /\ i0 \in Nat /\ i0 >= 1
  BY <1>1, <1>2, FS_CardinalityType
<1>7. i0 <= k + 1
  <2> SUFFICES ASSUME i0 > k + 1
               PROVE  FALSE
    BY <1>6
  <2>1. 1 .. k + 1 \in SUBSET Before(i0)
    BY <1>4, <1>5, <1>6
  <2>2. IsFiniteSet(Before(i0))
    BY <1>1, FS_Subset
  <2>3. Cardinality(1 .. k + 1) <= Cardinality(Before(i0))
    BY <2>1, <2>2, FS_Subset
  <2>4. Cardinality(1 .. k + 1) = k + 1
    BY FS_Interval
  <2>5. QED
    BY <1>2, <2>3, <2>4
<1>8. i0 >= k + 1
  <2>1. PICK m \in Nat : m = i0 - 1
    BY <1>6
  <2>2. Before(i0) \in SUBSET (1 .. m)
    BY <1>1, <1>6, <2>1
  <2>3. IsFiniteSet(1 .. m) /\ Cardinality(1 .. m) = m
    BY FS_Interval
  <2>4. Cardinality(Before(i0)) <= Cardinality(1 .. m)
    BY <2>2, <2>3, FS_Subset
  <2>5. QED
    BY <1>2, <1>6, <2>1, <2>3, <2>4
<1>9. i0 = k + 1
  BY <1>6, <1>7, <1>8
<1>10. HasAt(work, k)
  BY <1>5, <1>6
<1>11. QED
  BY <1>3, <1>9, <1>10

-----------------------------------------------------------------------------
(* The invariant.                                                            *)

(* A polynomial put in a new cell under a name of the store.                 *)
LEMMA PutKeepsBInv ==
    ASSUME BInv, NEW name \in Names, NEW p, IsPolynomial(p),
           PutInto(cells, name, p, Held), UNCHANGED <<handle, work_items, queue_pos>>,
           \A tag \in Wires : name = FftForm(tag) => Wraps(p)
    PROVE  BInv'
<1>1. /\ IInv /\ HeapOK /\ DOMAIN cells = Refs /\ ItemsOK /\ HandleApart /\ WrapsIn(cells)
      /\ AllocatedIn(cells) /\ HeldApart /\ ItemsLive /\ queue_pos <= Len(work_items)
      /\ handle \in Refs \cup {NoHandle} /\ HandleRefs \subseteq Held
  BY HeldRefs DEF BInv, IInv, HeapOK
<1>2. HeapOK' /\ HandleApart' /\ WrapsIn(cells)'
  BY <1>1, PutKeepsHeap
<1>3. AllocatedIn(cells)' /\ HeldApart'
  BY <1>1, PutKeepsAllocated
<1>4. QED
  BY <1>1, <1>2, <1>3 DEF BInv, IInv, ItemsOK, ItemsLive

LEMMA SameBInv ==
    ASSUME BInv, UNCHANGED <<polynomial_map, cells, handle, work_items, queue_pos>>
    PROVE  BInv'
<1>1. Held' = Held
  BY HeldRefs
<1>2. QED
  BY <1>1 DEF BInv, IInv, HeapOK, ItemsOK, HandleApart, MapTypeOK, NoAliasing, WrapsIn,
    AllocatedIn, HeldApart, ItemsLive, get, contains, Wraps, IsPolynomial

(* An answer that comes back finds the queue as it is by then: its number    *)
(* may mean another item, or none, and the invariant holds all the same.     *)
LEMMA GiveKeepsBInv ==
    ASSUME WInv, WorkerGive
    PROVE  BInv'
<1>1. /\ BInv /\ ItemsOK /\ answer.number \in Nat /\ answer.work \in OutsideWork
      /\ UNCHANGED handle
  BY DEF WInv, AnswerOK, WorkerGive, BInv, IInv, callerVars
<1>2. CASE answer.work = "ScalarMultiplication"
  <2>1. /\ put_scalar_multiplication_data(answer.result, answer.number)
        /\ UNCHANGED storeVars
    BY <1>2 DEF WorkerGive
  <2>2. UNCHANGED <<polynomial_map, cells, handle, work_items, queue_pos>>
    BY <1>1, <2>1 DEF put_scalar_multiplication_data, storeVars, queueVars
  <2>3. QED
    BY <1>1, <2>2, SameBInv
<1>3. CASE answer.work = "SmallFft"
  <2>1. put_fft_data(answer.result, answer.number, Held)
    BY <1>3 DEF WorkerGive
  <2>2. UNCHANGED <<work_items, queue_pos>>
    BY <2>1 DEF put_fft_data, queueVars
  <2>3. CASE HasKth("SmallFft", answer.number)
    <3>1. PICK item \in QueueableItems : item = Kth("SmallFft", answer.number)
      BY <1>1, <2>3, KthIsQueued
    <3>2. PICK p : p = Interleaved(new_polynomial(4 * n + 4), answer.result, item.index)
      OBVIOUS
    <3>3. PutInto(cells, FftForm(item.tag), p, Held)
      BY <2>1, <2>3, <3>1, <3>2 DEF put_fft_data, insert, put
    <3>4. item.tag \in Wires /\ item.index \in 0 .. 3
      BY DEF QueueableItems
    <3>5. IsPolynomial(p) /\ Wraps(p)
      BY <3>2, <3>4, MadePolynomials, NewWraps, InterleavedWraps
    <3>6. QED
      BY <1>1, <2>2, <3>3, <3>4, <3>5, NamesOfWires, PutKeepsBInv
  <2>4. CASE ~HasKth("SmallFft", answer.number)
    BY <1>1, <2>1, <2>2, <2>4, SameBInv DEF put_fft_data, storeVars
  <2>5. QED
    BY <2>3, <2>4
<1>4. CASE answer.work = "Ifft"
  <2>1. put_ifft_data(answer.number, Held)
    BY <1>4 DEF WorkerGive
  <2>2. UNCHANGED <<work_items, queue_pos>>
    BY <2>1 DEF put_ifft_data, queueVars
  <2>3. CASE HasAt("Ifft", answer.number)
    <3>1. PICK item \in QueueableItems : item = work_items[answer.number + 1]
      BY <1>1, <2>3 DEF HasAt, ItemsOK
    <3>2. PICK p : p = new_polynomial(n)
      OBVIOUS
    <3>3. PutInto(cells, Monomial(item.tag), p, Held)
      BY <2>1, <2>3, <3>1, <3>2 DEF put_ifft_data, put
    <3>4. item.tag \in Wires /\ IsPolynomial(p)
      BY <3>2, MadePolynomials DEF QueueableItems
    <3>5. /\ Monomial(item.tag) \in Names
          /\ \A tag \in Wires : Monomial(item.tag) # FftForm(tag)
      BY <3>4, NamesOfWires
    <3>6. QED
      BY <1>1, <2>2, <3>3, <3>4, <3>5, PutKeepsBInv
  <2>4. CASE ~HasAt("Ifft", answer.number)
    BY <1>1, <2>1, <2>2, <2>4, SameBInv DEF put_ifft_data, storeVars
  <2>5. QED
    BY <2>3, <2>4
<1>5. QED
  BY <1>1, <1>2, <1>3, <1>4 DEF OutsideWork

LEMMA InitWInv == WorkerInit => WInv
  BY InitBInv DEF WorkerInit, WInv, AnswerOK

LEMMA NextWInv == WInv /\ [WorkerNext]_workerVars => WInv'
<1> SUFFICES ASSUME WInv, [WorkerNext]_workerVars
             PROVE  WInv'
  OBVIOUS
<1>1. CASE Next /\ UNCHANGED answer
  BY <1>1, NextBInv DEF WInv, AnswerOK
<1>2. ASSUME NEW work \in OutsideWork, NEW k \in 0 .. MaxQueued - 1, WorkerTake(work, k)
      PROVE  WInv'
  <2>1. UNCHANGED vars
    BY <1>2 DEF WorkerTake
  <2>2. BInv'
    BY <2>1, NextBInv DEF WInv
  <2>3. answer'.work = work /\ answer'.number = k
    BY <1>2 DEF WorkerTake, Answer
  <2>4. k \in Nat
    OBVIOUS
  <2>5. QED
    BY <2>2, <2>3, <2>4 DEF WInv, AnswerOK
<1>3. CASE WorkerGive
  BY <1>3, GiveKeepsBInv DEF WorkerGive, WInv, AnswerOK
<1>4. CASE UNCHANGED workerVars
  BY <1>4, NextBInv DEF workerVars, WInv, AnswerOK
<1>5. QED
  BY <1>1, <1>2, <1>3, <1>4 DEF WorkerNext, OutsideWork

LEMMA WInvariance == WorkerSpec => []WInv
  BY InitWInv, NextWInv, PTL DEF WorkerSpec

(* A worker outside, however late its answer and whatever was flushed, put   *)
(* or queued since it took its item, leaves no reference dangling.           *)
THEOREM NothingDanglesUnderWorkers == WorkerSpec => []TypeOK
<1>1. WInv => TypeOK
  BY NothingOfBInvDangles DEF WInv
<1>2. QED
  BY <1>1, WInvariance, PTL

(* Every `_fft` polynomial wraps around also when its cosets are put by a    *)
(* worker, each in a buffer of its own, among items the queue computes.      *)
THEOREM WorkersFftsWrapAround == WorkerSpec => []FftWrapsAround
<1>1. WInv => FftWrapsAround
  BY DEF WInv, BInv, IInv, WrapsIn, FftWrapsAround, Stored
<1>2. QED
  BY <1>1, WInvariance, PTL

-----------------------------------------------------------------------------
(* Commitments.                                                              *)

LEMMA GiveCommits ==
    ASSUME WInv, WorkerGive, answer.work = "ScalarMultiplication", PositionsAgree, StillQueued
    PROVE  elements' = With(elements, answer.tag, Serialize(G1Width, answer.result))
<1>1. ItemsOK /\ answer.number \in Nat
  BY DEF WInv, AnswerOK, WorkerGive, BInv, IInv
<1>2. /\ HasAt("ScalarMultiplication", answer.number)
      /\ work_items[answer.number + 1].tag = answer.tag
  BY <1>1, KthIsAtK DEF PositionsAgree, StillQueued
<1>3. put_scalar_multiplication_data(answer.result, answer.number)
  BY DEF WorkerGive
<1>4. QED
  BY <1>2, <1>3 DEF put_scalar_multiplication_data, add_group_element, add_element

(* In batches of the prover's shapes a commitment computed outside lands     *)
(* under the tag of the item it was computed for, for every length of the    *)
(* batch: got by count and put by position, the number means the same item.  *)
THEOREM CommitmentsLand == WorkerSpec => CommitmentsLandUnderTheirTag
<1>1. ASSUME WInv
      PROVE  WorkerGive /\ answer.work = "ScalarMultiplication" /\ PositionsAgree /\ StillQueued
             => elements' = With(elements, answer.tag, Serialize(G1Width, answer.result))
  BY <1>1, GiveCommits
<1>2. QED
  BY <1>1, WInvariance, PTL DEF WorkerSpec, CommitmentsLandUnderTheirTag
==============================================================================
