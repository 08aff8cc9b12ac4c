----------------------------- MODULE Prover_proofs -----------------------------
(***************************************************************************)
(* Theorems about Prover, for any key, witness, widgets and stubs.         *)
(*                                                                         *)
(* The invariant IInv has a part for the heap and what may refer to it,    *)
(* one for the queue of each round, and one for how far a proof has come:  *)
(* the first challenge is derived once, so that nothing is blinded, sent   *)
(* or divided again by a second call of construct_proof.                   *)
(***************************************************************************)
EXTENDS Prover, PolynomialStore_proofs

-----------------------------------------------------------------------------
(* The store: what a step keeps of what can be read by name.                 *)

\* The polynomials of every name but `key` are those of `heap`.
NamesKept(heap, key) ==
    \A name \in Names \ {key} :
        /\ polynomial_map'[name] = polynomial_map[name]
        /\ polynomial_map[name] # NoRef =>
              cells'[polynomial_map[name]] = heap[polynomial_map[name]]

(* put gives the name a cell outside `held`, and keeps what the other names  *)
(* and the holders see.                                                      *)
LEMMA PutEffect ==
    ASSUME NEW held, NEW heap, NEW key \in Names, NEW polynomial,
           MapTypeOK, NoAliasing, DOMAIN heap = Refs,
           PutInto(heap, key, polynomial, held)
    PROVE  /\ MapTypeOK' /\ NoAliasing'
           /\ DOMAIN cells' = Refs
           /\ NamesKept(heap, key)
           /\ polynomial_map'[key] \in Refs \ held
           /\ polynomial_map'[key] # NoRef
           /\ cells'[polynomial_map'[key]] = polynomial
           /\ \A r \in held \cap Refs : cells'[r] = heap[r]
<1>1. MapTypeOK' /\ NoAliasing'
  BY PutKeepsMap
<1> DEFINE f == FreshRef(held)
<1>2. /\ f \in Refs \ held
      /\ \A k \in Names : polynomial_map[k] # f
  BY FreshRefIsFree DEF PutInto
<1>3. /\ polynomial_map' = [polynomial_map EXCEPT ![key] = f]
      /\ cells' = Reclaim([heap EXCEPT ![f] = polynomial], polynomial_map', held)
  BY DEF PutInto
<1> HIDE DEF f
<1>4. /\ polynomial_map'[key] = f
      /\ \A k \in Names \ {key} : polynomial_map'[k] = polynomial_map[k]
  BY <1>3 DEF MapTypeOK
<1>5. DOMAIN cells' = Refs
  BY <1>3 DEF Reclaim
<1>6. cells'[f] = polynomial
  BY <1>2, <1>3, <1>4 DEF Reclaim
<1>7. \A k \in Names \ {key} :
         polynomial_map[k] # NoRef => cells'[polynomial_map[k]] = heap[polynomial_map[k]]
  BY <1>2, <1>3, <1>4 DEF Reclaim, MapTypeOK
<1>8. \A r \in held \cap Refs : cells'[r] = heap[r]
  BY <1>2, <1>3 DEF Reclaim
<1>9. NamesKept(heap, key)
  BY <1>4, <1>7 DEF NamesKept
<1>10. QED
  BY <1>1, <1>2, <1>4, <1>5, <1>6, <1>8, <1>9, StoreAssumption

(* Dropping references keeps what names and the holders left see.            *)
LEMMA ReclaimEffect ==
    ASSUME NEW held, MapTypeOK, UNCHANGED polynomial_map,
           cells' = Reclaim(cells, polynomial_map, held)
    PROVE  /\ DOMAIN cells' = Refs
           /\ \A name \in Names : polynomial_map[name] # NoRef =>
                 cells'[polynomial_map[name]] = cells[polynomial_map[name]]
           /\ \A r \in held \cap Refs : cells'[r] = cells[r]
<1>1. \A name \in Names : polynomial_map[name] # NoRef =>
         cells'[polynomial_map[name]] = cells[polynomial_map[name]]
  BY DEF Reclaim, MapTypeOK
<1>2. QED
  BY <1>1 DEF Reclaim

-----------------------------------------------------------------------------
(* Names, rounds and sizes.                                                  *)

(* The wires are at least three, with names of their own.                    *)
LEMMA Wires ==
    /\ WireIndices = 1 .. program_width
    /\ program_width \in 3 .. 4
    /\ WireIndices \subseteq 1 .. 4
    /\ n \in Nat /\ n >= 4
    /\ num_public_inputs \in 0 .. n - 4
    /\ \A i, j \in 1 .. 4 :
          /\ WireTags[i] = WireTags[j] => i = j
          /\ CommitTags[i] = CommitTags[j] => i = j
          /\ QuotientTags[i] = QuotientTags[j] => i = j
          /\ CommitTags[i] # QuotientTags[j]
<1>1. program_width \in 3 .. 4
  BY ProverAssumption
<1>2. n \in Nat /\ num_public_inputs \in 0 .. n - 4
  BY CircuitAssumption, ProverAssumption DEF n, num_roots_cut_out_of_vanishing_polynomial
<1>3. n >= 4
  BY <1>2
<1>4. \A i, j \in 1 .. 4 :
          /\ WireTags[i] = WireTags[j] => i = j
          /\ CommitTags[i] = CommitTags[j] => i = j
          /\ QuotientTags[i] = QuotientTags[j] => i = j
          /\ CommitTags[i] # QuotientTags[j]
  BY DEF WireTags, CommitTags, QuotientTags
<1>5. QED
  BY <1>1, <1>2, <1>3, <1>4 DEF WireIndices

(* The suffixes keep the three names of a polynomial apart.                  *)
LEMMA NamesApart ==
    ASSUME NEW x, NEW y
    PROVE  /\ Lagrange(x) # Monomial(y)
           /\ Lagrange(x) # FftForm(y)
           /\ Monomial(x) # FftForm(y)
           /\ Lagrange(x) = Lagrange(y) => x = y
           /\ Monomial(x) = Monomial(y) => x = y
BY DEF Lagrange, Monomial, FftForm

(* The rounds, in the order in which they follow each other.                 *)
LEMMA RoundsInOrder ==
    /\ RoundAfter("preamble") = "first"
    /\ RoundAfter("first") = "second"
    /\ RoundAfter("second") = "third"
    /\ RoundAfter("third") = "fourth"
    /\ RoundAfter("fourth") = "fifth"
    /\ RoundAfter("fifth") = "sixth"
    /\ RoundAfter("sixth") = "export"
<1>1. DOMAIN Rounds = 1 .. 8
  BY DEF Rounds
<1>2. \A k \in 1 .. 7 : RoundAfter(Rounds[k]) = Rounds[k + 1]
  <2> SUFFICES ASSUME NEW k \in 1 .. 7
               PROVE  RoundAfter(Rounds[k]) = Rounds[k + 1]
    OBVIOUS
  <2>1. \A i \in 1 .. 8 : Rounds[i] = Rounds[k] => i = k
    BY DEF Rounds
  <2> DEFINE at == CHOOSE i \in DOMAIN Rounds : Rounds[i] = Rounds[k]
  <2>2. at = k
    BY <1>1, <2>1
  <2>3. RoundAfter(Rounds[k]) = Rounds[1 + at]
    BY DEF RoundAfter
  <2> HIDE DEF at
  <2> QED
    BY <2>2, <2>3
<1>3. QED
  BY <1>2 DEF Rounds

(* The parts of the quotient are four cells.                                 *)
LEMMA Parts4 ==
    /\ \A i \in 1 .. 4 : Part(i) \in Refs /\ Part(i) \in PartRefs /\ Part(i) # NoRef
    /\ PartRefs \subseteq Refs
    /\ \A i, j \in 1 .. 4 : Part(i) = Part(j) => i = j
    /\ NoRef \notin PartRefs
BY ProverAssumption, StoreAssumption DEF Part, PartRefs

-----------------------------------------------------------------------------
(* The inductive invariant: the heap and the queue.                          *)

PartIndices(i) == IF i < 4 THEN 0 .. n ELSE 0 .. n - 1

HeapOK ==
    /\ MapTypeOK
    /\ NoAliasing
    /\ DOMAIN cells = Refs
    /\ \A name \in Names : contains(name) =>
          get(name) \notin PartRefs /\ IsPolynomial(cells[get(name)])
    /\ \A i \in 1 .. 4 : DOMAIN cells[Part(i)].coefficients = PartIndices(i)

HeldOK == \A r \in Held : r \in Refs /\ IsPolynomial(cells[r])

ItemOK(item) ==
    \/ item.work = "ScalarMultiplication" /\ item.mul_scalars # NoRef
    \/ item.work \in {"Ifft", "Fft", "SmallFft"} /\ ItemNames(item) \subseteq Names

QueueOK ==
    /\ Len(work_items) \in Nat
    /\ DOMAIN work_items = 1 .. Len(work_items)
    /\ queue_pos \in 0 .. Len(work_items)
    /\ \A k \in 1 .. Len(work_items) : ItemOK(work_items[k])

\* Every name outside `written` keeps its entry and its polynomial.
KeptBut(written) ==
    \A name \in Names \ written :
        /\ polynomial_map'[name] = polynomial_map[name]
        /\ polynomial_map[name] # NoRef =>
              cells'[polynomial_map[name]] = cells[polynomial_map[name]]

PartsKept == \A i \in 1 .. 4 : cells'[Part(i)] = cells[Part(i)]

HeldKept == \A r \in Held : cells'[r] = cells[r] \/ IsPolynomial(cells'[r])

(* The polynomials the items and the rounds make.                            *)
LEMMA PolynomialsMade ==
    /\ \A buffer, evaluations, index : IsPolynomial(Interleaved(buffer, evaluations, index))
    /\ \A wire : IsPolynomial(FftOf(wire)) /\ IsPolynomial(IfftOf(wire))
    /\ IsPolynomial(lagrange_1_fft)
    /\ \A p, q : IsPolynomial(p) => IsPolynomial([p EXCEPT !.coefficients = q])
<1>1. ASSUME NEW buffer, NEW evaluations, NEW index
      PROVE  IsPolynomial(Interleaved(buffer, evaluations, index))
  BY DEF IsPolynomial, Interleaved
<1>2. ASSUME NEW wire
      PROVE  IsPolynomial(FftOf(wire)) /\ IsPolynomial(IfftOf(wire))
  BY DEF IsPolynomial, FftOf, IfftOf
<1>3. IsPolynomial(lagrange_1_fft)
  BY DEF IsPolynomial, lagrange_1_fft
<1>4. ASSUME NEW p, NEW q, IsPolynomial(p)
      PROVE  IsPolynomial([p EXCEPT !.coefficients = q])
  BY <1>4 DEF IsPolynomial
<1>5. QED
  BY <1>1, <1>2, <1>3, <1>4

(* Storing a polynomial.  `heap` is what the step has written in place.      *)
LEMMA PutKeepsHeap ==
    ASSUME NEW key \in Names, NEW polynomial, NEW heap, NEW held,
           HeapOK, IsPolynomial(polynomial), PartRefs \subseteq held,
           DOMAIN heap = Refs,
           \A name \in Names : contains(name) => IsPolynomial(heap[get(name)]),
           \A i \in 1 .. 4 : DOMAIN heap[Part(i)].coefficients = PartIndices(i),
           PutInto(heap, key, polynomial, held)
    PROVE  /\ HeapOK'
           /\ NamesKept(heap, key)
           /\ contains(key)'
           /\ Stored(key)' = polynomial
           /\ \A r \in held \cap Refs : cells'[r] = heap[r]
<1>1. /\ MapTypeOK' /\ NoAliasing'
      /\ DOMAIN cells' = Refs
      /\ NamesKept(heap, key)
      /\ polynomial_map'[key] \in Refs \ held
      /\ polynomial_map'[key] # NoRef
      /\ cells'[polynomial_map'[key]] = polynomial
      /\ \A r \in held \cap Refs : cells'[r] = heap[r]
  BY PutEffect DEF HeapOK
<1>2. \A name \in Names : contains(name)' =>
          get(name)' \notin PartRefs /\ IsPolynomial(cells'[get(name)'])
  <2> SUFFICES ASSUME NEW name \in Names, polynomial_map'[name] # NoRef
               PROVE  /\ polynomial_map'[name] \notin PartRefs
                      /\ IsPolynomial(cells'[polynomial_map'[name]])
    BY DEF contains, get
  <2>1. CASE name = key
    BY <1>1, <2>1
  <2>2. CASE name # key
    BY <1>1, <2>2 DEF NamesKept, HeapOK, contains, get
  <2> QED
    BY <2>1, <2>2
<1>3. \A i \in 1 .. 4 : DOMAIN cells'[Part(i)].coefficients = PartIndices(i)
  BY <1>1, Parts4
<1>4. HeapOK'
  BY <1>1, <1>2, <1>3 DEF HeapOK, PartIndices, Part, PartRefs, IsPolynomial, n
<1>5. QED
  BY <1>1, <1>4 DEF contains, Stored, get

(* Writing in place through the name of a polynomial.                        *)
LEMMA WriteKeepsHeap ==
    ASSUME NEW key \in Names, NEW polynomial,
           HeapOK, contains(key), IsPolynomial(polynomial)
    PROVE  LET heap == [cells EXCEPT ![get(key)] = polynomial] IN
           /\ DOMAIN heap = Refs
           /\ \A name \in Names : contains(name) => IsPolynomial(heap[get(name)])
           /\ \A name \in Names \ {key} : contains(name) =>
                 heap[get(name)] = cells[get(name)]
           /\ \A i \in 1 .. 4 : heap[Part(i)] = cells[Part(i)]
           /\ \A r \in Refs : heap[r] = cells[r] \/ IsPolynomial(heap[r])
           /\ heap[get(key)] = polynomial
<1>1. get(key) \in Refs /\ get(key) \notin PartRefs
  BY DEF HeapOK, MapTypeOK, contains, get
<1>2. \A name \in Names \ {key} : contains(name) => get(name) # get(key)
  BY DEF HeapOK, NoAliasing
<1>3. \A name \in Names : contains(name) => get(name) \in Refs
  BY DEF HeapOK, MapTypeOK, contains, get
<1> DEFINE heap == [cells EXCEPT ![get(key)] = polynomial]
<1>4. /\ DOMAIN heap = Refs
      /\ \A r \in Refs : heap[r] = IF r = get(key) THEN polynomial ELSE cells[r]
  BY DEF HeapOK
<1> HIDE DEF heap
<1>5. \A name \in Names : contains(name) => IsPolynomial(heap[get(name)])
  BY <1>2, <1>3, <1>4 DEF HeapOK
<1>6. \A i \in 1 .. 4 : heap[Part(i)] = cells[Part(i)]
  BY <1>1, <1>4, Parts4
<1>7. \A name \in Names \ {key} : contains(name) => heap[get(name)] = cells[get(name)]
  BY <1>2, <1>3, <1>4
<1>8. /\ \A r \in Refs : heap[r] = cells[r] \/ IsPolynomial(heap[r])
      /\ heap[get(key)] = polynomial
  BY <1>1, <1>4
<1>9. QED
  BY <1>4, <1>5, <1>6, <1>7, <1>8 DEF heap

-----------------------------------------------------------------------------
(* What the steps do to the heap.                                            *)

WrittenBy(item) == {Monomial(item.tag), FftForm(item.tag)}

(* The item in hand, and the names it has.                                   *)
LEMMA InHandOK ==
    ASSUME QueueOK, InHand
    PROVE  /\ queue_pos + 1 \in 1 .. Len(work_items)
           /\ ItemOK(item_in_hand)
           /\ item_in_hand.work # "ScalarMultiplication" =>
                 /\ Monomial(item_in_hand.tag) \in Names
                 /\ item_in_hand.work = "Ifft" => Lagrange(item_in_hand.tag) \in Names
                 /\ item_in_hand.work # "Ifft" => FftForm(item_in_hand.tag) \in Names
<1>1. queue_pos + 1 \in 1 .. Len(work_items)
  BY DEF QueueOK, InHand
<1>2. ItemOK(item_in_hand)
  BY <1>1 DEF QueueOK, item_in_hand
<1>3. QED
  BY <1>1, <1>2 DEF ItemOK, ItemNames

(* An inverse FFT stores the wire it interpolates.                           *)
LEMMA IfftEffect ==
    ASSUME HeapOK, HeldOK, QueueOK, InHand, NEW item, item = item_in_hand,
           item.work = "Ifft",
           DoIfft(item, Held)
    PROVE  /\ HeapOK'
           /\ KeptBut({Monomial(item.tag)})
           /\ contains(Monomial(item.tag))'
           /\ Stored(Monomial(item.tag))' = IfftOf(Stored(Lagrange(item.tag)))
           /\ \A r \in Held : cells'[r] = cells[r]
           /\ UNCHANGED transcriptVars
<1> DEFINE key == Monomial(item.tag)
           p == IfftOf(Stored(Lagrange(item.tag)))
<1>1. key \in Names
  BY InHandOK DEF ItemOK
<1>2. PutInto(cells, key, p, Held) /\ UNCHANGED transcriptVars
  BY DEF DoIfft, insert, put
<1>3. IsPolynomial(p)
  BY PolynomialsMade
<1> HIDE DEF p
<1>4. /\ DOMAIN cells = Refs
      /\ \A name \in Names : contains(name) => IsPolynomial(cells[get(name)])
      /\ \A i \in 1 .. 4 : DOMAIN cells[Part(i)].coefficients = PartIndices(i)
      /\ PartRefs \subseteq Held
  BY DEF HeapOK, Held
<1>5. PICK k : k = key
  OBVIOUS
<1>6. /\ HeapOK'
      /\ NamesKept(cells, k)
      /\ contains(k)'
      /\ Stored(k)' = p
      /\ \A r \in Held \cap Refs : cells'[r] = cells[r]
  <2> HIDE DEF key
  <2> QED
    BY <1>1, <1>2, <1>3, <1>4, <1>5, PutKeepsHeap
<1>7. KeptBut({key})
  BY <1>5, <1>6 DEF KeptBut, NamesKept
<1>8. \A r \in Held : cells'[r] = cells[r]
  BY <1>6 DEF HeldOK
<1>9. contains(key)' /\ Stored(key)' = p
  BY <1>5, <1>6
<1>10. QED
  BY <1>2, <1>6, <1>7, <1>8, <1>9 DEF p

(* An FFT stores its result, and leaves the wire.                            *)
LEMMA FftEffect ==
    ASSUME HeapOK, HeldOK, QueueOK, InHand, NEW item, item = item_in_hand,
           item.work = "Fft",
           DoFft(item, Held)
    PROVE  /\ HeapOK'
           /\ KeptBut({FftForm(item.tag)})
           /\ \A r \in Held : cells'[r] = cells[r]
           /\ UNCHANGED transcriptVars
<1> DEFINE key == FftForm(item.tag)
           p == FftOf(Stored(Monomial(item.tag)))
<1>1. key \in Names
  BY InHandOK DEF ItemOK
<1>2. PutInto(cells, key, p, Held) /\ UNCHANGED transcriptVars
  BY DEF DoFft, insert, put
<1>3. IsPolynomial(p)
  BY PolynomialsMade
<1> HIDE DEF p
<1>4. /\ DOMAIN cells = Refs
      /\ \A name \in Names : contains(name) => IsPolynomial(cells[get(name)])
      /\ \A i \in 1 .. 4 : DOMAIN cells[Part(i)].coefficients = PartIndices(i)
      /\ PartRefs \subseteq Held
  BY DEF HeapOK, Held
<1>5. PICK k : k = key
  OBVIOUS
<1>6. /\ HeapOK'
      /\ NamesKept(cells, k)
      /\ \A r \in Held \cap Refs : cells'[r] = cells[r]
  <2> HIDE DEF key
  <2> QED
    BY <1>1, <1>2, <1>3, <1>4, <1>5, PutKeepsHeap
<1>7. KeptBut({key})
  BY <1>5, <1>6 DEF KeptBut, NamesKept
<1>8. \A r \in Held : cells'[r] = cells[r]
  BY <1>6 DEF HeldOK
<1>9. QED
  BY <1>2, <1>6, <1>7, <1>8

(* The transform of the stored wire in place.                                *)
LEMMA ShiftEffect ==
    ASSUME HeapOK, NEW item, Monomial(item.tag) \in Names, contains(Monomial(item.tag))
    PROVE  /\ DOMAIN ShiftedHeap(item) = Refs
           /\ \A name \in Names : contains(name) => IsPolynomial(ShiftedHeap(item)[get(name)])
           /\ \A name \in Names \ {Monomial(item.tag)} : contains(name) =>
                 ShiftedHeap(item)[get(name)] = cells[get(name)]
           /\ \A i \in 1 .. 4 : ShiftedHeap(item)[Part(i)] = cells[Part(i)]
           /\ \A r \in Refs : ShiftedHeap(item)[r] = cells[r] \/ IsPolynomial(ShiftedHeap(item)[r])
<1> DEFINE p == [cells[get(Monomial(item.tag))] EXCEPT !.coefficients =
                    coset_fft_with_generator_shift(@, item.constant)]
<1>1. PICK key : key = Monomial(item.tag)
  OBVIOUS
<1>2. get(key) \in Refs
  BY <1>1 DEF HeapOK, MapTypeOK, contains, get
<1>3. ShiftedHeap(item) = [cells EXCEPT ![get(key)] = p]
  BY <1>1, <1>2 DEF ShiftedHeap, HeapOK
<1>4. IsPolynomial(p)
  BY <1>1, PolynomialsMade DEF HeapOK
<1> HIDE DEF p
<1>5. key \in Names /\ contains(key)
  BY <1>1
<1>6. LET heap == [cells EXCEPT ![get(key)] = p] IN
           /\ DOMAIN heap = Refs
           /\ \A name \in Names : contains(name) => IsPolynomial(heap[get(name)])
           /\ \A name \in Names \ {key} : contains(name) =>
                 heap[get(name)] = cells[get(name)]
           /\ \A i \in 1 .. 4 : heap[Part(i)] = cells[Part(i)]
           /\ \A r \in Refs : heap[r] = cells[r] \/ IsPolynomial(heap[r])
  BY <1>4, <1>5, WriteKeepsHeap
<1>7. QED
  BY <1>1, <1>3, <1>6

(* A coset's FFT transforms the wire, and stores or completes the form.      *)
LEMMA SmallFftEffect ==
    ASSUME HeapOK, HeldOK, QueueOK, InHand, NEW item, item = item_in_hand,
           item.work = "SmallFft", PanicBefore(item) = "no",
           ~PanicAfterShift(item), DoSmallFft(item, Held)
    PROVE  /\ HeapOK'
           /\ KeptBut(WrittenBy(item))
           /\ PartsKept
           /\ HeldKept
           /\ UNCHANGED transcriptVars
<1>1. PICK heap : heap = ShiftedHeap(item)
  OBVIOUS
<1>2. PICK fft : fft = FftForm(item.tag)
  OBVIOUS
<1>3. /\ fft \in Names
      /\ Monomial(item.tag) \in Names
  BY <1>2, InHandOK
<1>4. contains(Monomial(item.tag))
  BY DEF PanicBefore, Needs
<1>5. /\ DOMAIN heap = Refs
      /\ \A name \in Names : contains(name) => IsPolynomial(heap[get(name)])
      /\ \A name \in Names \ {Monomial(item.tag)} : contains(name) =>
                 heap[get(name)] = cells[get(name)]
      /\ \A i \in 1 .. 4 : heap[Part(i)] = cells[Part(i)]
      /\ \A r \in Refs : heap[r] = cells[r] \/ IsPolynomial(heap[r])
  BY <1>1, <1>3, <1>4, ShiftEffect
<1>6. UNCHANGED transcriptVars
  BY DEF DoSmallFft
<1>7. \A i \in 1 .. 4 : Part(i) \in Held \cap Refs
  BY Parts4 DEF Held
<1>8. \A i \in 1 .. 4 : DOMAIN heap[Part(i)].coefficients = PartIndices(i)
  BY <1>5 DEF HeapOK
<1>9. CASE item.index = 0
  <2>1. PICK p : p = Interleaved(new_polynomial(4 * n + 4),
                         heap[get(Monomial(item.tag))].coefficients, 0)
    OBVIOUS
  <2>2. PutInto(heap, fft, p, Held)
    BY <1>1, <1>2, <1>9, <2>1 DEF DoSmallFft
  <2>3. IsPolynomial(p)
    BY <2>1, PolynomialsMade
  <2>4. PartRefs \subseteq Held
    BY DEF Held
  <2>5. /\ HeapOK'
        /\ NamesKept(heap, fft)
        /\ \A r \in Held \cap Refs : cells'[r] = heap[r]
    BY <1>3, <1>5, <1>8, <2>2, <2>3, <2>4, PutKeepsHeap
  <2>6. KeptBut(WrittenBy(item))
    BY <1>2, <1>5, <2>5 DEF KeptBut, NamesKept, WrittenBy, contains, get
  <2>7. PartsKept
    BY <1>5, <1>7, <2>5 DEF PartsKept
  <2>8. HeldKept
    BY <1>5, <2>5 DEF HeldKept, HeldOK
  <2> QED
    BY <1>6, <2>5, <2>6, <2>7, <2>8
<1>10. CASE item.index # 0
  <2>1. PICK p : p = Interleaved(heap[get(fft)],
                         heap[get(Monomial(item.tag))].coefficients, item.index)
    OBVIOUS
  <2>2. contains(fft)
    BY <1>2, <1>10 DEF PanicAfterShift
  <2>3. get(fft) \in Refs /\ get(fft) \notin PartRefs
    BY <1>3, <2>2 DEF HeapOK, MapTypeOK, contains, get
  <2>4. /\ cells' = [heap EXCEPT ![get(fft)] = p]
        /\ UNCHANGED polynomial_map
    BY <1>1, <1>2, <1>5, <1>10, <2>1, <2>3 DEF DoSmallFft
  <2>5. IsPolynomial(p)
    BY <2>1, PolynomialsMade
  <2>6. /\ DOMAIN cells' = Refs
        /\ \A r \in Refs : cells'[r] = IF r = get(fft) THEN p ELSE heap[r]
    BY <1>5, <2>4
  <2>7. \A name \in Names : contains(name) => get(name) \in Refs
    BY DEF HeapOK, MapTypeOK, contains, get
  <2>8. \A name \in Names \ {fft} : contains(name) => get(name) # get(fft)
    BY <1>3 DEF HeapOK, NoAliasing
  <2>9. KeptBut(WrittenBy(item))
    <3> SUFFICES ASSUME NEW name \in Names \ {fft, Monomial(item.tag)}, contains(name)
                 PROVE  cells'[get(name)] = cells[get(name)]
      BY <1>2, <2>4 DEF KeptBut, WrittenBy, contains, get
    <3> QED
      BY <1>5, <2>6, <2>7, <2>8
  <2>10. PartsKept
    BY <1>5, <1>7, <2>3, <2>6, Parts4 DEF PartsKept
  <2>11. HeldKept
    BY <1>5, <2>5, <2>6 DEF HeldKept, HeldOK
  <2>12. \A name \in Names : contains(name) => IsPolynomial(cells'[get(name)])
    BY <1>5, <2>5, <2>6, <2>7
  <2>13. \A i \in 1 .. 4 : cells'[Part(i)].coefficients = cells[Part(i)].coefficients
    BY <2>10 DEF PartsKept
  <2>14. HeapOK'
    BY <2>4, <2>6, <2>12, <2>13 DEF HeapOK, MapTypeOK, NoAliasing, contains, get,
       PartIndices, Part, PartRefs, IsPolynomial, n
  <2> QED
    BY <1>6, <2>9, <2>10, <2>11, <2>14
<1>11. QED
  BY <1>9, <1>10

(* What an item is sure to keep, whatever it does.                           *)
LEMMA ItemEffect ==
    ASSUME HeapOK, HeldOK, QueueOK, NEW item, item = item_in_hand, ProcessItem(Held)
    PROVE  /\ HeapOK'
           /\ item.work = "ScalarMultiplication" => UNCHANGED storeVars
           /\ KeptBut(WrittenBy(item))
           /\ PartsKept
           /\ HeldKept
           /\ item.work # "ScalarMultiplication" => UNCHANGED transcriptVars
<1>1. /\ InHand
      /\ PanicBefore(item) = "no" /\ ~PanicAfterShift(item)
  BY DEF ProcessItem
<1>2. ItemOK(item)
  BY <1>1, InHandOK
<1>3. \A i \in 1 .. 4 : Part(i) \in Held
  BY Parts4 DEF Held
<1>4. CASE item.work = "ScalarMultiplication"
  <2>1. UNCHANGED storeVars
    BY <1>4 DEF ProcessItem, DoScalarMultiplication
  <2>2. HeapOK'
    BY <2>1 DEF HeapOK, MapTypeOK, NoAliasing, contains, get,
       PartIndices, Part, PartRefs, IsPolynomial, n, storeVars
  <2>3. KeptBut(WrittenBy(item)) /\ PartsKept /\ HeldKept
    BY <2>1 DEF KeptBut, PartsKept, HeldKept, storeVars
  <2> QED
    BY <1>4, <2>1, <2>2, <2>3
<1>5. CASE item.work = "Ifft"
  <2>1. DoIfft(item, Held)
    BY <1>5 DEF ProcessItem
  <2>2. /\ HeapOK'
        /\ KeptBut({Monomial(item.tag)})
        /\ \A r \in Held : cells'[r] = cells[r]
        /\ UNCHANGED transcriptVars
    BY <1>1, <1>5, <2>1, IfftEffect
  <2>3. KeptBut(WrittenBy(item)) /\ PartsKept /\ HeldKept
    BY <1>3, <2>2 DEF KeptBut, PartsKept, HeldKept, WrittenBy
  <2> QED
    BY <1>5, <2>2, <2>3
<1>6. CASE item.work = "Fft"
  <2>1. DoFft(item, Held)
    BY <1>6 DEF ProcessItem
  <2>2. /\ HeapOK'
        /\ KeptBut({FftForm(item.tag)})
        /\ \A r \in Held : cells'[r] = cells[r]
        /\ UNCHANGED transcriptVars
    BY <1>1, <1>6, <2>1, FftEffect
  <2>3. KeptBut(WrittenBy(item)) /\ PartsKept /\ HeldKept
    BY <1>3, <2>2 DEF KeptBut, PartsKept, HeldKept, WrittenBy
  <2> QED
    BY <1>6, <2>2, <2>3
<1>7. CASE item.work = "SmallFft"
  <2>1. DoSmallFft(item, Held)
    BY <1>7 DEF ProcessItem
  <2>2. /\ HeapOK'
        /\ KeptBut(WrittenBy(item))
        /\ PartsKept
        /\ HeldKept
        /\ UNCHANGED transcriptVars
    BY <1>1, <1>7, <2>1, SmallFftEffect
  <2> QED
    BY <1>7, <2>2
<1>8. QED
  BY <1>2, <1>4, <1>5, <1>6, <1>7 DEF ItemOK

(* An item that panics may have transformed its wire before.                 *)
LEMMA PanicEffect ==
    ASSUME HeapOK, HeldOK, QueueOK, NEW item, item = item_in_hand, PanicOnItem
    PROVE  /\ HeapOK'
           /\ KeptBut(WrittenBy(item))
           /\ PartsKept
           /\ HeldKept
<1>1. InHand /\ UNCHANGED polynomial_map
  BY DEF PanicOnItem
<1>2. \A i \in 1 .. 4 : Part(i) \in Refs
  BY Parts4
<1>3. CASE UNCHANGED cells
  <2>1. HeapOK'
    BY <1>1, <1>3 DEF HeapOK, MapTypeOK, NoAliasing, contains, get,
       PartIndices, Part, PartRefs, IsPolynomial, n
  <2> QED
    BY <1>1, <1>3, <2>1 DEF KeptBut, PartsKept, HeldKept
<1>4. CASE PanicBefore(item) = "no" /\ PanicAfterShift(item) /\ cells' = ShiftedHeap(item)
  <2>1. item.work = "SmallFft"
    BY <1>4 DEF PanicAfterShift
  <2>2. Monomial(item.tag) \in Names
    BY <1>1, <2>1, InHandOK
  <2>3. contains(Monomial(item.tag))
    BY <1>4, <2>1 DEF PanicBefore, Needs
  <2>4. /\ DOMAIN cells' = Refs
        /\ \A name \in Names : contains(name) => IsPolynomial(cells'[get(name)])
        /\ \A name \in Names \ {Monomial(item.tag)} : contains(name) =>
              cells'[get(name)] = cells[get(name)]
        /\ \A i \in 1 .. 4 : cells'[Part(i)] = cells[Part(i)]
        /\ \A r \in Refs : cells'[r] = cells[r] \/ IsPolynomial(cells'[r])
    BY <1>4, <2>2, <2>3, ShiftEffect
  <2>5. KeptBut(WrittenBy(item)) /\ PartsKept /\ HeldKept
    BY <1>1, <2>4 DEF KeptBut, PartsKept, HeldKept, HeldOK, WrittenBy, contains, get
  <2>6. \A i \in 1 .. 4 : cells'[Part(i)].coefficients = cells[Part(i)].coefficients
    BY <2>4
  <2>7. HeapOK'
    BY <1>1, <2>4, <2>6 DEF HeapOK, MapTypeOK, NoAliasing, contains, get,
       PartIndices, Part, PartRefs, IsPolynomial, n
  <2> QED
    BY <2>5, <2>7
<1>5. QED
  BY <1>3, <1>4 DEF PanicOnItem

(* Dropping the queue's references keeps every name and the parts.           *)
LEMMA DropEffect ==
    ASSUME HeapOK, UNCHANGED polynomial_map,
           cells' = Reclaim(cells, polynomial_map, PartRefs)
    PROVE  /\ HeapOK'
           /\ KeptBut({})
           /\ PartsKept
<1>1. MapTypeOK
  BY DEF HeapOK
<1>2. /\ DOMAIN cells' = Refs
      /\ \A name \in Names : polynomial_map[name] # NoRef =>
            cells'[polynomial_map[name]] = cells[polynomial_map[name]]
      /\ \A r \in PartRefs \cap Refs : cells'[r] = cells[r]
  BY <1>1, ReclaimEffect
<1>3. PartsKept
  BY <1>2, Parts4 DEF PartsKept
<1>4. KeptBut({})
  BY <1>2 DEF KeptBut
<1>5. \A i \in 1 .. 4 : cells'[Part(i)].coefficients = cells[Part(i)].coefficients
  BY <1>3 DEF PartsKept
<1>6. HeapOK'
  BY <1>2, <1>5 DEF HeapOK, MapTypeOK, NoAliasing, contains, get,
       PartIndices, Part, PartRefs, IsPolynomial, n
<1>7. QED
  BY <1>3, <1>4, <1>6

(* Storing a wire's evaluations.                                             *)
LEMMA StoreEffect ==
    ASSUME HeapOK, HeldOK, NEW i \in WireIndices, StoreWitness(i)
    PROVE  /\ HeapOK'
           /\ KeptBut({Lagrange(WireTags[i])})
           /\ PartsKept
           /\ HeldKept
           /\ contains(Lagrange(WireTags[i]))'
           /\ Stored(Lagrange(WireTags[i]))' = witness[i]
<1>1. PICK key : key = Lagrange(WireTags[i])
  OBVIOUS
<1>2. key \in Names /\ IsPolynomial(witness[i])
  BY <1>1, KeyAssumption
<1>3. PutInto(cells, key, witness[i], Held)
  BY <1>1 DEF StoreWitness, put
<1>4. /\ DOMAIN cells = Refs
      /\ \A name \in Names : contains(name) => IsPolynomial(cells[get(name)])
      /\ \A j \in 1 .. 4 : DOMAIN cells[Part(j)].coefficients = PartIndices(j)
      /\ PartRefs \subseteq Held
  BY DEF HeapOK, Held
<1>5. /\ HeapOK'
      /\ NamesKept(cells, key)
      /\ contains(key)'
      /\ Stored(key)' = witness[i]
      /\ \A r \in Held \cap Refs : cells'[r] = cells[r]
  BY <1>2, <1>3, <1>4, PutKeepsHeap
<1>6. KeptBut({key})
  BY <1>5 DEF KeptBut, NamesKept
<1>7. PartsKept /\ HeldKept
  BY <1>5, Parts4 DEF PartsKept, HeldKept, HeldOK, Held
<1>8. contains(Lagrange(WireTags[i]))' /\ Stored(Lagrange(WireTags[i]))' = witness[i]
  BY <1>1, <1>5 DEF contains, Stored, get
<1>9. QED
  BY <1>1, <1>5, <1>6, <1>7, <1>8

(* The preamble blinds the wires it reaches, each with its own draws, and    *)
(* writes nothing else.                                                      *)
LEMMA PreambleEffect ==
    ASSUME HeapOK, HeldOK, NEW draws \in WireDraws, execute_preamble_round(draws)
    PROVE  /\ HeapOK'
           /\ KeptBut({Lagrange(WireTags[i]) : i \in WireIndices})
           /\ PartsKept
           /\ HeldKept
           /\ UNCHANGED polynomial_map
           /\ \A i \in WireIndices : contains(Lagrange(WireTags[i])) =>
                 \/ Stored(Lagrange(WireTags[i]))' = Stored(Lagrange(WireTags[i]))
                 \/ Stored(Lagrange(WireTags[i]))' =
                        Blinded(Stored(Lagrange(WireTags[i])), draws[i])
           /\ round' # "err" => \A i \in WireIndices :
                 /\ contains(Lagrange(WireTags[i]))
                 /\ Stored(Lagrange(WireTags[i]))' =
                        Blinded(Stored(Lagrange(WireTags[i])), draws[i])
<1> DEFINE Lag(i) == Lagrange(WireTags[i])
           Reached == {i \in WireIndices : \A j \in 1 .. i : contains(Lag(j))}
           WireAt(r) == {i \in Reached : get(Lag(i)) = r}
           At(r) == CHOOSE i \in WireAt(r) : TRUE
<1>1. /\ UNCHANGED polynomial_map
      /\ cells' = [r \in Refs |->
              IF WireAt(r) = {} THEN cells[r] ELSE Blinded(cells[r], draws[At(r)])]
      /\ Reached # WireIndices => round' = "err"
  BY DEF execute_preamble_round
<1>2. \A i \in WireIndices : i \in 1 .. i /\ Lag(i) \in Names
  BY Wires, KeyAssumption
<1>3. \A i \in Reached : contains(Lag(i)) /\ get(Lag(i)) \in Refs /\ get(Lag(i)) \notin PartRefs
  BY <1>2 DEF HeapOK, MapTypeOK, contains, get
<1>4. \A i, j \in WireIndices : Lag(i) = Lag(j) => i = j
  BY Wires, NamesApart
<1>5. \A i, j \in Reached : get(Lag(i)) = get(Lag(j)) => i = j
  BY <1>2, <1>3, <1>4 DEF HeapOK, NoAliasing
<1>6. \A r : WireAt(r) # {} => At(r) \in WireAt(r)
  OBVIOUS
<1>7. \A r \in Refs : WireAt(r) = {} => cells'[r] = cells[r]
  BY <1>1
<1>8. \A i \in Reached : cells'[get(Lag(i))] = Blinded(cells[get(Lag(i))], draws[i])
  <2> SUFFICES ASSUME NEW i \in Reached
               PROVE  cells'[get(Lag(i))] = Blinded(cells[get(Lag(i))], draws[i])
    OBVIOUS
  <2>1. i \in WireAt(get(Lag(i)))
    OBVIOUS
  <2>2. At(get(Lag(i))) = i
    BY <1>5, <1>6, <2>1
  <2> HIDE DEF At, WireAt, Reached
  <2> QED
    BY <1>1, <1>3, <2>1, <2>2
<1>9. \A r \in Refs : cells'[r] = cells[r] \/ \E i \in Reached : cells'[r] = Blinded(cells[r], draws[i])
  BY <1>7, <1>8
<1>10. \A p, d : IsPolynomial(p) => IsPolynomial(Blinded(p, d))
  BY DEF IsPolynomial, Blinded
<1>11. DOMAIN cells' = Refs
  BY <1>1
<1> HIDE DEF At
<1>12. \A i \in 1 .. 4 : cells'[Part(i)] = cells[Part(i)]
  BY <1>3, <1>7, Parts4
<1>13. KeptBut({Lag(i) : i \in WireIndices})
  <2> SUFFICES ASSUME NEW name \in Names, \A i \in WireIndices : name # Lag(i), contains(name)
               PROVE  cells'[get(name)] = cells[get(name)]
    BY <1>1 DEF KeptBut, contains, get
  <2>1. get(name) \in Refs
    BY DEF HeapOK, MapTypeOK, contains, get
  <2>2. \A i \in Reached : get(Lag(i)) # get(name)
    BY <1>2 DEF HeapOK, NoAliasing
  <2> QED
    BY <1>7, <2>1, <2>2
<1>14. HeldKept
  BY <1>9, <1>10 DEF HeldKept, HeldOK
<1>15. \A name \in Names : contains(name) => IsPolynomial(cells'[get(name)])
  <2> SUFFICES ASSUME NEW name \in Names, contains(name)
               PROVE  IsPolynomial(cells'[get(name)])
    OBVIOUS
  <2>1. get(name) \in Refs /\ IsPolynomial(cells[get(name)])
    BY DEF HeapOK, MapTypeOK, contains, get
  <2> QED
    BY <1>9, <1>10, <2>1
<1>16. \A i \in 1 .. 4 : cells'[Part(i)].coefficients = cells[Part(i)].coefficients
  BY <1>12
<1>17. HeapOK'
  BY <1>1, <1>11, <1>15, <1>16 DEF HeapOK, MapTypeOK, NoAliasing, contains, get,
     PartIndices, Part, PartRefs, IsPolynomial, n
<1>18. \A i \in WireIndices : get(Lag(i))' = get(Lag(i))
  BY <1>1 DEF get
<1>19. \A i \in WireIndices \ Reached : contains(Lag(i)) =>
          cells'[get(Lag(i))] = cells[get(Lag(i))]
  <2> SUFFICES ASSUME NEW i \in WireIndices, i \notin Reached, contains(Lag(i))
               PROVE  cells'[get(Lag(i))] = cells[get(Lag(i))]
    OBVIOUS
  <2>1. get(Lag(i)) \in Refs
    BY <1>2 DEF HeapOK, MapTypeOK, contains, get
  <2>2. \A j \in Reached : get(Lag(j)) # get(Lag(i))
    BY <1>2, <1>4 DEF HeapOK, NoAliasing
  <2> QED
    BY <1>7, <2>1, <2>2
<1>20. \A i \in WireIndices : contains(Lag(i)) =>
          \/ cells'[get(Lag(i))] = cells[get(Lag(i))]
          \/ cells'[get(Lag(i))] = Blinded(cells[get(Lag(i))], draws[i])
  BY <1>8, <1>19
<1>21. round' # "err" => \A i \in WireIndices :
          contains(Lag(i)) /\ cells'[get(Lag(i))] = Blinded(cells[get(Lag(i))], draws[i])
  BY <1>1, <1>3, <1>8
<1>22. PartsKept
  BY <1>12 DEF PartsKept
<1> HIDE DEF Reached, WireAt
<1>23. \A i \in WireIndices : contains(Lag(i)) =>
                 \/ Stored(Lag(i))' = Stored(Lag(i))
                 \/ Stored(Lag(i))' = Blinded(Stored(Lag(i)), draws[i])
  BY <1>1, <1>20 DEF Stored, get, contains
<1>24. round' # "err" => \A i \in WireIndices :
                 /\ contains(Lag(i))
                 /\ Stored(Lag(i))' = Blinded(Stored(Lag(i)), draws[i])
  BY <1>1, <1>21 DEF Stored, get
<1>25. QED
  BY <1>1, <1>13, <1>14, <1>17, <1>22, <1>23, <1>24

(* Whatever is filled in, transformed, moved and blinded, the parts keep the *)
(* number of their coefficients.                                             *)
LEMMA QuotientShapes ==
    ASSUME NEW numerator, NEW draws, NEW t,
           t = WithBlinding(LastMoved(SlicesTransformed(Filled(Parts, numerator))), draws)
    PROVE  \A i \in 1 .. 4 : DOMAIN t[i] = DOMAIN cells[Part(i)].coefficients
<1>1. PICK f : f = Filled(Parts, numerator)
  OBVIOUS
<1>2. \A i \in 1 .. 4 : DOMAIN f[i] = DOMAIN cells[Part(i)].coefficients
  BY <1>1 DEF Filled, Parts
<1>3. PICK s : s = SlicesTransformed(f)
  OBVIOUS
<1>4. DOMAIN s = 1 .. 4 /\ \A i \in 1 .. 4 : DOMAIN s[i] = DOMAIN f[i]
  BY <1>3 DEF SlicesTransformed
<1>5. PICK l : l = LastMoved(s)
  OBVIOUS
<1>6. \A i \in 1 .. 4 : DOMAIN l[i] = DOMAIN s[i]
  BY <1>4, <1>5 DEF LastMoved
<1>7. \A i \in 1 .. 4 : DOMAIN t[i] = DOMAIN l[i]
  BY <1>1, <1>3, <1>5 DEF WithBlinding
<1>8. QED
  BY <1>2, <1>4, <1>6, <1>7

(* The fourth round stores one polynomial and writes the parts.              *)
LEMMA QuotientEffect ==
    ASSUME HeapOK, HeldOK, NEW numerator, NEW draws,
           execute_fourth_round(numerator, draws)
    PROVE  /\ HeapOK'
           /\ KeptBut({FftForm("lagrange_1")})
           /\ HeldKept
           /\ \A i \in 1 .. 4 : cells'[Part(i)].coefficients =
                 WithBlinding(LastMoved(SlicesTransformed(Filled(Parts, numerator))),
                              draws)[i]
<1>1. PICK t : t = WithBlinding(LastMoved(SlicesTransformed(Filled(Parts, numerator))), draws)
  OBVIOUS
<1>2. \A i \in 1 .. 4 : DOMAIN t[i] = PartIndices(i)
  BY <1>1, QuotientShapes DEF HeapOK
<1> DEFINE At(r) == CHOOSE i \in 1 .. 4 : Part(i) = r
<1>3. PICK heap : heap = [r \in Refs |->
                   IF r \in PartRefs
                   THEN [cells[r] EXCEPT !.coefficients = t[At(r)]]
                   ELSE cells[r]]
  OBVIOUS
<1>4. PICK key : key = FftForm("lagrange_1")
  OBVIOUS
<1>5. PutInto(heap, key, lagrange_1_fft, Held)
  BY <1>1, <1>3, <1>4 DEF execute_fourth_round
<1>6. \A i \in 1 .. 4 : At(Part(i)) = i
  BY Parts4
<1>7. \A r \in PartRefs : \E i \in 1 .. 4 : r = Part(i)
  BY DEF PartRefs
<1>8. \A r \in PartRefs : IsPolynomial(cells[r])
  BY DEF HeldOK, Held
<1> HIDE DEF At
<1>9. \A i \in 1 .. 4 : heap[Part(i)] = [cells[Part(i)] EXCEPT !.coefficients = t[i]]
  BY <1>3, <1>6, Parts4
<1>10. \A i \in 1 .. 4 : heap[Part(i)].coefficients = t[i]
  <2> SUFFICES ASSUME NEW i \in 1 .. 4
               PROVE  heap[Part(i)].coefficients = t[i]
    OBVIOUS
  <2>1. IsPolynomial(cells[Part(i)])
    BY <1>8, Parts4
  <2> QED
    BY <1>9, <2>1 DEF IsPolynomial
<1>11. \A r \in PartRefs : IsPolynomial(heap[r])
  <2> SUFFICES ASSUME NEW r \in PartRefs
               PROVE  IsPolynomial(heap[r])
    OBVIOUS
  <2>1. PICK i \in 1 .. 4 : r = Part(i)
    BY <1>7
  <2>2. IsPolynomial(cells[Part(i)])
    BY <1>8, <2>1
  <2>3. IsPolynomial([cells[Part(i)] EXCEPT !.coefficients = t[i]])
    BY <2>2, PolynomialsMade
  <2> QED
    BY <1>9, <2>1, <2>3
<1>12. \A r \in Refs \ PartRefs : heap[r] = cells[r]
  BY <1>3
<1>13. DOMAIN heap = Refs
  BY <1>3
<1>14. \A name \in Names : contains(name) =>
          get(name) \in Refs \ PartRefs /\ heap[get(name)] = cells[get(name)]
  BY <1>12 DEF HeapOK, MapTypeOK, contains, get
<1>15. /\ \A name \in Names : contains(name) => IsPolynomial(heap[get(name)])
       /\ \A i \in 1 .. 4 : DOMAIN heap[Part(i)].coefficients = PartIndices(i)
       /\ PartRefs \subseteq Held
  BY <1>2, <1>10, <1>14 DEF HeapOK, Held
<1>16. key \in Names /\ IsPolynomial(lagrange_1_fft)
  BY <1>4, KeyAssumption, PolynomialsMade
<1>17. /\ HeapOK'
       /\ NamesKept(heap, key)
       /\ \A r \in Held \cap Refs : cells'[r] = heap[r]
  BY <1>5, <1>13, <1>15, <1>16, PutKeepsHeap
<1>18. KeptBut({key})
  BY <1>14, <1>17 DEF KeptBut, NamesKept, contains, get
<1>19. HeldKept
  BY <1>11, <1>12, <1>17 DEF HeldKept, HeldOK
<1>20. \A i \in 1 .. 4 : cells'[Part(i)].coefficients = t[i]
  BY <1>10, <1>17, Parts4 DEF Held
<1>21. QED
  BY <1>1, <1>4, <1>17, <1>18, <1>19, <1>20

-----------------------------------------------------------------------------
(* The inductive invariant: what a round has done and queued.                *)

ProcessingRounds == {"preamble", "first", "second", "third", "fourth", "sixth"}
LaterRounds == {"first", "second", "third", "fourth", "fifth", "sixth", "export"}

ControlOK ==
    /\ Idle => work_items = <<>>
    /\ processing => begun /\ panic = "no" /\ round \in ProcessingRounds
    /\ round \in {"new", "preamble", "ok", "err"} \cup LaterRounds
    /\ widgets \in WidgetRounds
    /\ current_round \in 0 .. num_rounds

\* The commitment of wire or part i under `tag`, as queued.
Commits(item, tag, i) ==
    /\ item.work = "ScalarMultiplication"
    /\ item.tag = tag
    /\ item.constant = domain_size_flag(i)

RoundItems ==
    /\ round = "preamble" /\ processing =>
          work_items = [i \in WireIndices |-> Ifft(WireTags[i])]
    /\ round = "first" /\ processing =>
          /\ Len(work_items) >= program_width
          /\ \A i \in WireIndices : Commits(work_items[i], CommitTags[i], i)
          /\ \A k \in program_width + 1 .. Len(work_items) : WidgetItem(work_items[k])
    /\ round \in {"second", "third"} /\ processing =>
          \A k \in 1 .. Len(work_items) :
              WidgetItem(work_items[k]) \/ work_items[k].work = "Fft"
    /\ round = "fourth" /\ processing =>
          work_items = [i \in WireIndices |->
                           commit(Part(i), QuotientTags[i], domain_size_flag(i))]
    /\ round = "sixth" /\ processing => work_items = <<>>

\* The first challenge is derived once, so that a second call of
\* construct_proof goes no further than its preamble.
InitDone == \E r \in 1 .. current_round : round_manifests[r].challenge = "init"

HasCommitment == \E i \in WireIndices : has_element(CommitTags[i])
HasQuotient == \E i \in WireIndices : has_element(QuotientTags[i])

Begins ==
    /\ ~ InitDone => /\ elements = <<>>
                     /\ round \in {"new", "preamble"}
                     /\ round = "preamble" => ~ begun
    /\ round = "preamble" /\ begun => ~ HasCommitment
    /\ (round = "preamble" /\ begun) \/ round \in {"first", "second", "third"}
          \/ (round = "fourth" /\ Idle) => ~ HasQuotient

Evaluations(i) == Stored(Lagrange(WireTags[i])).coefficients
Row(k) == n - num_roots_cut_out_of_vanishing_polynomial + k

\* But for the rows that are blinded, a wire is what was stored.
WitnessKept ==
    \A i \in WireIndices : contains(Lagrange(WireTags[i])) =>
        /\ DOMAIN Evaluations(i) = 0 .. n - 1
        /\ \A k \in 0 .. n - 1 : k \notin Row(0) .. Row(2) =>
              Evaluations(i)[k] = witness[i].coefficients[k]

WiresBlinded ==
    \E draws \in WireDraws : \A i \in WireIndices :
        /\ contains(Lagrange(WireTags[i]))
        /\ \A k \in 0 .. 2 : Evaluations(i)[Row(k)] = draws[i][k]

BlindedInTime ==
    HasCommitment \/ round \in LaterRounds \/ (round = "preamble" /\ processing)
        => WiresBlinded

Interpolated(i) ==
    /\ contains(Monomial(WireTags[i]))
    /\ Stored(Monomial(WireTags[i])).coefficients = ifft(Evaluations(i))

InterpolatedInTime ==
    /\ round = "preamble" /\ processing =>
          \A i \in WireIndices : i <= queue_pos => Interpolated(i)
    /\ round = "first" /\ Idle => \A i \in WireIndices : Interpolated(i)
    /\ round = "first" /\ processing =>
          \A i \in WireIndices : queue_pos < i =>
              cells[work_items[i].mul_scalars].coefficients = ifft(Evaluations(i))

IInv ==
    /\ HeapOK /\ HeldOK /\ QueueOK /\ ControlOK /\ RoundItems /\ Begins
    /\ WitnessKept /\ BlindedInTime /\ InterpolatedInTime
    /\ PublicInputsAreTheWitness

-----------------------------------------------------------------------------
(* What a step of the whole program does to the heap.                        *)

LagrangesKept ==
    \A i \in WireIndices :
        /\ polynomial_map'[Lagrange(WireTags[i])] = polynomial_map[Lagrange(WireTags[i])]
        /\ contains(Lagrange(WireTags[i])) =>
              Stored(Lagrange(WireTags[i]))' = Stored(Lagrange(WireTags[i]))

Stores == \E i \in WireIndices : StoreWitness(i)
Blinds == \E draws \in WireDraws : execute_preamble_round(draws)
Divides == \E numerator \in Numerators, draws \in QuotientDraws :
               execute_fourth_round(numerator, draws)

(* Only storing and blinding a wire change what is stored under its name,    *)
(* only the fourth round changes the parts.                                  *)
LEMMA KeptLagranges ==
    ASSUME NEW written, KeptBut(written),
           \A i \in WireIndices : Lagrange(WireTags[i]) \notin written
    PROVE  LagrangesKept
<1>1. \A i \in WireIndices : Lagrange(WireTags[i]) \in Names \ written
  BY KeyAssumption
<1>2. QED
  BY <1>1 DEF KeptBut, LagrangesKept, contains, Stored, get

LEMMA UnchangedHeap ==
    ASSUME HeapOK, UNCHANGED storeVars
    PROVE  HeapOK' /\ LagrangesKept /\ PartsKept /\ HeldKept
BY DEF HeapOK, MapTypeOK, NoAliasing, contains, get, Stored, PartIndices, Part,
   PartRefs, IsPolynomial, n, storeVars, LagrangesKept, PartsKept, HeldKept

LEMMA NoItems == ItemRefs(<<>>) = {}
BY DEF ItemRefs

\* What every step keeps of the heap.
HeapStep ==
    /\ HeapOK'
    /\ ~ Stores /\ ~ Blinds => LagrangesKept
    /\ ~ Divides => PartsKept
    /\ \A r \in PartRefs : IsPolynomial(cells'[r])
    /\ work_items' = work_items => \A r \in Held : IsPolynomial(cells'[r])

LEMMA DropStep ==
    ASSUME HeapOK, HeldOK, UNCHANGED polynomial_map, work_items' = <<>>,
           cells' = Reclaim(cells, polynomial_map, PartRefs)
    PROVE  HeapStep
<1>1. HeapOK' /\ KeptBut({}) /\ PartsKept
  BY DropEffect
<1>2. LagrangesKept
  BY <1>1, KeptLagranges
<1>3. \A r \in PartRefs : IsPolynomial(cells'[r])
  BY <1>1 DEF PartsKept, PartRefs, HeldOK, Held
<1>4. work_items' = work_items => Held = PartRefs
  BY NoItems DEF Held
<1>5. QED
  BY <1>1, <1>2, <1>3, <1>4 DEF HeapStep

LEMMA QuietStep ==
    ASSUME HeapOK, HeldOK, UNCHANGED storeVars
    PROVE  HeapStep
BY UnchangedHeap DEF HeapStep, HeldOK, Held, storeVars

LEMMA KeepingStep ==
    ASSUME HeldOK, HeapOK', HeldKept, PartsKept,
           ~ Stores /\ ~ Blinds => LagrangesKept
    PROVE  HeapStep
BY DEF HeapStep, HeldOK, HeldKept, Held

LEMMA ItemNamesApart ==
    \A item : \A i \in WireIndices : Lagrange(WireTags[i]) \notin WrittenBy(item)
BY NamesApart DEF WrittenBy

LEMMA HeapNext ==
    ASSUME HeapOK, HeldOK, QueueOK, [Next]_vars
    PROVE  HeapStep
<1>1. CASE Stores
  <2>1. PICK i \in WireIndices : StoreWitness(i)
    BY <1>1 DEF Stores
  <2>2. HeapOK' /\ PartsKept /\ HeldKept
    BY <2>1, StoreEffect
  <2> QED
    BY <1>1, <2>2, KeepingStep
<1>2. CASE construct_proof
  BY <1>2, QuietStep DEF construct_proof
<1>3. CASE NewProver
  BY <1>3, DropStep DEF NewProver
<1>4. CASE BeginRound
  BY <1>4, DropStep DEF BeginRound, flush_queue
<1>5. CASE Blinds
  <2>1. PICK draws \in WireDraws : execute_preamble_round(draws)
    BY <1>5 DEF Blinds
  <2>2. HeapOK' /\ PartsKept /\ HeldKept
    BY <2>1, PreambleEffect
  <2> QED
    BY <1>5, <2>2, KeepingStep
<1>6. CASE execute_first_round
  BY <1>6, QuietStep DEF execute_first_round
<1>7. CASE execute_second_round
  BY <1>7, QuietStep DEF execute_second_round
<1>8. CASE execute_third_round
  BY <1>8, QuietStep DEF execute_third_round
<1>9. CASE Divides
  <2>1. PICK numerator \in Numerators, draws \in QuotientDraws :
               execute_fourth_round(numerator, draws)
    BY <1>9 DEF Divides
  <2>2. HeapOK' /\ KeptBut({FftForm("lagrange_1")}) /\ HeldKept
    BY <2>1, QuotientEffect
  <2>3. LagrangesKept
    BY <2>2, KeptLagranges, NamesApart
  <2> QED
    BY <1>9, <2>2, <2>3 DEF HeapStep, HeldOK, HeldKept, Held
<1>10. CASE execute_fifth_round
  BY <1>10, QuietStep DEF execute_fifth_round
<1>11. CASE execute_sixth_round
  BY <1>11, QuietStep DEF execute_sixth_round
<1>12. CASE export_proof
  BY <1>12, DropStep DEF export_proof, flush_queue
<1>13. CASE ProcessItem(Held)
  <2>1. PICK item : item = item_in_hand
    OBVIOUS
  <2>2. HeapOK' /\ KeptBut(WrittenBy(item)) /\ PartsKept /\ HeldKept
    BY <1>13, <2>1, ItemEffect
  <2>3. LagrangesKept
    BY <2>2, KeptLagranges, ItemNamesApart
  <2> QED
    BY <2>2, <2>3, KeepingStep
<1>14. CASE PanicOnItem
  <2>1. PICK item : item = item_in_hand
    OBVIOUS
  <2>2. HeapOK' /\ KeptBut(WrittenBy(item)) /\ PartsKept /\ HeldKept
    BY <1>14, <2>1, PanicEffect
  <2>3. LagrangesKept
    BY <2>2, KeptLagranges, ItemNamesApart
  <2> QED
    BY <2>2, <2>3, KeepingStep
<1>15. CASE FinishRound
  BY <1>15, DropStep DEF FinishRound, FinishQueue
<1>16. CASE PanicInRound
  BY <1>16, QuietStep DEF PanicInRound
<1>17. CASE UNCHANGED vars
  BY <1>17, QuietStep DEF vars
<1>18. QED
  BY <1>1, <1>2, <1>3, <1>4, <1>5, <1>6, <1>7, <1>8, <1>9, <1>10, <1>11, <1>12,
     <1>13, <1>14, <1>15, <1>16, <1>17 DEF Next, Process, Stopped, Stores, Blinds, Divides

-----------------------------------------------------------------------------
(* Where construct_proof is, and what is queued.                             *)

(* What the preamble does besides the heap.                                  *)
LEMMA PreambleControl ==
    ASSUME NEW draws \in WireDraws, execute_preamble_round(draws)
    PROVE  /\ In("preamble")
           /\ UNCHANGED <<polynomial_map, transcriptVars, widgets, provers>>
           /\ \/ /\ QueueAndProcess([i \in WireIndices |-> Ifft(WireTags[i])])
                 /\ UNCHANGED <<round, begun>>
              \/ /\ round' = "err" /\ begun' = FALSE
                 /\ UNCHANGED queueVars
BY DEF execute_preamble_round

LEMMA FiatShamirControl ==
    ASSUME NEW challenge, NEW elems, current_round \in 0 .. num_rounds,
           FiatShamirAsserts(challenge, elems), apply_fiat_shamir(challenge, elems)
    PROVE  /\ current_round' = current_round + 1
           /\ current_round + 1 \in 1 .. num_rounds
           /\ round_manifests[current_round + 1].challenge = challenge
           /\ elements' = elems
<1>1. current_round < num_rounds /\ num_rounds \in Nat
  BY RoundsAssumption DEF FiatShamirAsserts
<1>2. QED
  BY <1>1 DEF FiatShamirAsserts, apply_fiat_shamir, round_manifest

(* A round begins by deriving its challenge, if it has one.                  *)
LEMMA BeginControl ==
    ASSUME ControlOK, BeginRound
    PROVE  /\ current_round' \in 0 .. num_rounds
           /\ \/ round \notin DOMAIN Challenge /\ UNCHANGED transcriptVars
              \/ /\ round \in DOMAIN Challenge
                 /\ current_round' = current_round + 1
                 /\ round_manifests[current_round + 1].challenge = Challenge[round]
                 /\ elements' = ElementsToHash
<1>1. CASE round \in DOMAIN Challenge
  <2>1. FiatShamirAsserts(Challenge[round], ElementsToHash)
    BY <1>1 DEF BeginRound, BeginTrouble
  <2>2. apply_fiat_shamir(Challenge[round], ElementsToHash)
    BY <1>1 DEF BeginRound
  <2>3. current_round \in 0 .. num_rounds
    BY DEF ControlOK
  <2>4. PICK c, e : c = Challenge[round] /\ e = ElementsToHash
    OBVIOUS
  <2>5. /\ current_round' = current_round + 1
        /\ current_round + 1 \in 1 .. num_rounds
        /\ round_manifests[current_round + 1].challenge = c
        /\ elements' = e
    BY <2>1, <2>2, <2>3, <2>4, FiatShamirControl
  <2> QED
    BY <1>1, <2>4, <2>5
<1>2. CASE round \notin DOMAIN Challenge
  BY <1>2 DEF BeginRound, ControlOK, transcriptVars
<1>3. QED
  BY <1>1, <1>2

(* An item adds to the transcript what it commits to.                        *)
LEMMA ItemControl ==
    ASSUME QueueOK, ProcessItem(Held)
    PROVE  /\ UNCHANGED <<challenges, current_round, current_challenge>>
           /\ \/ UNCHANGED elements
              \/ /\ item_in_hand.work = "ScalarMultiplication"
                 /\ elements' = With(elements, item_in_hand.tag,
                       Serialize(G1Width,
                           pippenger_unsafe(cells[item_in_hand.mul_scalars].coefficients,
                                            msm_size(item_in_hand))))
<1>1. PICK item : item = item_in_hand
  OBVIOUS
<1>2. ItemOK(item)
  BY <1>1, InHandOK DEF ProcessItem
<1>3. CASE item.work = "ScalarMultiplication"
  BY <1>1, <1>3 DEF ProcessItem, DoScalarMultiplication, add_group_element, add_element
<1>4. CASE item.work = "SmallFft"
  BY <1>1, <1>4 DEF ProcessItem, DoSmallFft, transcriptVars
<1>5. CASE item.work = "Fft"
  BY <1>1, <1>5 DEF ProcessItem, DoFft, transcriptVars
<1>6. CASE item.work = "Ifft"
  BY <1>1, <1>6 DEF ProcessItem, DoIfft, transcriptVars
<1>7. QED
  BY <1>2, <1>3, <1>4, <1>5, <1>6 DEF ItemOK

LEMMA ControlNext ==
    ASSUME ControlOK, QueueOK, [Next]_vars
    PROVE  ControlOK'
<1>1. CASE Stores
  BY <1>1 DEF Stores, StoreWitness, ControlOK, Idle, transcriptVars, queueVars, proverVars, num_rounds
<1>2. CASE construct_proof
  BY <1>2 DEF construct_proof, ControlOK, Idle, transcriptVars, queueVars, num_rounds
<1>3. CASE NewProver
  <2>1. num_rounds \in Nat
    BY RoundsAssumption
  <2> QED
    BY <1>3, <2>1 DEF NewProver, ControlOK, Idle, num_rounds
<1>4. CASE BeginRound
  <2>1. current_round' \in 0 .. num_rounds
    BY <1>4, BeginControl
  <2> QED
    BY <1>4, <2>1 DEF BeginRound, flush_queue, ControlOK, Idle, num_rounds
<1>5. CASE Blinds
  BY <1>5, PreambleControl DEF Blinds, In, QueueAndProcess, ControlOK, ProcessingRounds,
     Idle, transcriptVars, queueVars, num_rounds
<1>6. CASE execute_first_round
  BY <1>6 DEF execute_first_round, In, QueueAndProcess, ControlOK, ProcessingRounds,
     Idle, proverVars, num_rounds
<1>7. CASE execute_second_round
  BY <1>7 DEF execute_second_round, In, QueueAndProcess, ControlOK, ProcessingRounds,
     Idle, proverVars, num_rounds
<1>8. CASE execute_third_round
  BY <1>8 DEF execute_third_round, In, QueueAndProcess, ControlOK, ProcessingRounds,
     Idle, proverVars, num_rounds
<1>9. CASE Divides
  BY <1>9 DEF Divides, execute_fourth_round, In, QueueAndProcess, ControlOK,
     ProcessingRounds, Idle, proverVars, transcriptVars, num_rounds
<1>10. CASE execute_fifth_round
  BY <1>10, RoundsInOrder DEF execute_fifth_round, In, ControlOK, LaterRounds, Idle,
     queueVars, num_rounds
<1>11. CASE execute_sixth_round
  BY <1>11 DEF execute_sixth_round, In, QueueAndProcess, ControlOK, ProcessingRounds,
     Idle, proverVars, transcriptVars, num_rounds
<1>12. CASE export_proof
  BY <1>12 DEF export_proof, flush_queue, ControlOK, Idle, transcriptVars, num_rounds
<1>13. CASE ProcessItem(Held) /\ UNCHANGED proverVars
  <2>1. UNCHANGED current_round
    BY <1>13, ItemControl
  <2> QED
    BY <1>13, <2>1 DEF ProcessItem, InHand, ControlOK, Idle, proverVars, num_rounds
<1>14. CASE PanicOnItem /\ UNCHANGED proverVars
  BY <1>14 DEF PanicOnItem, InHand, ControlOK, Idle, proverVars, transcriptVars, num_rounds
<1>15. CASE FinishRound
  <2>1. round \in ProcessingRounds
    BY <1>15 DEF FinishRound, FinishQueue, ControlOK
  <2>2. round' \in LaterRounds
    BY <1>15, <2>1, RoundsInOrder DEF FinishRound, ProcessingRounds, LaterRounds
  <2> QED
    BY <1>15, <2>2 DEF FinishRound, FinishQueue, ControlOK, Idle, transcriptVars, num_rounds
<1>16. CASE PanicInRound
  BY <1>16 DEF PanicInRound, ControlOK, Idle, proverVars, transcriptVars, num_rounds
<1>17. CASE UNCHANGED vars
  BY <1>17 DEF vars, ControlOK, Idle, proverVars, queueVars, transcriptVars, num_rounds
<1>18. QED
  BY <1>1, <1>2, <1>3, <1>4, <1>5, <1>6, <1>7, <1>8, <1>9, <1>10, <1>11, <1>12,
     <1>13, <1>14, <1>15, <1>16, <1>17 DEF Next, Process, Stopped, Stores, Blinds, Divides

-----------------------------------------------------------------------------
(* The queue a round hands over.                                             *)

LEMMA ListsOfItems ==
    ASSUME NEW m \in Nat, NEW f, f = [i \in 1 .. m |-> f[i]]
    PROVE  f \in Seq(ToSet(f)) /\ Len(f) = m
<1>1. DOMAIN f = 1 .. m
  OBVIOUS
<1>2. \A i \in 1 .. m : f[i] \in ToSet(f)
  BY <1>1 DEF ToSet
<1>3. f \in Seq(ToSet(f))
  BY <1>2
<1>4. QED
  BY <1>1, <1>3

LEMMA JoinedItems ==
    ASSUME NEW s, NEW t, s \in Seq(ToSet(s)), t \in Seq(ToSet(t))
    PROVE  /\ s \o t \in Seq(ToSet(s \o t))
           /\ Len(s) \in Nat /\ Len(t) \in Nat
           /\ Len(s \o t) = Len(s) + Len(t)
           /\ \A k \in 1 .. Len(s) : (s \o t)[k] = s[k]
           /\ \A k \in Len(s) + 1 .. Len(s) + Len(t) :
                 k - Len(s) \in 1 .. Len(t) /\ (s \o t)[k] = t[k - Len(s)]
<1>1. PICK U : U = ToSet(s) \cup ToSet(t)
  OBVIOUS
<1>2. s \in Seq(U) /\ t \in Seq(U)
  BY <1>1
<1>3. PICK u : u = s \o t
  OBVIOUS
<1>4. /\ u \in Seq(U)
      /\ Len(s) \in Nat /\ Len(t) \in Nat
      /\ Len(u) = Len(s) + Len(t)
      /\ \A k \in 1 .. Len(s) : u[k] = s[k]
      /\ \A k \in Len(s) + 1 .. Len(s) + Len(t) :
            k - Len(s) \in 1 .. Len(t) /\ u[k] = t[k - Len(s)]
  BY <1>2, <1>3
<1>5. DOMAIN u = 1 .. Len(u) /\ Len(u) \in Nat
  BY <1>4
<1>6. u \in Seq(ToSet(u))
  <2>1. \A k \in 1 .. Len(u) : u[k] \in ToSet(u)
    BY <1>5 DEF ToSet
  <2>2. u = [k \in 1 .. Len(u) |-> u[k]]
    BY <1>4
  <2> QED
    BY <1>5, <2>1, <2>2
<1>7. QED
  BY <1>3, <1>4, <1>6

LEMMA QueuedItems ==
    ASSUME work_items = <<>>, QueueOK, NEW items, items \in Seq(ToSet(items)),
           QueueAndProcess(items)
    PROVE  /\ work_items' = items
           /\ Len(items) \in Nat
           /\ DOMAIN items = 1 .. Len(items)
           /\ queue_pos = 0 /\ queue_pos' = 0
           /\ processing'
<1>1. work_items' = items
  BY DEF QueueAndProcess
<1>2. queue_pos = 0
  BY DEF QueueOK
<1>3. QED
  BY <1>1, <1>2 DEF QueueAndProcess

LEMMA ItemsOfWidgets ==
    ASSUME widgets \in WidgetRounds, NEW r \in 1 .. 3
    PROVE  /\ widgets[r].items \in Seq(ToSet(widgets[r].items))
           /\ \A k \in 1 .. Len(widgets[r].items) : WidgetItem(widgets[r].items[k])
           /\ DOMAIN widgets[r].elements \cap ProverElements = {}
<1>1. /\ widgets[r].items \in Seq(ToSet(widgets[r].items))
      /\ \A item \in ToSet(widgets[r].items) : WidgetItem(item)
      /\ DOMAIN widgets[r].elements \cap ProverElements = {}
  BY WidgetsAssumption
<1>2. QED
  BY <1>1 DEF ToSet

LEMMA WidgetItemsOK ==
    ASSUME NEW item, WidgetItem(item)
    PROVE  /\ ItemOK(item)
           /\ item.mul_scalars \in PartRefs \cup {NoRef}
           /\ item.work = "ScalarMultiplication" => item.tag \notin ProverElements
BY DEF WidgetItem, ItemOK

(* What is queued in each round.                                             *)
LEMMA PreambleItems ==
    ASSUME ControlOK, QueueOK, In("preamble"),
           QueueAndProcess([i \in WireIndices |-> Ifft(WireTags[i])])
    PROVE  /\ work_items' = [i \in WireIndices |-> Ifft(WireTags[i])]
           /\ Len(work_items') = program_width
           /\ queue_pos' = 0
<1>1. PICK f : f = [i \in WireIndices |-> Ifft(WireTags[i])]
  OBVIOUS
<1>2. f \in Seq(ToSet(f)) /\ Len(f) = program_width
  BY <1>1, Wires, ListsOfItems
<1>3. work_items = <<>>
  BY DEF In, ControlOK
<1>4. QED
  BY <1>1, <1>2, <1>3, QueuedItems

LEMMA FirstItems ==
    ASSUME ControlOK, QueueOK, execute_first_round
    PROVE  /\ Len(work_items') \in Nat
           /\ Len(work_items') >= program_width
           /\ DOMAIN work_items' = 1 .. Len(work_items')
           /\ queue_pos' = 0
           /\ \A i \in WireIndices :
                 work_items'[i] = commit(get(Monomial(WireTags[i])), CommitTags[i],
                                         domain_size_flag(i))
           /\ \A k \in program_width + 1 .. Len(work_items') :
                 WidgetItem(work_items'[k]) /\ work_items'[k] \in ToSet(widgets[1].items)
<1>1. PICK s : s = [i \in WireIndices |->
                      commit(get(Monomial(WireTags[i])), CommitTags[i], domain_size_flag(i))]
  OBVIOUS
<1>2. s \in Seq(ToSet(s)) /\ Len(s) = program_width
  BY <1>1, Wires, ListsOfItems
<1>3. PICK t : t = widgets[1].items
  OBVIOUS
<1>4. /\ t \in Seq(ToSet(t))
      /\ \A k \in 1 .. Len(t) : WidgetItem(t[k])
  BY <1>3, ItemsOfWidgets DEF ControlOK
<1>5. PICK u : u = s \o t
  OBVIOUS
<1>6. /\ u \in Seq(ToSet(u))
      /\ Len(s) \in Nat /\ Len(t) \in Nat
      /\ Len(u) = Len(s) + Len(t)
      /\ \A k \in 1 .. Len(s) : u[k] = s[k]
      /\ \A k \in Len(s) + 1 .. Len(s) + Len(t) :
            k - Len(s) \in 1 .. Len(t) /\ u[k] = t[k - Len(s)]
  BY <1>2, <1>4, <1>5, JoinedItems
<1>7. work_items = <<>>
  BY DEF execute_first_round, In, ControlOK
<1>8. QueueAndProcess(u)
  BY <1>1, <1>3, <1>5 DEF execute_first_round
<1>9. /\ work_items' = u
      /\ DOMAIN u = 1 .. Len(u)
      /\ queue_pos' = 0
  BY <1>6, <1>7, <1>8, QueuedItems
<1>10. \A i \in WireIndices : u[i] = s[i]
  BY <1>2, <1>6, Wires
<1>11. \A k \in program_width + 1 .. Len(u) : WidgetItem(u[k]) /\ u[k] \in ToSet(t)
  BY <1>2, <1>4, <1>6
<1>12. QED
  BY <1>1, <1>2, <1>3, <1>6, <1>9, <1>10, <1>11

LEMMA SecondItems ==
    ASSUME ControlOK, QueueOK, execute_second_round
    PROVE  /\ Len(work_items') \in Nat
           /\ DOMAIN work_items' = 1 .. Len(work_items')
           /\ queue_pos' = 0
           /\ \A k \in 1 .. Len(work_items') :
                 WidgetItem(work_items'[k]) /\ work_items'[k] \in ToSet(widgets[2].items)
<1>1. PICK t : t = widgets[2].items
  OBVIOUS
<1>2. /\ t \in Seq(ToSet(t))
      /\ \A k \in 1 .. Len(t) : WidgetItem(t[k])
  BY <1>1, ItemsOfWidgets DEF ControlOK
<1>3. work_items = <<>>
  BY DEF execute_second_round, In, ControlOK
<1>4. QueueAndProcess(t)
  BY <1>1 DEF execute_second_round
<1>5. QED
  BY <1>1, <1>2, <1>3, <1>4, QueuedItems

LEMMA ThirdItems ==
    ASSUME ControlOK, QueueOK, execute_third_round
    PROVE  /\ Len(work_items') \in Nat
           /\ DOMAIN work_items' = 1 .. Len(work_items')
           /\ queue_pos' = 0
           /\ \A k \in 1 .. Len(work_items') :
                 \/ WidgetItem(work_items'[k]) /\ work_items'[k] \in ToSet(widgets[3].items)
                 \/ \E i \in WireIndices : work_items'[k] = Fft(WireTags[i], 0)
<1>1. PICK t : t = [i \in WireIndices |-> Fft(WireTags[i], 0)]
  OBVIOUS
<1>2. t \in Seq(ToSet(t)) /\ Len(t) = program_width
  BY <1>1, Wires, ListsOfItems
<1>3. PICK s : s = widgets[3].items
  OBVIOUS
<1>4. /\ s \in Seq(ToSet(s))
      /\ \A k \in 1 .. Len(s) : WidgetItem(s[k])
  BY <1>3, ItemsOfWidgets DEF ControlOK
<1>5. PICK u : u = s \o t
  OBVIOUS
<1>6. /\ u \in Seq(ToSet(u))
      /\ Len(s) \in Nat /\ Len(t) \in Nat
      /\ Len(u) = Len(s) + Len(t)
      /\ \A k \in 1 .. Len(s) : u[k] = s[k]
      /\ \A k \in Len(s) + 1 .. Len(s) + Len(t) :
            k - Len(s) \in 1 .. Len(t) /\ u[k] = t[k - Len(s)]
  BY <1>2, <1>4, <1>5, JoinedItems
<1>7. work_items = <<>>
  BY DEF execute_third_round, In, ControlOK
<1>8. QueueAndProcess(u)
  BY <1>1, <1>3, <1>5 DEF execute_third_round
<1>9. /\ work_items' = u
      /\ DOMAIN u = 1 .. Len(u)
      /\ queue_pos' = 0
  BY <1>6, <1>7, <1>8, QueuedItems
<1>10. \A k \in 1 .. Len(u) :
          \/ WidgetItem(u[k]) /\ u[k] \in ToSet(s)
          \/ \E i \in WireIndices : u[k] = Fft(WireTags[i], 0)
  <2> SUFFICES ASSUME NEW k \in 1 .. Len(u)
               PROVE  \/ WidgetItem(u[k]) /\ u[k] \in ToSet(s)
                      \/ \E i \in WireIndices : u[k] = Fft(WireTags[i], 0)
    OBVIOUS
  <2>1. CASE k \in 1 .. Len(s)
    BY <1>4, <1>6, <2>1
  <2>2. CASE k \in Len(s) + 1 .. Len(s) + Len(t)
    BY <1>1, <1>2, <1>6, <2>2, Wires
  <2> QED
    BY <1>6, <2>1, <2>2
<1>11. QED
  BY <1>3, <1>6, <1>9, <1>10

LEMMA FourthItems ==
    ASSUME ControlOK, QueueOK, Divides
    PROVE  /\ work_items' = [i \in WireIndices |->
                                commit(Part(i), QuotientTags[i], domain_size_flag(i))]
           /\ Len(work_items') = program_width
           /\ queue_pos' = 0
<1>1. PICK f : f = [i \in WireIndices |->
                      commit(Part(i), QuotientTags[i], domain_size_flag(i))]
  OBVIOUS
<1>2. f \in Seq(ToSet(f)) /\ Len(f) = program_width
  BY <1>1, Wires, ListsOfItems
<1>3. work_items = <<>> /\ QueueAndProcess(f)
  BY <1>1 DEF Divides, execute_fourth_round, In, ControlOK
<1>4. QED
  BY <1>1, <1>2, <1>3, QueuedItems

LEMMA SixthItems ==
    ASSUME ControlOK, QueueOK, execute_sixth_round
    PROVE  work_items' = <<>> /\ queue_pos' = 0
<1>1. work_items = <<>> /\ QueueAndProcess(<<>>)
  BY DEF execute_sixth_round, In, ControlOK
<1>2. QED
  BY <1>1 DEF QueueAndProcess, QueueOK

-----------------------------------------------------------------------------
(* The queue and what it refers to.                                          *)

LEMMA SameHeld ==
    ASSUME HeldOK, HeapStep, work_items' = work_items
    PROVE  HeldOK'
<1>1. Held' = Held
  BY DEF Held, ItemRefs, PartRefs, Part
<1>2. \A r \in Held : r \in Refs /\ IsPolynomial(cells'[r])
  BY DEF HeapStep, HeldOK
<1>3. QED
  BY <1>1, <1>2 DEF HeldOK, IsPolynomial

LEMMA NewHeld ==
    ASSUME HeapStep,
           \A k \in DOMAIN work_items' :
              \/ work_items'[k].mul_scalars \in PartRefs \cup {NoRef}
              \/ /\ work_items'[k].mul_scalars \in Refs
                 /\ IsPolynomial(cells'[work_items'[k].mul_scalars])
    PROVE  HeldOK'
<1>1. Held' = PartRefs \cup ({work_items'[k].mul_scalars : k \in DOMAIN work_items'} \ {NoRef})
  BY DEF Held, ItemRefs, PartRefs, Part
<1>2. \A r \in PartRefs : r \in Refs /\ IsPolynomial(cells'[r])
  BY Parts4 DEF HeapStep
<1>3. \A r \in Held' : r \in Refs /\ IsPolynomial(cells'[r])
  BY <1>1, <1>2
<1>4. QED
  BY <1>3 DEF HeldOK, IsPolynomial

LEMMA EmptyHeld ==
    ASSUME HeapStep, work_items' = <<>>
    PROVE  HeldOK'
BY NewHeld

(* An empty queue, and one that does not change.                             *)
LEMMA EmptyQueue ==
    ASSUME work_items' = <<>>, queue_pos' = 0
    PROVE  QueueOK'
BY DEF QueueOK

LEMMA SameQueue ==
    ASSUME QueueOK, UNCHANGED <<work_items, queue_pos>>
    PROVE  QueueOK'
BY DEF QueueOK, ItemOK, ItemNames

LEMMA NewQueue ==
    ASSUME Len(work_items') \in Nat, DOMAIN work_items' = 1 .. Len(work_items'),
           queue_pos' = 0, \A k \in 1 .. Len(work_items') : ItemOK(work_items'[k])
    PROVE  QueueOK'
BY DEF QueueOK, ItemOK, ItemNames

LEMMA QueueNext ==
    ASSUME IInv, HeapStep, [Next]_vars
    PROVE  QueueOK' /\ HeldOK' /\ RoundItems'
<1> USE DEF IInv
<1>1. CASE Stores \/ construct_proof \/ execute_fifth_round \/ PanicInRound \/ UNCHANGED vars
  <2>1. UNCHANGED <<work_items, queue_pos, processing>>
    BY <1>1 DEF Stores, StoreWitness, construct_proof, execute_fifth_round, PanicInRound,
       vars, queueVars
  <2>2. processing' => UNCHANGED round
    BY <1>1 DEF Stores, StoreWitness, construct_proof, execute_fifth_round, PanicInRound,
       vars, queueVars, proverVars, Idle, In
  <2>3. RoundItems'
    BY <2>1, <2>2 DEF RoundItems, Commits, WidgetItem, ItemNames, PartRefs, Part,
       WireIndices, domain_size_flag, n
  <2> QED
    BY <2>1, <2>3, SameQueue, SameHeld
<1>2. CASE NewProver \/ BeginRound \/ export_proof \/ FinishRound
  <2>1. work_items' = <<>> /\ queue_pos' = 0 /\ ~ processing'
    BY <1>2 DEF NewProver, BeginRound, export_proof, FinishRound, FinishQueue, flush_queue, Idle
  <2> QED
    BY <2>1, EmptyQueue, EmptyHeld DEF RoundItems
<1>3. CASE Blinds
  <2>1. PICK draws \in WireDraws : execute_preamble_round(draws)
    BY <1>3 DEF Blinds
  <2>2. In("preamble")
    BY <2>1, PreambleControl
  <2>3. CASE UNCHANGED queueVars
    BY <2>2, <2>3, SameQueue, SameHeld DEF queueVars, RoundItems, In, Idle
  <2>4. CASE /\ QueueAndProcess([i \in WireIndices |-> Ifft(WireTags[i])])
             /\ UNCHANGED <<round, begun>>
    <3>1. /\ work_items' = [i \in WireIndices |-> Ifft(WireTags[i])]
          /\ Len(work_items') = program_width
          /\ queue_pos' = 0
      BY <2>2, <2>4, PreambleItems
    <3>2. \A i \in WireIndices : /\ work_items'[i].mul_scalars = NoRef
                                 /\ ItemOK(work_items'[i])
      BY <3>1, KeyAssumption DEF Ifft, Item, ItemOK, ItemNames
    <3>3. round' = "preamble"
      BY <2>2, <2>4 DEF In
    <3>4. DOMAIN work_items' = 1 .. Len(work_items') /\ Len(work_items') \in Nat
      BY <3>1, Wires
    <3>5. QueueOK'
      BY <3>1, <3>2, <3>4, NewQueue, Wires
    <3>6. HeldOK'
      BY <3>1, <3>2, NewHeld
    <3>7. RoundItems'
      BY <3>1, <3>3 DEF RoundItems
    <3> QED
      BY <3>5, <3>6, <3>7
  <2> QED
    BY <2>1, <2>3, <2>4, PreambleControl
<1>4. CASE execute_first_round
  <2>1. /\ Len(work_items') \in Nat
        /\ Len(work_items') >= program_width
        /\ DOMAIN work_items' = 1 .. Len(work_items')
        /\ queue_pos' = 0
        /\ \A i \in WireIndices :
              work_items'[i] = commit(get(Monomial(WireTags[i])), CommitTags[i],
                                      domain_size_flag(i))
        /\ \A k \in program_width + 1 .. Len(work_items') : WidgetItem(work_items'[k])
    BY <1>4, FirstItems
  <2>2. round = "first" /\ Idle /\ round' = "first" /\ UNCHANGED storeVars
    BY <1>4 DEF execute_first_round, In, proverVars
  <2>3. \A i \in WireIndices :
           /\ get(Monomial(WireTags[i])) \in Refs
           /\ get(Monomial(WireTags[i])) # NoRef
           /\ IsPolynomial(cells'[get(Monomial(WireTags[i]))])
    BY <2>2, KeyAssumption DEF InterpolatedInTime, Interpolated, HeapOK, MapTypeOK,
       contains, get, storeVars
  <2>4. \A i \in WireIndices :
           /\ Commits(work_items'[i], CommitTags[i], i)
           /\ ItemOK(work_items'[i])
           /\ work_items'[i].mul_scalars = get(Monomial(WireTags[i]))
    <3> SUFFICES ASSUME NEW i \in WireIndices
                 PROVE  /\ Commits(work_items'[i], CommitTags[i], i)
                        /\ ItemOK(work_items'[i])
                        /\ work_items'[i].mul_scalars = get(Monomial(WireTags[i]))
      OBVIOUS
    <3>1. PICK item : item = commit(get(Monomial(WireTags[i])), CommitTags[i],
                                    domain_size_flag(i))
      OBVIOUS
    <3>2. /\ item.work = "ScalarMultiplication"
          /\ item.tag = CommitTags[i]
          /\ item.constant = domain_size_flag(i)
          /\ item.mul_scalars = get(Monomial(WireTags[i]))
      BY <3>1 DEF commit, ScalarMultiplication, Item
    <3>3. Commits(item, CommitTags[i], i) /\ ItemOK(item)
      BY <2>3, <3>2 DEF Commits, ItemOK
    <3>4. work_items'[i] = item
      BY <2>1, <3>1
    <3> QED
      BY <3>2, <3>3, <3>4
  <2>5. \A k \in 1 .. Len(work_items') : k \in WireIndices \/ k \in program_width + 1 .. Len(work_items')
    BY <2>1, Wires
  <2>6. QueueOK'
    BY <2>1, <2>4, <2>5, NewQueue, WidgetItemsOK
  <2>7. HeldOK'
    BY <2>1, <2>3, <2>4, <2>5, NewHeld, WidgetItemsOK
  <2>8. RoundItems'
    BY <2>1, <2>2, <2>4 DEF RoundItems, Commits, WidgetItem, ItemNames, PartRefs, Part,
       WireIndices, domain_size_flag, n
  <2> QED
    BY <2>6, <2>7, <2>8
<1>5. CASE execute_second_round
  <2>1. /\ Len(work_items') \in Nat
        /\ DOMAIN work_items' = 1 .. Len(work_items')
        /\ queue_pos' = 0
        /\ \A k \in 1 .. Len(work_items') : WidgetItem(work_items'[k])
    BY <1>5, SecondItems
  <2>2. round' = "second"
    BY <1>5 DEF execute_second_round, In, proverVars
  <2>3. QueueOK' /\ HeldOK'
    BY <2>1, NewQueue, NewHeld, WidgetItemsOK
  <2>4. RoundItems'
    BY <2>1, <2>2 DEF RoundItems, WidgetItem, ItemNames, PartRefs, Part
  <2> QED
    BY <2>3, <2>4
<1>6. CASE execute_third_round
  <2>1. /\ Len(work_items') \in Nat
        /\ DOMAIN work_items' = 1 .. Len(work_items')
        /\ queue_pos' = 0
        /\ \A k \in 1 .. Len(work_items') :
              \/ WidgetItem(work_items'[k])
              \/ \E i \in WireIndices : work_items'[k] = Fft(WireTags[i], 0)
    BY <1>6, ThirdItems
  <2>2. round' = "third"
    BY <1>6 DEF execute_third_round, In, proverVars
  <2>3. \A i \in WireIndices : LET item == Fft(WireTags[i], 0) IN
           ItemOK(item) /\ item.mul_scalars = NoRef /\ item.work = "Fft"
    BY KeyAssumption DEF Fft, Item, ItemOK, ItemNames
  <2>4. \A k \in 1 .. Len(work_items') :
           /\ ItemOK(work_items'[k])
           /\ work_items'[k].mul_scalars \in PartRefs \cup {NoRef}
           /\ WidgetItem(work_items'[k]) \/ work_items'[k].work = "Fft"
    BY <2>1, <2>3, WidgetItemsOK
  <2>5. QueueOK' /\ HeldOK'
    BY <2>1, <2>4, NewQueue, NewHeld
  <2>6. RoundItems'
    BY <2>1, <2>2, <2>4 DEF RoundItems, WidgetItem, ItemNames, PartRefs, Part
  <2> QED
    BY <2>5, <2>6
<1>7. CASE Divides
  <2>1. /\ work_items' = [i \in WireIndices |->
                             commit(Part(i), QuotientTags[i], domain_size_flag(i))]
        /\ Len(work_items') = program_width
        /\ queue_pos' = 0
    BY <1>7, FourthItems
  <2>2. round' = "fourth"
    BY <1>7 DEF Divides, execute_fourth_round, In, proverVars
  <2>3. DOMAIN work_items' = 1 .. Len(work_items') /\ Len(work_items') \in Nat
    BY <2>1, Wires
  <2>4. \A i \in WireIndices : /\ work_items'[i].mul_scalars = Part(i)
                               /\ Part(i) \in PartRefs
                               /\ ItemOK(work_items'[i])
    BY <2>1, Parts4, Wires DEF commit, ScalarMultiplication, Item, ItemOK
  <2>5. QueueOK' /\ HeldOK'
    BY <2>1, <2>3, <2>4, NewQueue, NewHeld, Wires
  <2>6. RoundItems'
    BY <2>1, <2>2 DEF RoundItems, Part, WireIndices, domain_size_flag, n
  <2> QED
    BY <2>5, <2>6
<1>8. CASE execute_sixth_round
  <2>1. work_items' = <<>> /\ queue_pos' = 0
    BY <1>8, SixthItems
  <2>2. round' = "sixth"
    BY <1>8 DEF execute_sixth_round, In, proverVars
  <2> QED
    BY <2>1, <2>2, EmptyQueue, EmptyHeld DEF RoundItems
<1>9. CASE ProcessItem(Held) /\ UNCHANGED proverVars
  <2>1. UNCHANGED <<work_items, processing, round>> /\ queue_pos' = queue_pos + 1
    BY <1>9 DEF ProcessItem, proverVars
  <2>2. queue_pos' \in 0 .. Len(work_items')
    BY <1>9, <2>1, InHandOK DEF ProcessItem, QueueOK
  <2>3. QueueOK'
    BY <2>1, <2>2 DEF QueueOK, ItemOK, ItemNames
  <2>4. RoundItems'
    BY <2>1 DEF RoundItems, Commits, WidgetItem, ItemNames, PartRefs, Part,
       WireIndices, domain_size_flag, n
  <2> QED
    BY <2>1, <2>3, <2>4, SameHeld
<1>10. CASE PanicOnItem
  <2>1. UNCHANGED <<work_items, queue_pos>> /\ ~ processing'
    BY <1>10 DEF PanicOnItem
  <2> QED
    BY <2>1, SameQueue, SameHeld DEF RoundItems
<1>11. QED
  BY <1>1, <1>2, <1>3, <1>4, <1>5, <1>6, <1>7, <1>8, <1>9, <1>10
     DEF Next, Process, Stopped, Stores, Blinds, Divides

-----------------------------------------------------------------------------
(* What is sent.                                                             *)

\* The element an item of the queue adds.
CommitmentOf(item) ==
    Serialize(G1Width, pippenger_unsafe(cells[item.mul_scalars].coefficients, msm_size(item)))

SentSizes == {"circuit_size", "public_input_size"}

(* An element of the prover's own is as it was, or is the public inputs sent *)
(* in the first round, or a commitment an item has just made.                *)
LEMMA ElementsNext ==
    ASSUME ControlOK, QueueOK, [Next]_vars,
           NEW name \in ProverElements \ SentSizes, has_element(name)'
    PROVE  \/ has_element(name) /\ elements'[name] = elements[name]
           \/ /\ name = "public_inputs"
              /\ execute_first_round
              /\ elements'[name] = SerializeVector(public_wires)
           \/ /\ ProcessItem(Held) /\ UNCHANGED proverVars
              /\ item_in_hand.work = "ScalarMultiplication"
              /\ item_in_hand.tag = name
              /\ elements'[name] = CommitmentOf(item_in_hand)
<1>1. \A r \in 1 .. 3 : name \notin DOMAIN widgets[r].elements
  BY ItemsOfWidgets DEF ControlOK
<1>2. name \in DOMAIN elements'
  BY DEF has_element
<1>3. CASE UNCHANGED elements
  BY <1>2, <1>3 DEF has_element
<1>4. CASE NewProver
  BY <1>2, <1>4 DEF NewProver
<1>5. CASE BeginRound
  <2>1. UNCHANGED elements \/ elements' = ElementsToHash
    BY <1>5, BeginControl DEF transcriptVars
  <2>2. CASE round # "preamble"
    BY <1>3, <2>1, <2>2 DEF ElementsToHash
  <2>3. CASE round = "preamble" /\ elements' = ElementsToHash
    <3>1. PICK e : e = With(elements, "circuit_size", Bytes32(n))
      OBVIOUS
    <3>2. elements' = With(e, "public_input_size", Bytes32(num_public_inputs))
      BY <2>3, <3>1 DEF ElementsToHash
    <3>3. name \in DOMAIN e /\ elements'[name] = e[name]
      BY <1>2, <3>2 DEF With, SentSizes
    <3> QED
      BY <3>1, <3>3 DEF With, SentSizes, has_element
  <2> QED
    BY <1>3, <2>1, <2>2, <2>3
<1>6. CASE execute_first_round
  <2>1. PICK e : e = With(elements, "public_inputs", SerializeVector(public_wires))
    OBVIOUS
  <2>2. elements' = WithAll(e, widgets[1].elements)
    BY <1>6, <2>1 DEF execute_first_round
  <2>3. name \in DOMAIN e /\ elements'[name] = e[name]
    BY <1>1, <1>2, <2>2 DEF WithAll
  <2> QED
    BY <1>6, <2>1, <2>3 DEF With, has_element
<1>7. CASE execute_second_round
  <2>1. elements' = WithAll(elements, widgets[2].elements)
    BY <1>7 DEF execute_second_round
  <2> QED
    BY <1>1, <1>2, <2>1 DEF WithAll, has_element
<1>8. CASE execute_third_round
  <2>1. elements' = WithAll(elements, widgets[3].elements)
    BY <1>8 DEF execute_third_round
  <2> QED
    BY <1>1, <1>2, <2>1 DEF WithAll, has_element
<1>9. CASE execute_fifth_round
  <2>1. PICK e : e = WithAll(elements, OpeningElements)
    OBVIOUS
  <2>2. elements' = With(e, "t", Serialize(FrWidth, t_eval))
    BY <1>9, <2>1 DEF execute_fifth_round
  <2>3. name # "t"
    BY DEF ProverElements, CommitTags, QuotientTags
  <2>4. name \in DOMAIN e /\ elements'[name] = e[name]
    BY <1>2, <2>2, <2>3 DEF With
  <2>5. name \notin DOMAIN OpeningElements
    BY WidgetsAssumption
  <2> QED
    BY <2>1, <2>4, <2>5 DEF WithAll, has_element
<1>10. CASE ProcessItem(Held) /\ UNCHANGED proverVars
  <2>1. CASE /\ item_in_hand.work = "ScalarMultiplication"
             /\ elements' = With(elements, item_in_hand.tag, CommitmentOf(item_in_hand))
    BY <1>2, <1>10, <2>1 DEF With, has_element
  <2> QED
    BY <1>3, <1>10, <2>1, ItemControl DEF CommitmentOf
<1>11. CASE Stores \/ construct_proof \/ Blinds \/ Divides \/ execute_sixth_round
            \/ export_proof \/ PanicOnItem \/ FinishRound \/ PanicInRound \/ UNCHANGED vars
  <2>1. UNCHANGED elements
    BY <1>11 DEF Stores, StoreWitness, construct_proof, Blinds, execute_preamble_round,
       Divides, execute_fourth_round, execute_sixth_round, export_proof, PanicOnItem,
       FinishRound, FinishQueue, PanicInRound, vars, transcriptVars
  <2> QED
    BY <1>3, <2>1
<1>12. QED
  BY <1>4, <1>5, <1>6, <1>7, <1>8, <1>9, <1>10, <1>11
     DEF Next, Process, Stopped, Stores, Blinds, Divides

(* A commitment of the prover's own is made in its round, at its wire's place. *)
LEMMA CommitsInTurn ==
    ASSUME ControlOK, QueueOK, RoundItems, InHand, NEW i \in WireIndices,
           item_in_hand.work = "ScalarMultiplication"
    PROVE  /\ item_in_hand.tag = CommitTags[i] => round = "first" /\ queue_pos + 1 = i
           /\ item_in_hand.tag = QuotientTags[i] => round = "fourth" /\ queue_pos + 1 = i
           /\ item_in_hand.tag # "public_inputs"
<1>1. PICK item : item = item_in_hand
  OBVIOUS
<1>2. PICK q : q = queue_pos + 1
  OBVIOUS
<1>3. q \in 1 .. Len(work_items) /\ item = work_items[q]
  BY <1>1, <1>2, InHandOK DEF item_in_hand
<1>4. round \in ProcessingRounds /\ processing
  BY DEF InHand, ControlOK
<1>5. /\ CommitTags[i] \in ProverElements
      /\ QuotientTags[i] \in ProverElements
      /\ "public_inputs" \in ProverElements
  BY Wires DEF ProverElements
<1>6. WidgetItem(item) => item.tag \notin ProverElements
  BY <1>1, WidgetItemsOK
<1>7. \A j \in 1 .. 4 : CommitTags[j] # "public_inputs" /\ QuotientTags[j] # "public_inputs"
  BY DEF CommitTags, QuotientTags
<1>8. CASE round = "preamble"
  <2>1. q \in WireIndices /\ item = Ifft(WireTags[q])
    BY <1>3, <1>4, <1>8, Wires DEF RoundItems
  <2> QED
    BY <1>1, <2>1 DEF Ifft, Item
<1>9. CASE round = "first"
  <2>1. CASE q \in WireIndices
    BY <1>1, <1>2, <1>3, <1>4, <1>7, <1>9, <2>1, Wires DEF RoundItems, Commits
  <2>2. CASE q \in program_width + 1 .. Len(work_items)
    BY <1>1, <1>3, <1>4, <1>5, <1>6, <1>9, <2>2 DEF RoundItems
  <2> QED
    BY <1>3, <2>1, <2>2, Wires DEF QueueOK
<1>10. CASE round \in {"second", "third"}
  BY <1>1, <1>3, <1>4, <1>5, <1>6, <1>10 DEF RoundItems
<1>11. CASE round = "fourth"
  <2>1. q \in WireIndices /\ item = commit(Part(q), QuotientTags[q], domain_size_flag(q))
    BY <1>3, <1>4, <1>11, Wires DEF RoundItems
  <2>2. item.tag = QuotientTags[q]
    BY <2>1 DEF commit, ScalarMultiplication, Item
  <2> QED
    BY <1>1, <1>2, <1>7, <1>11, <2>1, <2>2, Wires
<1>12. CASE round = "sixth"
  BY <1>3, <1>4, <1>12 DEF RoundItems
<1>13. QED
  BY <1>4, <1>8, <1>9, <1>10, <1>11, <1>12 DEF ProcessingRounds

(* The names of the prover's own elements.                                   *)
LEMMA OwnElements ==
    /\ \A i \in WireIndices : /\ CommitTags[i] \in ProverElements \ SentSizes
                              /\ QuotientTags[i] \in ProverElements \ SentSizes
                              /\ CommitTags[i] # "public_inputs"
                              /\ QuotientTags[i] # "public_inputs"
    /\ "public_inputs" \in ProverElements \ SentSizes
<1>1. \A i \in 1 .. 4 : /\ CommitTags[i] \in ProverElements
                        /\ QuotientTags[i] \in ProverElements
  BY DEF ProverElements
<1>2. \A i \in 1 .. 4 : /\ CommitTags[i] \notin SentSizes \cup {"public_inputs"}
                        /\ QuotientTags[i] \notin SentSizes \cup {"public_inputs"}
  BY DEF SentSizes, CommitTags, QuotientTags
<1>3. "public_inputs" \in ProverElements \ SentSizes
  BY DEF ProverElements, SentSizes
<1>4. QED
  BY <1>1, <1>2, <1>3, Wires

(* Where a commitment can come from.                                         *)
LEMMA CommitmentNext ==
    ASSUME ControlOK, QueueOK, RoundItems, [Next]_vars, NEW i \in WireIndices,
           has_element(CommitTags[i])'
    PROVE  \/ /\ has_element(CommitTags[i])
              /\ elements'[CommitTags[i]] = elements[CommitTags[i]]
           \/ /\ ProcessItem(Held) /\ UNCHANGED proverVars
              /\ round = "first" /\ processing
              /\ queue_pos + 1 = i
              /\ elements'[CommitTags[i]] = CommitmentOf(work_items[i])
<1>1. PICK name : name = CommitTags[i]
  OBVIOUS
<1>2. /\ name \in ProverElements \ SentSizes
      /\ name # "public_inputs"
      /\ has_element(name)'
  BY <1>1, OwnElements
<1>3. \/ has_element(name) /\ elements'[name] = elements[name]
      \/ /\ ProcessItem(Held) /\ UNCHANGED proverVars
         /\ item_in_hand.work = "ScalarMultiplication"
         /\ item_in_hand.tag = name
         /\ elements'[name] = CommitmentOf(item_in_hand)
  BY <1>2, ElementsNext
<1>4. QED
  BY <1>1, <1>3, CommitsInTurn DEF ProcessItem, InHand, item_in_hand

LEMMA QuotientNext ==
    ASSUME ControlOK, QueueOK, RoundItems, [Next]_vars, NEW i \in WireIndices,
           has_element(QuotientTags[i])'
    PROVE  \/ /\ has_element(QuotientTags[i])
              /\ elements'[QuotientTags[i]] = elements[QuotientTags[i]]
           \/ /\ ProcessItem(Held) /\ UNCHANGED proverVars
              /\ round = "fourth" /\ processing
              /\ queue_pos + 1 = i
              /\ elements'[QuotientTags[i]] = CommitmentOf(work_items[i])
<1>1. PICK name : name = QuotientTags[i]
  OBVIOUS
<1>2. /\ name \in ProverElements \ SentSizes
      /\ name # "public_inputs"
      /\ has_element(name)'
  BY <1>1, OwnElements
<1>3. \/ has_element(name) /\ elements'[name] = elements[name]
      \/ /\ ProcessItem(Held) /\ UNCHANGED proverVars
         /\ item_in_hand.work = "ScalarMultiplication"
         /\ item_in_hand.tag = name
         /\ elements'[name] = CommitmentOf(item_in_hand)
  BY <1>2, ElementsNext
<1>4. QED
  BY <1>1, <1>3, CommitsInTurn DEF ProcessItem, InHand, item_in_hand

-----------------------------------------------------------------------------
(* The rounds, one after the other.                                          *)

\* How a step moves construct_proof on.
StaysIn == UNCHANGED <<round, begun, current_round>> /\ (processing' => processing)
Queues == UNCHANGED <<round, begun, current_round>> /\ Idle /\ begun

LEMMA RoundNext ==
    ASSUME ControlOK, QueueOK, [Next]_vars
    PROVE  \/ StaysIn
           \/ Queues
           \/ construct_proof
           \/ NewProver
           \/ BeginRound
           \/ FinishRound
           \/ /\ UNCHANGED current_round /\ ~ processing' /\ begun
              /\ \/ round = "preamble" /\ round' = "err"
                 \/ round = "fifth" /\ round' = "sixth"
           \/ UNCHANGED current_round /\ ~ processing' /\ round = "export" /\ round' = "ok"
<1>1. CASE Stores
  BY <1>1 DEF Stores, StoreWitness, StaysIn, Idle, queueVars, proverVars, transcriptVars
<1>2. CASE Blinds
  BY <1>2, PreambleControl DEF Blinds, StaysIn, Queues, In, Idle, queueVars, transcriptVars
<1>3. CASE execute_first_round \/ execute_second_round \/ execute_third_round
  BY <1>3 DEF execute_first_round, execute_second_round, execute_third_round, In, Queues,
     proverVars
<1>4. CASE Divides \/ execute_sixth_round
  BY <1>4 DEF Divides, execute_fourth_round, execute_sixth_round, In, Queues, proverVars,
     transcriptVars
<1>5. CASE execute_fifth_round
  BY <1>5, RoundsInOrder DEF execute_fifth_round, In, Idle, queueVars
<1>6. CASE export_proof
  BY <1>6 DEF export_proof, flush_queue, Idle, transcriptVars
<1>7. CASE ProcessItem(Held) /\ UNCHANGED proverVars
  BY <1>7, ItemControl DEF ProcessItem, StaysIn, proverVars
<1>8. CASE PanicOnItem /\ UNCHANGED proverVars
  BY <1>8 DEF PanicOnItem, StaysIn, proverVars, transcriptVars
<1>9. CASE PanicInRound
  BY <1>9 DEF PanicInRound, StaysIn, proverVars, transcriptVars
<1>10. CASE UNCHANGED vars
  BY <1>10 DEF vars, StaysIn, queueVars, proverVars, transcriptVars
<1>11. QED
  BY <1>1, <1>2, <1>3, <1>4, <1>5, <1>6, <1>7, <1>8, <1>9, <1>10
     DEF Next, Process, Stopped, Stores, Blinds, Divides

(* Only the end of a round makes construct_proof idle again.                 *)
LEMMA IdleNext ==
    ASSUME ControlOK, [Next]_vars, Idle'
    PROVE  Idle \/ FinishRound
<1>1. CASE ProcessItem(Held)
  BY <1>1 DEF ProcessItem, InHand, Idle
<1>2. CASE PanicOnItem
  BY <1>2 DEF PanicOnItem, Idle
<1>3. CASE UNCHANGED vars
  BY <1>3 DEF vars, queueVars, Idle
<1>4. QED
  BY <1>1, <1>2, <1>3 DEF Next, Process, Stopped, StoreWitness, construct_proof, NewProver,
     BeginRound, execute_preamble_round, execute_first_round, execute_second_round,
     execute_third_round, execute_fourth_round, execute_fifth_round, execute_sixth_round,
     export_proof, PanicInRound, In

(* The first challenge is derived before anything is sent, and once only.    *)
LEMMA InitOnce ==
    ASSUME ControlOK, Begins, BeginRound, round = "preamble"
    PROVE  /\ ~ InitDone /\ InitDone'
           /\ ~ HasCommitment' /\ ~ HasQuotient'
<1>1. round \in DOMAIN Challenge /\ Challenge[round] = "init"
  BY DEF Challenge
<1>2. /\ current_round' = current_round + 1
      /\ current_round' \in 0 .. num_rounds
      /\ round_manifests[current_round + 1].challenge = "init"
      /\ elements' = ElementsToHash
  BY <1>1, BeginControl
<1>3. current_round \in 0 .. num_rounds /\ num_rounds \in Nat
  BY RoundsAssumption DEF ControlOK
<1>4. InitDone'
  BY <1>2, <1>3 DEF InitDone
<1>5. ~ InitDone
  <2> SUFFICES ASSUME NEW r \in 1 .. current_round, round_manifests[r].challenge = "init"
               PROVE  FALSE
    BY DEF InitDone
  <2>1. r \in 1 .. num_rounds /\ current_round + 1 \in 1 .. num_rounds
    BY <1>2, <1>3
  <2>2. r = current_round + 1
    BY <1>2, <2>1, RoundsAssumption
  <2> QED
    BY <1>3, <2>2
<1>6. elements = <<>>
  BY <1>5 DEF Begins
<1>7. DOMAIN elements' \subseteq SentSizes
  BY <1>2, <1>6 DEF ElementsToHash, With, SentSizes
<1>8. QED
  BY <1>4, <1>5, <1>7, OwnElements DEF HasCommitment, HasQuotient, has_element

LEMMA BeginsNext ==
    ASSUME ControlOK, QueueOK, RoundItems, Begins, [Next]_vars
    PROVE  Begins'
<1>1. ~ NewProver /\ ~ BeginRound => current_round' = current_round
  BY RoundNext DEF StaysIn, Queues, construct_proof, FinishRound, FinishQueue, transcriptVars
<1>2. InitDone /\ ~ NewProver => InitDone'
  <2>1. CASE BeginRound
    <3>1. current_round' = current_round \/ current_round' = current_round + 1
      BY <2>1, BeginControl DEF transcriptVars
    <3>2. current_round \in Nat
      BY RoundsAssumption DEF ControlOK
    <3> QED
      BY <3>1, <3>2 DEF InitDone
  <2> QED
    BY <1>1, <2>1 DEF InitDone
<1>3. ~ InitDone' => /\ elements' = <<>>
                     /\ round' \in {"new", "preamble"}
                     /\ round' = "preamble" => ~ begun'
  <2>1. CASE NewProver
    BY <2>1 DEF NewProver
  <2>2. CASE InitDone /\ ~ NewProver
    BY <1>2, <2>2
  <2>3. CASE ~ InitDone /\ ~ NewProver
    <3>1. /\ elements = <<>>
          /\ round \in {"new", "preamble"}
          /\ round = "preamble" => ~ begun
      BY <2>3 DEF Begins
    <3>2. ~ processing
      BY <3>1 DEF ControlOK, ProcessingRounds
    <3>3. CASE BeginRound
      BY <3>1, <3>3, InitOnce DEF BeginRound, Resting
    <3>4. CASE Stores \/ construct_proof \/ PanicInRound \/ UNCHANGED vars
      BY <3>1, <3>4 DEF Stores, StoreWitness, construct_proof, PanicInRound, vars,
         transcriptVars, proverVars
    <3>5. ~ Blinds /\ ~ Divides /\ ~ execute_first_round /\ ~ execute_second_round
          /\ ~ execute_third_round /\ ~ execute_fifth_round /\ ~ execute_sixth_round
      BY <3>1 DEF Blinds, execute_preamble_round, Divides, execute_fourth_round,
         execute_first_round, execute_second_round, execute_third_round,
         execute_fifth_round, execute_sixth_round, In
    <3>6. ~ export_proof /\ ~ ProcessItem(Held) /\ ~ PanicOnItem /\ ~ FinishRound
      BY <3>1, <3>2 DEF export_proof, ProcessItem, PanicOnItem, InHand, FinishRound, FinishQueue
    <3> QED
      BY <2>3, <3>3, <3>4, <3>5, <3>6 DEF Next, Process, Stopped, Stores, Blinds, Divides
  <2> QED
    BY <2>1, <2>2, <2>3
<1>4. ~ HasCommitment /\ HasCommitment' => ProcessItem(Held) /\ round = "first" /\ UNCHANGED proverVars
  BY CommitmentNext DEF HasCommitment
<1>5. ~ HasQuotient /\ HasQuotient' =>
         ProcessItem(Held) /\ round = "fourth" /\ processing /\ UNCHANGED proverVars
  BY QuotientNext DEF HasQuotient
<1>6. \/ round' = "preamble" /\ begun' => round = "preamble" /\ begun
      \/ BeginRound /\ round = "preamble"
  BY RoundNext, RoundsInOrder DEF StaysIn, Queues, construct_proof, NewProver, BeginRound,
     FinishRound, FinishQueue, ControlOK, ProcessingRounds
<1>7. round' = "preamble" /\ begun' => ~ HasCommitment'
  BY <1>4, <1>6, InitOnce DEF Begins, proverVars
<1>8. ASSUME \/ round' = "preamble" /\ begun'
             \/ round' \in {"first", "second", "third"}
             \/ round' = "fourth" /\ Idle'
      PROVE  ~ HasQuotient'
  <2>1. CASE BeginRound /\ round = "preamble"
    BY <2>1, InitOnce
  <2>2. CASE ~ BeginRound \/ round # "preamble"
    <3> DEFINE Before == \/ round = "preamble" /\ begun
                         \/ round \in {"first", "second", "third"}
                         \/ round = "fourth" /\ Idle
    <3>1. CASE FinishRound
      <4>1. round \in ProcessingRounds /\ begun /\ round' = RoundAfter(round)
        BY <3>1 DEF FinishRound, FinishQueue, ControlOK
      <4>2. Before
        BY <1>8, <4>1, RoundsInOrder DEF ProcessingRounds
      <4> QED
        BY <3>1, <4>2, <1>5 DEF Begins, FinishRound, FinishQueue, ProcessItem, InHand
    <3>2. CASE ~ FinishRound
      <4>1. CASE StaysIn \/ Queues \/ BeginRound
        <5>1. UNCHANGED round
          BY <4>1 DEF StaysIn, Queues, BeginRound
        <5>2. Before
          BY <1>6, <1>8, <2>2, <3>2, <5>1, IdleNext
        <5> QED
          BY <1>5, <1>8, <5>1, <5>2, IdleNext, <3>2 DEF Begins, ProcessItem, InHand, Idle
      <4>2. CASE construct_proof \/ NewProver
        BY <1>8, <4>2 DEF construct_proof, NewProver
      <4> QED
        BY <1>8, <3>2, <4>1, <4>2, RoundNext
    <3> QED
      BY <3>1, <3>2
  <2> QED
    BY <2>1, <2>2
<1>9. QED
  BY <1>3, <1>7, <1>8 DEF Begins

-----------------------------------------------------------------------------
(* The wires: what is stored, blinded and interpolated.                      *)

(* Blinding writes three rows past the public inputs and nothing else.       *)
LEMMA BlindedRows ==
    ASSUME NEW p, NEW d, IsPolynomial(p), DOMAIN p.coefficients = 0 .. n - 1
    PROVE  /\ DOMAIN Blinded(p, d).coefficients = 0 .. n - 1
           /\ \A k \in 0 .. 2 : Row(k) \in 0 .. n - 1 /\ Blinded(p, d).coefficients[Row(k)] = d[k]
           /\ \A k \in 0 .. n - 1 : k \notin Row(0) .. Row(2) =>
                 Blinded(p, d).coefficients[k] = p.coefficients[k]
<1>1. n \in Nat /\ n >= 4
  BY Wires
<1>2. Blinded(p, d).coefficients =
        [k \in 0 .. n - 1 |-> IF k - (n - 4) \in 0 .. 2 THEN d[k - (n - 4)]
                             ELSE p.coefficients[k]]
  BY DEF Blinded, IsPolynomial, num_roots_cut_out_of_vanishing_polynomial
<1>3. PICK b : b = Blinded(p, d).coefficients
  OBVIOUS
<1>4. \A k \in 0 .. 2 : Row(k) = n - 4 + k
  BY DEF Row, num_roots_cut_out_of_vanishing_polynomial
<1>5. PICK m \in Nat : m = n
  BY <1>1
<1>6. b = [k \in 0 .. m - 1 |-> IF k - (m - 4) \in 0 .. 2 THEN d[k - (m - 4)]
                               ELSE p.coefficients[k]]
  BY <1>2, <1>3, <1>5
<1>7. \A k \in 0 .. 2 : /\ m - 4 + k \in 0 .. m - 1
                        /\ (m - 4 + k) - (m - 4) = k
  BY <1>1, <1>5
<1>8. \A k \in 0 .. 2 : b[m - 4 + k] = d[k]
  BY <1>6, <1>7
<1>9. \A k \in 0 .. m - 1 : k \notin (m - 4) .. (m - 2) => b[k] = p.coefficients[k]
  BY <1>6, <1>5, <1>1
<1>10. QED
  BY <1>1, <1>3, <1>4, <1>5, <1>6, <1>7, <1>8, <1>9

LEMMA WitnessNext ==
    ASSUME HeapOK, HeldOK, WitnessKept, HeapStep, [Next]_vars
    PROVE  WitnessKept'
<1> DEFINE Lag(i) == Lagrange(WireTags[i])
           As(i, p) == /\ DOMAIN p.coefficients = 0 .. n - 1
                       /\ \A k \in 0 .. n - 1 : k \notin Row(0) .. Row(2) =>
                             p.coefficients[k] = witness[i].coefficients[k]
<1>1. \A i \in WireIndices : contains(Lag(i)) => As(i, Stored(Lag(i)))
  BY DEF WitnessKept, Evaluations
<1>2. SUFFICES \A i \in WireIndices : contains(Lag(i))' => As(i, Stored(Lag(i))')
  BY DEF WitnessKept, Evaluations, Row, n
<1>3. \A i \in WireIndices : Lag(i) \in Names
  BY KeyAssumption
<1>4. CASE ~ Stores /\ ~ Blinds
  <2>1. LagrangesKept
    BY <1>4 DEF HeapStep
  <2> QED
    BY <1>1, <2>1 DEF LagrangesKept, contains, get
<1>5. CASE Stores
  <2>1. PICK i \in WireIndices : StoreWitness(i)
    BY <1>5 DEF Stores
  <2>2. KeptBut({Lag(i)}) /\ Stored(Lag(i))' = witness[i]
    BY <2>1, StoreEffect
  <2>3. As(i, witness[i])
    BY KeyAssumption
  <2>4. \A j \in WireIndices \ {i} : Lag(j) # Lag(i)
    BY Wires, NamesApart
  <2>5. \A j \in WireIndices \ {i} : contains(Lag(j))' =>
           contains(Lag(j)) /\ Stored(Lag(j))' = Stored(Lag(j))
    BY <1>3, <2>2, <2>4 DEF KeptBut, contains, Stored, get
  <2> HIDE DEF As, Lag
  <2> QED
    BY <1>1, <2>2, <2>3, <2>5
<1>6. CASE Blinds
  <2>1. PICK draws \in WireDraws : execute_preamble_round(draws)
    BY <1>6 DEF Blinds
  <2>2. /\ UNCHANGED polynomial_map
        /\ \A i \in WireIndices : contains(Lag(i)) =>
              \/ Stored(Lag(i))' = Stored(Lag(i))
              \/ Stored(Lag(i))' = Blinded(Stored(Lag(i)), draws[i])
    BY <2>1, PreambleEffect
  <2>3. \A i \in WireIndices : contains(Lag(i)) => IsPolynomial(Stored(Lag(i)))
    BY <1>3 DEF HeapOK, Stored
  <2>4. ASSUME NEW i \in WireIndices, contains(Lag(i))
        PROVE  As(i, Blinded(Stored(Lag(i)), draws[i]))
    <3>1. PICK p, d : p = Stored(Lag(i)) /\ d = draws[i]
      OBVIOUS
    <3>2. IsPolynomial(p) /\ As(i, p)
      BY <1>1, <2>3, <2>4, <3>1
    <3>3. As(i, Blinded(p, d))
      BY <3>2, BlindedRows
    <3> QED
      BY <3>1, <3>3
  <2>5. \A i \in WireIndices : contains(Lag(i))' => contains(Lag(i))
    BY <2>2 DEF contains, get
  <2> HIDE DEF As, Lag
  <2> QED
    BY <1>1, <2>2, <2>4, <2>5
<1>7. QED
  BY <1>4, <1>5, <1>6

LEMMA BlindedNext ==
    ASSUME IInv, HeapStep, [Next]_vars
    PROVE  BlindedInTime'
<1> USE DEF IInv
<1>1. SUFFICES ASSUME HasCommitment' \/ round' \in LaterRounds
                         \/ (round' = "preamble" /\ processing')
               PROVE  WiresBlinded'
  BY DEF BlindedInTime, LaterRounds
<1>2. CASE Blinds
  <2>1. PICK draws \in WireDraws : execute_preamble_round(draws)
    BY <1>2 DEF Blinds
  <2>2. /\ In("preamble")
        /\ UNCHANGED elements
        /\ round' # "err" \/ ~ processing'
        /\ round' \in {"err", "preamble"}
    BY <2>1, PreambleControl DEF transcriptVars, queueVars, In, Idle
  <2>3. ~ HasCommitment'
    BY <2>2 DEF In, Begins, HasCommitment, has_element
  <2>4. round' # "err"
    BY <1>1, <2>2, <2>3 DEF LaterRounds
  <2>5. \A i \in WireIndices :
           /\ contains(Lagrange(WireTags[i]))
           /\ Stored(Lagrange(WireTags[i]))' =
                  Blinded(Stored(Lagrange(WireTags[i])), draws[i])
           /\ polynomial_map' = polynomial_map
    BY <2>1, <2>4, PreambleEffect
  <2>6. ASSUME NEW i \in WireIndices
        PROVE  /\ contains(Lagrange(WireTags[i]))'
               /\ \A k \in 0 .. 2 : Evaluations(i)'[Row(k)] = draws[i][k]
    <3>1. PICK p, d : p = Stored(Lagrange(WireTags[i])) /\ d = draws[i]
      OBVIOUS
    <3>2. IsPolynomial(p) /\ DOMAIN p.coefficients = 0 .. n - 1
      BY <2>5, <3>1, KeyAssumption DEF HeapOK, Stored, WitnessKept, Evaluations
    <3>3. \A k \in 0 .. 2 : Blinded(p, d).coefficients[Row(k)] = d[k]
      BY <3>2, BlindedRows
    <3>4. Evaluations(i)' = Blinded(p, d).coefficients
      BY <2>5, <3>1 DEF Evaluations
    <3> QED
      BY <2>5, <3>1, <3>3, <3>4 DEF contains, get
  <2> QED
    BY <2>6 DEF WiresBlinded, Row, n
<1>3. CASE ~ Blinds
  <2>1. HasCommitment' => HasCommitment \/ round = "first"
    BY CommitmentNext DEF HasCommitment
  <2>2. HasCommitment \/ round \in LaterRounds \/ (round = "preamble" /\ processing)
    <3>1. CASE HasCommitment'
      BY <2>1, <3>1 DEF LaterRounds
    <3>2. CASE round' \in LaterRounds
      BY <1>3, <3>2, RoundNext DEF StaysIn, Queues, construct_proof, NewProver, BeginRound,
         FinishRound, FinishQueue, ControlOK, ProcessingRounds, LaterRounds
    <3>3. CASE round' = "preamble" /\ processing'
      <4>1. ~ Queues
        BY <1>3, <3>3 DEF Next, Process, Stopped, Queues, StoreWitness, construct_proof,
           NewProver, BeginRound, flush_queue, export_proof, execute_first_round,
           execute_second_round, execute_third_round, execute_fourth_round,
           execute_fifth_round, execute_sixth_round, FinishRound, FinishQueue, PanicInRound,
           ProcessItem, PanicOnItem, InHand, In, Idle, Blinds, vars, proverVars, queueVars
      <4> QED
        BY <1>3, <3>3, <4>1, RoundNext DEF StaysIn, construct_proof, NewProver, BeginRound,
           flush_queue, FinishRound, FinishQueue, Idle, queueVars
    <3> QED
      BY <1>1, <3>1, <3>2, <3>3
  <2>3. WiresBlinded
    BY <2>2 DEF BlindedInTime
  <2>4. ~ Stores
    BY <2>3 DEF WiresBlinded, Stores, StoreWitness
  <2>5. LagrangesKept
    BY <1>3, <2>4 DEF HeapStep
  <2>6. \A i \in WireIndices : contains(Lagrange(WireTags[i])) =>
           contains(Lagrange(WireTags[i]))' /\ Evaluations(i)' = Evaluations(i)
    BY <2>5 DEF LagrangesKept, contains, get, Evaluations
  <2> QED
    BY <2>3, <2>6 DEF WiresBlinded, Row, n
<1>4. QED
  BY <1>2, <1>3

(* A wire interpolated stays so while neither its name is written nor what   *)
(* it was interpolated from.                                                 *)
LEMMA StaysInterpolated ==
    ASSUME NEW i \in WireIndices, NEW written, KeptBut(written), LagrangesKept,
           contains(Lagrange(WireTags[i])),
           Monomial(WireTags[i]) \notin written, Interpolated(i)
    PROVE  Interpolated(i)'
<1>1. PICK mono : mono = Monomial(WireTags[i])
  OBVIOUS
<1>2. mono \in Names \ written
  BY <1>1, KeyAssumption
<1>3. contains(mono) /\ Stored(mono).coefficients = ifft(Evaluations(i))
  BY <1>1 DEF Interpolated
<1>4. contains(mono)' /\ Stored(mono)' = Stored(mono)
  BY <1>2, <1>3 DEF KeptBut, contains, get, Stored
<1>5. Evaluations(i)' = Evaluations(i)
  BY DEF LagrangesKept, Evaluations
<1>6. QED
  BY <1>1, <1>3, <1>4, <1>5 DEF Interpolated

(* An inverse FFT of the preamble interpolates the next wire.                *)
LEMMA InterpolatesNext ==
    ASSUME IInv, HeapStep, WiresBlinded, ProcessItem(Held), round = "preamble"
    PROVE  \A i \in WireIndices : i <= queue_pos + 1 => Interpolated(i)'
<1> USE DEF IInv
<1>1. PICK q : q = queue_pos + 1
  OBVIOUS
<1>2. PICK item : item = item_in_hand
  OBVIOUS
<1>3. InHand /\ q \in 1 .. Len(work_items) /\ processing
  BY <1>1, InHandOK DEF ProcessItem, InHand
<1>4. work_items = [i \in WireIndices |-> Ifft(WireTags[i])]
  BY <1>3 DEF RoundItems
<1>5. q \in WireIndices /\ item = Ifft(WireTags[q])
  BY <1>1, <1>2, <1>3, <1>4 DEF QueueOK, item_in_hand
<1>6. item.work = "Ifft" /\ item.tag = WireTags[q]
  BY <1>5 DEF Ifft, Item
<1>7. DoIfft(item, Held)
  BY <1>2, <1>6 DEF ProcessItem
<1>8. /\ KeptBut({Monomial(item.tag)})
      /\ contains(Monomial(item.tag))'
      /\ Stored(Monomial(item.tag))' = IfftOf(Stored(Lagrange(item.tag)))
  BY <1>2, <1>3, <1>6, <1>7, IfftEffect
<1>9. \A i \in WireIndices : contains(Lagrange(WireTags[i]))
  BY DEF WiresBlinded
<1>10. LagrangesKept
  BY <1>8, KeptLagranges, NamesApart
<1>11. Interpolated(q)'
  <2>1. Evaluations(q)' = Evaluations(q)
    BY <1>5, <1>9, <1>10 DEF LagrangesKept, Evaluations
  <2>2. IfftOf(Stored(Lagrange(WireTags[q]))).coefficients = ifft(Evaluations(q))
    BY DEF IfftOf, Evaluations
  <2> QED
    BY <1>6, <1>8, <2>1, <2>2 DEF Interpolated
<1>12. ASSUME NEW i \in WireIndices, i <= queue_pos
       PROVE  Interpolated(i)'
  <2>1. Interpolated(i)
    BY <1>3, <1>12 DEF InterpolatedInTime
  <2>2. i # q
    BY <1>1, <1>12, Wires DEF QueueOK
  <2>3. Monomial(WireTags[i]) # Monomial(WireTags[q])
    BY <1>5, <2>2, Wires, NamesApart
  <2> QED
    BY <1>6, <1>8, <1>9, <1>10, <2>1, <2>3, StaysInterpolated
<1>13. \A i \in WireIndices : i <= queue_pos + 1 => i <= queue_pos \/ i = q
  BY <1>1, Wires DEF QueueOK
<1>14. QED
  BY <1>11, <1>12, <1>13

LEMMA InterpolatedNext ==
    ASSUME IInv, HeapStep, [Next]_vars
    PROVE  InterpolatedInTime'
<1> USE DEF IInv
<1> DEFINE Blinding == round \in LaterRounds \/ (round = "preamble" /\ processing)
<1>1. Blinding => WiresBlinded
  BY DEF BlindedInTime
<1>2. Blinding => \A i \in WireIndices : contains(Lagrange(WireTags[i]))
  BY <1>1 DEF WiresBlinded
<1>3. ASSUME round' = "preamble", processing'
      PROVE  \A i \in WireIndices : i <= queue_pos' => Interpolated(i)'
  <2>1. CASE Blinds
    <3>1. PICK draws \in WireDraws : execute_preamble_round(draws)
      BY <2>1 DEF Blinds
    <3>2. QueueAndProcess([i \in WireIndices |-> Ifft(WireTags[i])]) /\ In("preamble")
      BY <1>3, <3>1, PreambleControl
    <3>3. queue_pos' = 0
      BY <3>2, PreambleItems
    <3> QED
      BY <3>3, Wires
  <2>2. CASE ProcessItem(Held) /\ UNCHANGED proverVars
    <3>1. round = "preamble" /\ processing /\ queue_pos' = queue_pos + 1
      BY <1>3, <2>2 DEF ProcessItem, InHand, proverVars
    <3> QED
      BY <1>1, <2>2, <3>1, InterpolatesNext
  <2>3. CASE UNCHANGED vars
    BY <1>3, <2>3 DEF vars, queueVars, proverVars, storeVars, InterpolatedInTime,
       Interpolated, Evaluations, Stored, contains, get
  <2>4. CASE ~ Blinds /\ ~ (ProcessItem(Held) /\ UNCHANGED proverVars) /\ ~ UNCHANGED vars
    BY <1>3, <2>4 DEF Next, Process, Stopped, StoreWitness, construct_proof,
       NewProver, BeginRound, flush_queue, export_proof, execute_first_round,
       execute_second_round, execute_third_round, execute_fourth_round,
       execute_fifth_round, execute_sixth_round, FinishRound, FinishQueue, PanicInRound,
       PanicOnItem, In, Idle, Blinds, proverVars, queueVars
  <2> QED
    BY <2>1, <2>2, <2>3, <2>4
<1>4. ASSUME round' = "first", Idle'
      PROVE  \A i \in WireIndices : Interpolated(i)'
  <2>1. CASE FinishRound
    <3>1. round = "preamble" /\ processing /\ queue_pos = Len(work_items)
      BY <1>4, <2>1, RoundsInOrder DEF FinishRound, FinishQueue, ControlOK, ProcessingRounds
    <3>2. \A i \in WireIndices : Interpolated(i)
      BY <3>1, Wires DEF InterpolatedInTime, RoundItems, QueueOK
    <3>3. KeptBut({})
      BY <2>1, DropEffect DEF FinishRound, FinishQueue
    <3>4. LagrangesKept
      BY <3>3, KeptLagranges
    <3> QED
      BY <1>2, <3>1, <3>2, <3>3, <3>4, StaysInterpolated
  <2>2. CASE BeginRound
    <3>1. round = "first" /\ Idle
      BY <1>4, <2>2 DEF BeginRound
    <3>2. \A i \in WireIndices : Interpolated(i)
      BY <3>1 DEF InterpolatedInTime
    <3>3. KeptBut({})
      BY <2>2, DropEffect DEF BeginRound, flush_queue
    <3>4. LagrangesKept
      BY <3>3, KeptLagranges
    <3> QED
      BY <1>2, <3>1, <3>2, <3>3, <3>4, StaysInterpolated DEF LaterRounds
  <2>3. CASE UNCHANGED vars
    BY <1>4, <2>3 DEF vars, queueVars, proverVars, storeVars, InterpolatedInTime,
       Interpolated, Evaluations, Stored, contains, get, Idle
  <2>4. CASE ~ FinishRound /\ ~ BeginRound /\ ~ UNCHANGED vars
    <3>1. Idle
      BY <1>4, <2>4, IdleNext
    <3> QED
      BY <1>4, <2>4, <3>1, RoundsInOrder DEF Next, Process, Stopped, StoreWitness, construct_proof,
       NewProver, export_proof, execute_first_round, execute_preamble_round,
       execute_second_round, execute_third_round, execute_fourth_round, QueueAndProcess,
       execute_fifth_round, execute_sixth_round, PanicInRound, ProcessItem, InHand,
       PanicOnItem, In, Idle, proverVars, queueVars, Resting
  <2> QED
    BY <2>1, <2>2, <2>3, <2>4
<1>5. ASSUME round' = "first", processing'
      PROVE  \A i \in WireIndices : queue_pos' < i =>
                (cells[work_items[i].mul_scalars].coefficients)' = ifft(Evaluations(i))'
  <2>1. CASE execute_first_round
    <3>1. \A i \in WireIndices :
             work_items'[i] = commit(get(Monomial(WireTags[i])), CommitTags[i],
                                     domain_size_flag(i))
      BY <2>1, FirstItems
    <3>2. ASSUME NEW i \in WireIndices
          PROVE  work_items'[i].mul_scalars = get(Monomial(WireTags[i]))
      <4>1. PICK r, tag, flag : /\ r = get(Monomial(WireTags[i]))
                               /\ tag = CommitTags[i] /\ flag = domain_size_flag(i)
        OBVIOUS
      <4>2. commit(r, tag, flag).mul_scalars = r
        BY DEF commit, ScalarMultiplication, Item
      <4> QED
        BY <3>1, <4>1, <4>2
    <3>3. \A i \in WireIndices : Interpolated(i)
      BY <2>1 DEF execute_first_round, In, InterpolatedInTime
    <3>4. UNCHANGED storeVars
      BY <2>1 DEF execute_first_round
    <3> QED
      BY <3>2, <3>3, <3>4 DEF Interpolated, Stored, get, Evaluations, storeVars
  <2>2. CASE ProcessItem(Held) /\ UNCHANGED proverVars
    <3>1. /\ round = "first" /\ processing
          /\ queue_pos' = queue_pos + 1 /\ UNCHANGED work_items
          /\ InHand
      BY <1>5, <2>2 DEF ProcessItem, InHand, proverVars
    <3>2. SUFFICES ASSUME NEW i \in WireIndices, queue_pos + 1 < i
                   PROVE  cells'[work_items[i].mul_scalars].coefficients = ifft(Evaluations(i)')
      BY <3>1
    <3>3. queue_pos + 1 \in WireIndices /\ queue_pos < i
      BY <3>1, <3>2, Wires DEF QueueOK
    <3>4. PICK item : item = item_in_hand
      OBVIOUS
    <3>5. item.work = "ScalarMultiplication"
      BY <3>1, <3>3, <3>4 DEF RoundItems, Commits, item_in_hand
    <3>6. UNCHANGED storeVars
      BY <2>2, <3>4, <3>5, ItemEffect
    <3>7. cells[work_items[i].mul_scalars].coefficients = ifft(Evaluations(i))
      BY <3>1, <3>3 DEF InterpolatedInTime
    <3> QED
      BY <3>6, <3>7 DEF Evaluations, Stored, get, storeVars
  <2>3. CASE UNCHANGED vars
    BY <1>5, <2>3 DEF vars, queueVars, proverVars, storeVars, InterpolatedInTime,
       Evaluations, Stored, get
  <2>4. CASE ~ execute_first_round /\ ~ (ProcessItem(Held) /\ UNCHANGED proverVars)
             /\ ~ UNCHANGED vars
    BY <1>5, <2>4 DEF Next, Process, Stopped, StoreWitness, construct_proof,
       NewProver, BeginRound, flush_queue, export_proof, execute_preamble_round,
       execute_second_round, execute_third_round, execute_fourth_round,
       execute_fifth_round, execute_sixth_round, FinishRound, FinishQueue, PanicInRound,
       PanicOnItem, In, Idle, proverVars, queueVars
  <2> QED
    BY <2>1, <2>2, <2>3, <2>4
<1>6. QED
  BY <1>3, <1>4, <1>5 DEF InterpolatedInTime, Interpolated

(* The rows that are read in the first round are those that were stored.     *)
LEMMA PublicInputsNext ==
    ASSUME IInv, [Next]_vars
    PROVE  PublicInputsAreTheWitness'
<1> USE DEF IInv
<1>1. SUFFICES ASSUME has_element("public_inputs")'
               PROVE  elements'["public_inputs"] =
                        SerializeVector([i \in 1 .. num_public_inputs |->
                                            witness[2].coefficients[i - 1]])
  BY DEF PublicInputsAreTheWitness, SerializeVector, Serialize, Chunk
<1>2. CASE has_element("public_inputs") /\ elements'["public_inputs"] = elements["public_inputs"]
  BY <1>2 DEF PublicInputsAreTheWitness
<1>3. CASE execute_first_round /\ elements'["public_inputs"] = SerializeVector(public_wires)
  <2>1. WiresBlinded
    BY <1>3 DEF BlindedInTime, LaterRounds, execute_first_round, In
  <2>2. 2 \in WireIndices /\ WireTags[2] = "w_2"
    BY Wires DEF WireTags
  <2>3. contains(Lagrange("w_2"))
    BY <2>1, <2>2 DEF WiresBlinded
  <2>4. \A k \in 0 .. n - 1 : k \notin Row(0) .. Row(2) =>
           Stored(Lagrange("w_2")).coefficients[k] = witness[2].coefficients[k]
    BY <2>2, <2>3 DEF WitnessKept, Evaluations
  <2>5. \A i \in 1 .. num_public_inputs : i - 1 \in 0 .. n - 1 /\ i - 1 \notin Row(0) .. Row(2)
    BY Wires DEF Row, num_roots_cut_out_of_vanishing_polynomial
  <2>6. public_wires = [i \in 1 .. num_public_inputs |-> witness[2].coefficients[i - 1]]
    BY <2>4, <2>5 DEF public_wires
  <2> QED
    BY <1>3, <2>6
<1>4. CASE /\ ProcessItem(Held)
           /\ item_in_hand.work = "ScalarMultiplication"
           /\ item_in_hand.tag = "public_inputs"
  <2>1. 1 \in WireIndices
    BY Wires
  <2> QED
    BY <1>4, <2>1, CommitsInTurn DEF ProcessItem
<1>5. QED
  BY <1>1, <1>2, <1>3, <1>4, ElementsNext, OwnElements

-----------------------------------------------------------------------------
(* The invariant.                                                            *)

LEMMA InvariantInit == Init => IInv
<1> SUFFICES ASSUME Init
             PROVE  IInv
  OBVIOUS
<1>1. /\ work_items = <<>> /\ queue_pos = 0 /\ ~ processing /\ panic = "no"
      /\ elements = <<>> /\ current_round = 0
      /\ round = "new" /\ begun = FALSE /\ widgets \in WidgetRounds
  BY DEF Init, QueueInit, TranscriptInit
<1>2. polynomial_map = [name \in Names |-> NoRef]
  BY DEF Init
<1>3. cells = [r \in Refs |->
                  IF r \in PartRefs \ {Part(4)} THEN new_polynomial(n + 1)
                  ELSE IF r = Part(4) THEN new_polynomial(n) ELSE Freed]
  BY DEF Init
<1>4. \A name \in Names : ~ contains(name) /\ get(name) = NoRef
  BY <1>2 DEF contains, get
<1>5. \A k : /\ IsPolynomial(new_polynomial(k))
             /\ DOMAIN new_polynomial(k).coefficients = 0 .. k - 1
  BY DEF IsPolynomial, new_polynomial
<1>6. \A i \in 1 .. 4 : cells[Part(i)] = IF i < 4 THEN new_polynomial(n + 1) ELSE new_polynomial(n)
  BY <1>3, Parts4
<1>7. \A i \in 1 .. 4 : /\ IsPolynomial(cells[Part(i)])
                        /\ DOMAIN cells[Part(i)].coefficients = PartIndices(i)
  <2>1. (n + 1) - 1 = n
    BY Wires
  <2> QED
    BY <1>5, <1>6, <2>1 DEF PartIndices
<1>8. HeapOK
  <2>1. MapTypeOK
    BY <1>2 DEF MapTypeOK
  <2>2. NoAliasing
    BY <1>4 DEF NoAliasing
  <2> QED
    BY <1>3, <1>4, <1>7, <2>1, <2>2 DEF HeapOK
<1>9. HeldOK
  BY <1>1, <1>7, NoItems, Parts4 DEF HeldOK, Held, PartRefs
<1>10. QueueOK /\ RoundItems
  BY <1>1 DEF QueueOK, RoundItems
<1>11. num_rounds \in Nat
  BY RoundsAssumption
<1>12. ControlOK
  BY <1>1, <1>11 DEF ControlOK
<1>13. ~ HasCommitment /\ ~ HasQuotient /\ ~ has_element("public_inputs")
  BY <1>1 DEF HasCommitment, HasQuotient, has_element
<1>14. Begins
  BY <1>1, <1>13 DEF Begins
<1>15. WitnessKept
  BY <1>4, KeyAssumption DEF WitnessKept
<1>16. BlindedInTime
  BY <1>1, <1>13 DEF BlindedInTime, LaterRounds
<1>17. InterpolatedInTime
  BY <1>1 DEF InterpolatedInTime
<1>18. PublicInputsAreTheWitness
  BY <1>13 DEF PublicInputsAreTheWitness
<1>19. QED
  BY <1>8, <1>9, <1>10, <1>12, <1>14, <1>15, <1>16, <1>17, <1>18 DEF IInv

LEMMA InvariantNext == IInv /\ [Next]_vars => IInv'
<1> SUFFICES ASSUME IInv, [Next]_vars
             PROVE  IInv'
  OBVIOUS
<1>1. HeapOK /\ HeldOK /\ QueueOK /\ ControlOK /\ RoundItems /\ Begins /\ WitnessKept
  BY DEF IInv
<1>2. HeapStep
  BY <1>1, HeapNext
<1>3. HeapOK'
  BY <1>2 DEF HeapStep
<1>4. ControlOK' /\ Begins' /\ WitnessKept'
  BY <1>1, <1>2, ControlNext, BeginsNext, WitnessNext
<1>5. QueueOK' /\ HeldOK' /\ RoundItems'
  BY <1>2, QueueNext
<1>6. BlindedInTime' /\ InterpolatedInTime' /\ PublicInputsAreTheWitness'
  BY <1>2, BlindedNext, InterpolatedNext, PublicInputsNext
<1>7. QED
  BY <1>3, <1>4, <1>5, <1>6 DEF IInv

LEMMA Invariant == Spec => []IInv
BY InvariantInit, InvariantNext, PTL DEF Spec

-----------------------------------------------------------------------------
(* What the invariant says by itself.                                        *)

(* Names and queued items lead to allocated cells, whatever was put, dropped *)
(* or written through references, in any order and up to any panic.          *)
THEOREM ProverTypeCorrect == Spec => []TypeOK
<1>1. IInv => TypeOK
  <2> SUFFICES ASSUME IInv
               PROVE  TypeOK
    OBVIOUS
  <2>1. HeapOK /\ HeldOK /\ QueueOK /\ ControlOK
    BY DEF IInv
  <2>2. \A name \in Names : contains(name) =>
           get(name) \notin PartRefs /\ cells[get(name)] # Freed
    BY <2>1, KeyAssumption DEF HeapOK
  <2>3. \A r \in Held : cells[r] # Freed
    BY <2>1, KeyAssumption DEF HeldOK
  <2>4. Resting \/ \E i \in DOMAIN Rounds : round = Rounds[i]
    <3>1. DOMAIN Rounds = 1 .. 8
      BY DEF Rounds
    <3>2. /\ Rounds[1] = "preamble" /\ Rounds[2] = "first" /\ Rounds[3] = "second"
          /\ Rounds[4] = "third" /\ Rounds[5] = "fourth" /\ Rounds[6] = "fifth"
          /\ Rounds[7] = "sixth" /\ Rounds[8] = "export"
      BY DEF Rounds
    <3> QED
      BY <2>1, <3>1, <3>2 DEF Resting, ControlOK, LaterRounds
  <2> QED
    BY <2>1, <2>2, <2>3, <2>4 DEF TypeOK, HeapOK, QueueOK, ControlOK
<1>2. QED
  BY <1>1, Invariant, PTL

(* Every round leaves an empty queue, the fifth that processes none too.     *)
THEOREM NothingIsDropped == Spec => []NothingQueuedIsDropped
<1>1. IInv => NothingQueuedIsDropped
  BY DEF IInv, ControlOK, NothingQueuedIsDropped
<1>2. QED
  BY <1>1, Invariant, PTL

(* The public inputs that are sent are those of the witness: blinding stays  *)
(* past them, in every proof made with the key.                              *)
THEOREM PublicInputsSent == Spec => []PublicInputsAreTheWitness
<1>1. IInv => PublicInputsAreTheWitness
  BY DEF IInv
<1>2. QED
  BY <1>1, Invariant, PTL

-----------------------------------------------------------------------------
(* The commitments.                                                          *)

\* What a size is read back as, if it is small enough to go on.
SizesFit == \A k \in {n, n + 1} :
                field_element_to_usize(k) = k \/ field_element_to_usize(k) > monomial_size

\* An inverse FFT has as many coefficients as it is given evaluations.
IfftKeepsLength == \A e : DOMAIN e = 0 .. n - 1 => DOMAIN ifft(e) = 0 .. n - 1

\* A point past the last coefficient adds nothing.
PointsPastTheEnd == \A c : DOMAIN c = 0 .. n - 1 =>
                        pippenger_unsafe(c, n + 1) = pippenger_unsafe(c, n)

PrimitivesFit == SizesFit /\ IfftKeepsLength /\ PointsPastTheEnd

(* The size an item that does not panic is committed with.                   *)
LEMMA CommittedSize ==
    ASSUME SizesFit, NEW i \in WireIndices, NEW item, item = item_in_hand,
           Commits(item, CommitTags[i], i) \/ Commits(item, QuotientTags[i], i),
           ProcessItem(Held)
    PROVE  /\ msm_size(item) = domain_size_flag(i)
           /\ domain_size_flag(i) = IF i = 4 THEN n ELSE n + 1
<1>1. i \in 1 .. 4
  BY Wires
<1>2. domain_size_flag(i) = IF i = 4 THEN n ELSE n + 1
  BY <1>1 DEF domain_size_flag
<1>3. item.work = "ScalarMultiplication" /\ item.constant = domain_size_flag(i)
  BY DEF Commits
<1>4. PanicBefore(item) = "no"
  BY DEF ProcessItem
<1>5. ~ (msm_size(item) > monomial_size)
  BY <1>3, <1>4 DEF PanicBefore
<1>6. msm_size(item) = field_element_to_usize(domain_size_flag(i))
  BY <1>3 DEF msm_size
<1>7. domain_size_flag(i) \in {n, n + 1}
  BY <1>2
<1>8. QED
  BY <1>2, <1>5, <1>6, <1>7 DEF SizesFit

\* A wire's commitment, of the interpolation of what the key stores.
WireCommitted(i) ==
    elements[CommitTags[i]] =
        Serialize(G1Width, pippenger_unsafe(ifft(Evaluations(i)), n))

WiresCommitted == \A i \in WireIndices : has_element(CommitTags[i]) => WireCommitted(i)

LEMMA WiresCommittedNext ==
    ASSUME PrimitivesFit, IInv, WiresCommitted, [Next]_vars
    PROVE  WiresCommitted'
<1> USE DEF IInv
<1>1. SUFFICES ASSUME NEW i \in WireIndices, has_element(CommitTags[i])'
               PROVE  WireCommitted(i)'
  BY DEF WiresCommitted, WireIndices
<1>2. HeapStep
  BY HeapNext
<1>3. HasCommitment \/ round = "first"
  BY <1>1, CommitmentNext DEF HasCommitment
<1>4. WiresBlinded
  BY <1>3 DEF BlindedInTime, LaterRounds
<1>5. ~ Stores
  BY <1>4 DEF WiresBlinded, Stores, StoreWitness
<1>6. ~ Blinds
  BY <1>3 DEF Blinds, execute_preamble_round, In, Begins
<1>7. contains(Lagrange(WireTags[i]))
  BY <1>4 DEF WiresBlinded
<1>8. Evaluations(i)' = Evaluations(i)
  BY <1>2, <1>5, <1>6, <1>7 DEF HeapStep, LagrangesKept, Evaluations
<1>9. CASE has_element(CommitTags[i]) /\ elements'[CommitTags[i]] = elements[CommitTags[i]]
  BY <1>8, <1>9 DEF WiresCommitted, WireCommitted
<1>10. CASE /\ ProcessItem(Held)
            /\ round = "first" /\ processing
            /\ queue_pos + 1 = i
            /\ elements'[CommitTags[i]] = CommitmentOf(work_items[i])
  <2>1. PICK item : item = work_items[i]
    OBVIOUS
  <2>2. item = item_in_hand
    BY <1>10, <2>1 DEF item_in_hand
  <2>3. Commits(item, CommitTags[i], i)
    BY <1>10, <2>1 DEF RoundItems
  <2>4. msm_size(item) = IF i = 4 THEN n ELSE n + 1
    BY <1>10, <2>2, <2>3, CommittedSize DEF PrimitivesFit
  <2>5. cells[item.mul_scalars].coefficients = ifft(Evaluations(i))
    <3>1. queue_pos < i
      BY <1>10 DEF QueueOK
    <3> QED
      BY <1>10, <2>1, <3>1 DEF InterpolatedInTime
  <2>6. DOMAIN ifft(Evaluations(i)) = 0 .. n - 1
    BY <1>7 DEF WitnessKept, PrimitivesFit, IfftKeepsLength
  <2>7. pippenger_unsafe(ifft(Evaluations(i)), msm_size(item)) =
           pippenger_unsafe(ifft(Evaluations(i)), n)
    BY <2>4, <2>6 DEF PrimitivesFit, PointsPastTheEnd
  <2> QED
    BY <1>8, <1>10, <2>1, <2>5, <2>7 DEF WireCommitted, CommitmentOf
<1>11. QED
  BY <1>1, <1>9, <1>10, CommitmentNext

LEMMA PartsCommittedNext ==
    ASSUME PrimitivesFit, IInv, QuotientCommitmentsAreComplete, [Next]_vars
    PROVE  QuotientCommitmentsAreComplete'
<1> USE DEF IInv
<1>1. SUFFICES ASSUME NEW i \in WireIndices, has_element(QuotientTags[i])'
               PROVE  elements'[QuotientTags[i]] =
                        Serialize(G1Width, pippenger_unsafe(Parts[i]', n + 1))
  BY DEF QuotientCommitmentsAreComplete, WireIndices, n, Serialize, Chunk
<1>2. HeapStep
  BY HeapNext
<1>3. i \in 1 .. 4
  BY Wires
<1>4. HasQuotient \/ processing
  BY <1>1, QuotientNext DEF HasQuotient
<1>5. ~ Divides
  BY <1>4 DEF Divides, execute_fourth_round, In, Idle, Begins
<1>6. PartsKept
  BY <1>2, <1>5 DEF HeapStep
<1>7. Parts[i] = cells[Part(i)].coefficients /\ Parts[i]' = Parts[i]
  BY <1>3, <1>6 DEF Parts, PartsKept, Part
<1>8. CASE /\ has_element(QuotientTags[i])
           /\ elements'[QuotientTags[i]] = elements[QuotientTags[i]]
  BY <1>7, <1>8 DEF QuotientCommitmentsAreComplete
<1>9. CASE /\ ProcessItem(Held)
           /\ round = "fourth" /\ processing
           /\ queue_pos + 1 = i
           /\ elements'[QuotientTags[i]] = CommitmentOf(work_items[i])
  <2>1. PICK item : item = work_items[i]
    OBVIOUS
  <2>2. item = item_in_hand
    BY <1>9, <2>1 DEF item_in_hand
  <2>3. item = commit(Part(i), QuotientTags[i], domain_size_flag(i))
    BY <1>9, <2>1 DEF RoundItems
  <2>4. Commits(item, QuotientTags[i], i) /\ item.mul_scalars = Part(i)
    <3>1. PICK r, tag, flag : /\ r = Part(i)
                             /\ tag = QuotientTags[i] /\ flag = domain_size_flag(i)
      OBVIOUS
    <3>2. item = commit(r, tag, flag)
      BY <2>3, <3>1
    <3>3. /\ item.work = "ScalarMultiplication" /\ item.tag = tag
          /\ item.constant = flag /\ item.mul_scalars = r
      BY <3>2 DEF commit, ScalarMultiplication, Item
    <3> QED
      BY <3>1, <3>3 DEF Commits
  <2>5. msm_size(item) = IF i = 4 THEN n ELSE n + 1
    BY <1>9, <2>2, <2>4, CommittedSize DEF PrimitivesFit
  <2>6. i = 4 => DOMAIN Parts[i] = 0 .. n - 1
    BY <1>3, <1>7 DEF HeapOK, PartIndices
  <2>7. pippenger_unsafe(Parts[i], msm_size(item)) = pippenger_unsafe(Parts[i], n + 1)
    BY <2>5, <2>6 DEF PrimitivesFit, PointsPastTheEnd
  <2> QED
    BY <1>7, <1>9, <2>1, <2>4, <2>7 DEF CommitmentOf
<1>10. QED
  BY <1>1, <1>8, <1>9, QuotientNext

\* Nothing of either kind is sent at first.
LEMMA NothingCommitted ==
    ASSUME Init
    PROVE  WiresCommitted /\ QuotientCommitmentsAreComplete
BY DEF Init, TranscriptInit, has_element, WiresCommitted, QuotientCommitmentsAreComplete

(* The wires that are committed to are the ones that were blinded, as they   *)
(* were interpolated: the rounds that blind, interpolate and commit cannot   *)
(* be separated by another that rewrites what they share.                    *)
THEOREM WiresAreBlindedFirst ==
    ASSUME PrimitivesFit
    PROVE  Spec => []CommittedWiresAreBlinded
<1>1. ASSUME IInv, WiresCommitted
      PROVE  CommittedWiresAreBlinded
  <2> SUFFICES ASSUME NEW i \in WireIndices, has_element(CommitTags[i])
               PROVE  /\ elements[CommitTags[i]] =
                            Serialize(G1Width, pippenger_unsafe(ifft(Evaluations(i)), n))
                      /\ [k \in 0 .. 2 |-> Evaluations(i)[Row(k)]] \in {d[i] : d \in WireDraws}
    BY DEF CommittedWiresAreBlinded, Evaluations, Row
  <2>1. HasCommitment
    BY DEF HasCommitment
  <2>2. WiresBlinded
    BY <1>1, <2>1 DEF IInv, BlindedInTime
  <2>3. PICK draws \in WireDraws : \A k \in 0 .. 2 : Evaluations(i)[Row(k)] = draws[i][k]
    BY <2>2 DEF WiresBlinded
  <2>4. [k \in 0 .. 2 |-> Evaluations(i)[Row(k)]] = [k \in 0 .. 2 |-> draws[i][k]]
    BY <2>3
  <2>5. draws[i] = [k \in 0 .. 2 |-> draws[i][k]]
    BY KeyAssumption
  <2>6. WireCommitted(i)
    BY <1>1 DEF WiresCommitted
  <2> QED
    BY <2>4, <2>5, <2>6 DEF WireCommitted
<1>2. Init => IInv /\ WiresCommitted
  BY InvariantInit, NothingCommitted
<1>3. IInv /\ WiresCommitted /\ [Next]_vars => (IInv /\ WiresCommitted)'
  BY InvariantNext, WiresCommittedNext
<1>4. IInv /\ WiresCommitted => CommittedWiresAreBlinded
  BY <1>1
<1>5. QED
  BY <1>2, <1>3, <1>4, PTL DEF Spec

(* The commitments to the quotient's parts reach their last coefficients,    *)
(* and the parts are as they were committed to, to the end.                  *)
THEOREM PartsAreCommittedWhole ==
    ASSUME PrimitivesFit
    PROVE  Spec => []QuotientCommitmentsAreComplete
<1>1. Init => IInv /\ QuotientCommitmentsAreComplete
  BY InvariantInit, NothingCommitted
<1>2. IInv /\ QuotientCommitmentsAreComplete /\ [Next]_vars
         => (IInv /\ QuotientCommitmentsAreComplete)'
  BY InvariantNext, PartsCommittedNext
<1>3. QED
  BY <1>1, <1>2, PTL DEF Spec

-----------------------------------------------------------------------------
(* What the last challenge binds.                                            *)

\* The names of the elements that a round sends, with its widgets.
NamesOf(added) == DOMAIN added.elements \cup {item.tag : item \in ToSet(added.items)}

Sent(r, w) ==
    CASE r = "first" -> {"public_inputs"} \cup {CommitTags[i] : i \in WireIndices}
                        \cup NamesOf(w[1])
      [] r = "second" -> NamesOf(w[2])
      [] r = "third" -> NamesOf(w[3])
      [] r = "fourth" -> {QuotientTags[i] : i \in WireIndices}
      [] r = "fifth" -> {"t"} \cup DOMAIN OpeningElements
      [] OTHER -> {}

EntryNames(q) ==
    {round_manifests[q].elements[i].name : i \in DOMAIN round_manifests[q].elements}

Place == [preamble |-> 1, first |-> 2, second |-> 3, third |-> 4, fourth |-> 5,
          fifth |-> 6, sixth |-> 7, export |-> 8]

\* No element is sent in or after the round that begins by hashing it.
SentBeforeHashed ==
    \A w \in WidgetRounds, q \in 1 .. num_rounds, h \in DOMAIN Challenge, r \in LaterRounds :
        round_manifests[q].challenge = Challenge[h] /\ Place[h] <= Place[r] =>
            EntryNames(q) \cap Sent(r, w) = {}

EveryRoundHashes == \A q \in 1 .. num_rounds : round_manifests[q].num_challenges \in Nat \ {0}

ManifestFits == SentBeforeHashed /\ EveryRoundHashes

\* The challenges derived so far are those of the rounds so far.
DerivedInOrder ==
    /\ ~ InitDone => current_round = 0
    /\ round \in LaterRounds \/ (round = "preamble" /\ begun) =>
          \A q \in 1 .. current_round : \E h \in DOMAIN Challenge :
              /\ round_manifests[q].challenge = Challenge[h]
              /\ Place[h] <= Place[round]

\* A round queues commitments to what it is said to send.
ItemsAreSent ==
    processing => \A k \in 1 .. Len(work_items) :
        work_items[k].work = "ScalarMultiplication" => work_items[k].tag \in Sent(round, widgets)

HashedIsThere == \A q \in 1 .. current_round : \A name \in EntryNames(q) : has_element(name)

DataOf(q, elems) ==
    FlattenSeq([i \in DOMAIN round_manifests[q].elements |->
                   elems[round_manifests[q].elements[i].name]])

\* The challenges from the last one back, and what each is the hash of.
IsBack(f, c, m) == f = [k \in 0 .. m |-> IF k = 0 THEN c ELSE f[k - 1].of.previous]

ChainIs(c, m, elems) ==
    /\ \E f : IsBack(f, c, m)
    /\ \A f : IsBack(f, c, m) =>
          \A q \in 1 .. m : f[m - q].of.data = DataOf(q, elems)

ChainHolds == ChainIs(current_challenge, current_round, elements)

CInv == DerivedInOrder /\ ItemsAreSent /\ HashedIsThere /\ ChainHolds

(* A step of the chain: the challenges before the new one are as they were.  *)
LEMMA ChainGrows ==
    ASSUME NEW c, NEW m \in Nat, NEW elems, ChainIs(c, m, elems),
           NEW d, NEW e, d.of.previous = c, d.of.data = DataOf(m + 1, e),
           \A q \in 1 .. m : DataOf(q, e) = DataOf(q, elems)
    PROVE  ChainIs(d, m + 1, e)
<1>1. PICK f : IsBack(f, c, m)
  BY DEF ChainIs
<1> DEFINE g == [k \in 0 .. (m + 1) |-> IF k = 0 THEN d ELSE f[k - 1]]
<1>2. IsBack(g, d, m + 1)
  <2>1. ASSUME NEW k \in 1 .. (m + 1)
        PROVE  g[k] = g[k - 1].of.previous
    <3>1. CASE k = 1
      <4>1. g[1] = f[0] /\ g[0] = d
        OBVIOUS
      <4>2. f[0] = c
        BY <1>1 DEF IsBack
      <4> QED
        BY <3>1, <4>1, <4>2
    <3>2. CASE k # 1
      <4>1. k - 1 \in 1 .. m /\ k \in 0 .. (m + 1) /\ k - 1 \in 0 .. (m + 1) /\ k # 0 /\ k - 1 # 0
        BY <3>2
      <4>2. g[k] = f[k - 1] /\ g[k - 1] = f[(k - 1) - 1]
        BY <4>1
      <4>3. f[k - 1] = f[(k - 1) - 1].of.previous
        BY <1>1, <4>1 DEF IsBack
      <4> QED
        BY <4>2, <4>3
    <3> QED
      BY <3>1, <3>2
  <2>2. g = [k \in 0 .. (m + 1) |-> g[k]] /\ g[0] = d
    OBVIOUS
  <2> HIDE DEF g
  <2>3. ASSUME NEW k \in 0 .. (m + 1)
        PROVE  g[k] = IF k = 0 THEN d ELSE g[k - 1].of.previous
    <3>1. CASE k = 0
      BY <2>2, <3>1
    <3>2. CASE k # 0
      <4>1. k \in 1 .. (m + 1)
        BY <3>2
      <4>2. g[k] = g[k - 1].of.previous
        BY <2>1, <4>1
      <4> QED
        BY <3>2, <4>2
    <3> QED
      BY <3>1, <3>2
  <2>4. g = [k \in 0 .. (m + 1) |-> IF k = 0 THEN d ELSE g[k - 1].of.previous]
    BY <2>2, <2>3
  <2> QED
    BY <2>4 DEF IsBack
<1>3. ASSUME NEW h, IsBack(h, d, m + 1), NEW q \in 1 .. (m + 1)
      PROVE  h[(m + 1) - q].of.data = DataOf(q, e)
  <2>1. h[0] = d /\ \A k \in 1 .. (m + 1) : h[k] = h[k - 1].of.previous
    <3>1. h = [k \in 0 .. (m + 1) |-> IF k = 0 THEN d ELSE h[k - 1].of.previous]
      BY ONLY <1>3 DEF IsBack
    <3>2. \A k \in 0 .. (m + 1) :
            h[k] = IF k = 0 THEN d ELSE h[k - 1].of.previous
      BY ONLY <3>1
    <3>3. 0 \in 0 .. (m + 1) /\ \A k \in 1 .. (m + 1) : k \in 0 .. (m + 1) /\ k # 0
      BY ONLY m \in Nat
    <3> QED
      BY ONLY <3>2, <3>3
  <2> DEFINE b == [k \in 0 .. m |-> h[k + 1]]
  <2>2. h[1] = c
    <3>1. 1 \in 1 .. (m + 1) /\ 1 - 1 = 0
      BY ONLY m \in Nat
    <3>2. h[1] = h[0].of.previous
      BY ONLY <2>1, <3>1
    <3> QED
      BY <2>1, <3>2
  <2>3. \A k \in 1 .. m : h[k + 1] = h[k].of.previous
    <3> SUFFICES ASSUME NEW k \in 1 .. m
                 PROVE  h[k + 1] = h[k].of.previous
      OBVIOUS
    <3>1. k + 1 \in 1 .. (m + 1) /\ (k + 1) - 1 = k
      OBVIOUS
    <3> QED
      BY <2>1, <3>1
  <2>4. b[0] = c /\ \A k \in 1 .. m : b[k] = b[k - 1].of.previous
    BY <2>2, <2>3
  <2>5. b = [k \in 0 .. m |-> b[k]]
    OBVIOUS
  <2>6. \A k \in 0 .. m : b[k] = h[k + 1]
    OBVIOUS
  <2> HIDE DEF b
  <2>7. IsBack(b, c, m)
    <3>1. \A k \in 0 .. m : b[k] = IF k = 0 THEN c ELSE b[k - 1].of.previous
      BY <2>4
    <3>2. b = [k \in 0 .. m |-> IF k = 0 THEN c ELSE b[k - 1].of.previous]
      BY <2>5, <3>1
    <3> QED
      BY <3>2 DEF IsBack
  <2>8. CASE q = m + 1
    <3>1. h[(m + 1) - q] = d
      BY <2>1, <2>8
    <3> QED
      BY <2>8, <3>1
  <2>9. CASE q \in 1 .. m
    <3>1. m - q \in 0 .. m /\ (m - q) + 1 = (m + 1) - q
      BY <2>9
    <3>2. b[m - q].of.data = DataOf(q, elems)
      BY <2>7, <2>9 DEF ChainIs
    <3>3. h[(m + 1) - q] = b[m - q]
      BY <2>6, <3>1
    <3> QED
      BY <2>9, <3>2, <3>3
  <2> QED
    BY <2>8, <2>9
<1> HIDE DEF g
<1>4. QED
  BY <1>2, <1>3 DEF ChainIs

(* Before any challenge there is nothing to bind.                            *)
LEMMA ChainStarts == \A c, elems : ChainIs(c, 0, elems)
<1> SUFFICES ASSUME NEW c, NEW elems
             PROVE  ChainIs(c, 0, elems)
  OBVIOUS
<1>1. IsBack([k \in 0 .. 0 |-> c], c, 0)
  BY DEF IsBack
<1>2. QED
  BY <1>1 DEF ChainIs

LEMMA DataKept ==
    ASSUME NEW q, NEW e, NEW elems,
           \A name \in EntryNames(q) : e[name] = elems[name]
    PROVE  DataOf(q, e) = DataOf(q, elems)
<1>1. [i \in DOMAIN round_manifests[q].elements |-> e[round_manifests[q].elements[i].name]]
        = [i \in DOMAIN round_manifests[q].elements |->
              elems[round_manifests[q].elements[i].name]]
  BY DEF EntryNames
<1>2. QED
  BY <1>1 DEF DataOf

(* A round that begins derives the challenge after the last.                 *)
LEMMA DerivedInOrderNext ==
    ASSUME ControlOK, QueueOK, Begins, DerivedInOrder, [Next]_vars
    PROVE  DerivedInOrder'
<1>1. current_round \in Nat
  BY RoundsAssumption DEF ControlOK
<1>2. CASE StaysIn \/ Queues
  BY <1>2 DEF StaysIn, Queues, DerivedInOrder, InitDone
<1>3. CASE construct_proof
  BY <1>3 DEF construct_proof, transcriptVars, DerivedInOrder, InitDone, LaterRounds
<1>4. CASE NewProver
  BY <1>4 DEF NewProver, DerivedInOrder, InitDone
<1>5. CASE BeginRound
  <2>1. round' = round /\ begun' /\ ~ Resting /\ round # "export"
    BY <1>5 DEF BeginRound
  <2>2. CASE round = "preamble"
    <3>1. current_round = 0 /\ InitDone'
      BY <1>5, <2>2, InitOnce DEF DerivedInOrder
    <3>2. "preamble" \in DOMAIN Challenge /\ Challenge["preamble"] = "init"
      BY DEF Challenge
    <3>3. current_round' = 1 /\ round_manifests[1].challenge = Challenge["preamble"]
      BY <1>5, <2>2, <3>1, <3>2, BeginControl
    <3>4. \A q \in 1 .. 1 : q = 1
      OBVIOUS
    <3>5. Place["preamble"] <= Place["preamble"]
      BY DEF Place
    <3> QED
      BY <2>1, <2>2, <3>1, <3>2, <3>3, <3>4, <3>5 DEF DerivedInOrder
  <2>3. CASE round # "preamble"
    <3>1. round \in LaterRounds
      BY <2>1, <2>3 DEF ControlOK, Resting
    <3>2. InitDone
      BY <2>1, <2>3 DEF Begins, Resting
    <3>3. \A q \in 1 .. current_round : \E h \in DOMAIN Challenge :
             /\ round_manifests[q].challenge = Challenge[h]
             /\ Place[h] <= Place[round]
      BY <3>1 DEF DerivedInOrder
    <3>4. CASE round \notin DOMAIN Challenge /\ UNCHANGED transcriptVars
      BY <2>1, <3>2, <3>3, <3>4 DEF transcriptVars, DerivedInOrder, InitDone
    <3>5. CASE /\ round \in DOMAIN Challenge
               /\ current_round' = current_round + 1
               /\ round_manifests[current_round + 1].challenge = Challenge[round]
      <4>1. InitDone'
        BY <1>1, <3>2, <3>5 DEF InitDone
      <4>2. Place[round] <= Place[round]
        BY <3>1 DEF Place, LaterRounds
      <4>3. \A q \in 1 .. (current_round + 1) : q \in 1 .. current_round \/ q = current_round + 1
        BY <1>1
      <4> QED
        BY <2>1, <3>3, <3>5, <4>1, <4>2, <4>3 DEF DerivedInOrder
    <3> QED
      BY <1>5, <3>4, <3>5, BeginControl
  <2> QED
    BY <2>2, <2>3
<1>6. ASSUME UNCHANGED current_round, round' \in LaterRounds,
             round \in LaterRounds \/ (round = "preamble" /\ begun),
             Place[round] <= Place[round']
      PROVE  DerivedInOrder'
  <2>1. Place[round] \in Nat /\ Place[round'] \in Nat
    BY <1>6 DEF Place, LaterRounds
  <2>2. \A h \in DOMAIN Challenge : Place[h] \in Nat
    BY DEF Place, Challenge
  <2>3. \A h \in DOMAIN Challenge : Place[h] <= Place[round] => Place[h] <= Place[round']
    BY <1>6, <2>1, <2>2
  <2>4. \A q \in 1 .. current_round : \E h \in DOMAIN Challenge :
           round_manifests[q].challenge = Challenge[h] /\ Place[h] <= Place[round']
    BY <1>6, <2>3 DEF DerivedInOrder
  <2>5. ~ InitDone' => current_round' = 0
    BY <1>6 DEF DerivedInOrder, InitDone
  <2> QED
    BY <1>6, <2>4, <2>5 DEF DerivedInOrder
<1>7. CASE FinishRound
  <2>1. /\ UNCHANGED current_round /\ round' = RoundAfter(round)
        /\ begun /\ round \in ProcessingRounds
    BY <1>7 DEF FinishRound, FinishQueue, transcriptVars, ControlOK
  <2>2. round' \in LaterRounds /\ Place[round] <= Place[round']
    BY <2>1, RoundsInOrder DEF ProcessingRounds, LaterRounds, Place
  <2>3. round \in LaterRounds \/ (round = "preamble" /\ begun)
    BY <2>1 DEF ProcessingRounds, LaterRounds
  <2> QED
    BY <1>6, <2>1, <2>2, <2>3
<1>8. CASE UNCHANGED current_round /\ round' \in {"err", "ok"}
  BY <1>8 DEF DerivedInOrder, InitDone, LaterRounds
<1>9. CASE UNCHANGED current_round /\ round = "fifth" /\ round' = "sixth"
  <2>1. Place["fifth"] <= Place["sixth"]
    BY DEF Place
  <2> QED
    BY <1>6, <1>9, <2>1 DEF LaterRounds
<1>10. QED
  BY <1>2, <1>3, <1>4, <1>5, <1>7, <1>8, <1>9, RoundNext

(* What a round queues, it is said to send.                                  *)
LEMMA ItemsAreSentNext ==
    ASSUME ControlOK, QueueOK, ItemsAreSent, [Next]_vars
    PROVE  ItemsAreSent'
<1>1. SUFFICES ASSUME processing', NEW k \in 1 .. Len(work_items'),
                      work_items'[k].work = "ScalarMultiplication"
               PROVE  work_items'[k].tag \in Sent(round', widgets')
  BY DEF ItemsAreSent
<1>2. CASE Blinds
  <2>1. PICK draws \in WireDraws : execute_preamble_round(draws)
    BY <1>2 DEF Blinds
  <2>2. QueueAndProcess([i \in WireIndices |-> Ifft(WireTags[i])]) /\ In("preamble")
    BY <1>1, <2>1, PreambleControl DEF In, Idle, queueVars
  <2>3. /\ work_items' = [i \in WireIndices |-> Ifft(WireTags[i])]
        /\ Len(work_items') = program_width
    BY <2>2, PreambleItems
  <2>4. work_items'[k] = Ifft(WireTags[k])
    BY <1>1, <2>3, Wires
  <2> QED
    BY <1>1, <2>4 DEF Ifft, Item
<1>3. CASE execute_first_round
  <2>1. round' = "first" /\ widgets' = widgets
    BY <1>3 DEF execute_first_round, In, proverVars
  <2>2. /\ Len(work_items') \in Nat
        /\ \A i \in WireIndices :
              work_items'[i] = commit(get(Monomial(WireTags[i])), CommitTags[i],
                                      domain_size_flag(i))
        /\ \A j \in program_width + 1 .. Len(work_items') :
              work_items'[j] \in ToSet(widgets[1].items)
    BY <1>3, FirstItems
  <2>3. CASE k \in WireIndices
    <3>1. PICK r, tag, flag : /\ r = get(Monomial(WireTags[k]))
                             /\ tag = CommitTags[k] /\ flag = domain_size_flag(k)
      OBVIOUS
    <3>2. work_items'[k] = commit(r, tag, flag)
      BY <2>2, <2>3, <3>1
    <3>3. work_items'[k].tag = tag
      BY <3>2 DEF commit, ScalarMultiplication, Item
    <3> QED
      BY <2>1, <2>3, <3>1, <3>3 DEF Sent
  <2>4. CASE k \in program_width + 1 .. Len(work_items')
    BY <2>1, <2>2, <2>4 DEF Sent, NamesOf
  <2> QED
    BY <2>2, <2>3, <2>4, Wires
<1>4. CASE execute_second_round
  <2>1. round' = "second" /\ widgets' = widgets
    BY <1>4 DEF execute_second_round, In, proverVars
  <2>2. work_items'[k] \in ToSet(widgets[2].items)
    BY <1>4, SecondItems
  <2> QED
    BY <2>1, <2>2 DEF Sent, NamesOf
<1>5. CASE execute_third_round
  <2>1. round' = "third" /\ widgets' = widgets
    BY <1>5 DEF execute_third_round, In, proverVars
  <2>2. \/ work_items'[k] \in ToSet(widgets[3].items)
        \/ \E i \in WireIndices : work_items'[k] = Fft(WireTags[i], 0)
    BY <1>5, ThirdItems
  <2>3. \A i \in WireIndices : Fft(WireTags[i], 0).work = "Fft"
    BY DEF Fft, Item
  <2>4. work_items'[k] \in ToSet(widgets[3].items)
    BY <1>1, <2>2, <2>3
  <2> QED
    BY <2>1, <2>4 DEF Sent, NamesOf
<1>6. CASE Divides
  <2>1. round' = "fourth"
    BY <1>6 DEF Divides, execute_fourth_round, In, proverVars
  <2>2. /\ work_items' = [i \in WireIndices |->
                             commit(Part(i), QuotientTags[i], domain_size_flag(i))]
        /\ Len(work_items') = program_width
    BY <1>6, FourthItems
  <2>3. k \in WireIndices
    BY <1>1, <2>2, Wires
  <2>4. PICK r, tag, flag : /\ r = Part(k)
                           /\ tag = QuotientTags[k] /\ flag = domain_size_flag(k)
    OBVIOUS
  <2>5. work_items'[k] = commit(r, tag, flag)
    BY <2>2, <2>3, <2>4
  <2>6. work_items'[k].tag = tag
    BY <2>5 DEF commit, ScalarMultiplication, Item
  <2> QED
    BY <2>1, <2>3, <2>4, <2>6 DEF Sent
<1>7. CASE execute_sixth_round
  <2>1. work_items' = <<>>
    BY <1>7, SixthItems
  <2> QED
    BY <1>1, <2>1
<1>8. CASE ProcessItem(Held) /\ UNCHANGED proverVars
  BY <1>1, <1>8 DEF ProcessItem, InHand, proverVars, ItemsAreSent
<1>9. CASE UNCHANGED vars
  BY <1>1, <1>9 DEF vars, queueVars, proverVars, ItemsAreSent
<1>10. QED
  BY <1>1, <1>2, <1>3, <1>4, <1>5, <1>6, <1>7, <1>8, <1>9 DEF Next, Process, Stopped,
     StoreWitness, construct_proof, NewProver, BeginRound, flush_queue, export_proof,
     execute_fifth_round, FinishRound, FinishQueue, PanicInRound, PanicOnItem,
     In, Idle, Blinds, Divides, queueVars

(* An element changes only in a round that sends it, but for the sizes that  *)
(* the preamble adds.                                                        *)
LEMMA ElementsSentNext ==
    ASSUME ControlOK, QueueOK, ItemsAreSent, [Next]_vars, NEW name, has_element(name)
    PROVE  \/ NewProver
           \/ BeginRound /\ round = "preamble"
           \/ round \in LaterRounds /\ name \in Sent(round, widgets)
           \/ has_element(name)' /\ elements'[name] = elements[name]
<1>1. name \in DOMAIN elements
  BY DEF has_element
<1>2. CASE UNCHANGED elements
  BY <1>1, <1>2 DEF has_element
<1>3. CASE BeginRound /\ round # "preamble"
  BY <1>2, <1>3, BeginControl DEF ElementsToHash, transcriptVars
<1>4. CASE execute_first_round
  <2>1. PICK e : e = With(elements, "public_inputs", SerializeVector(public_wires))
    OBVIOUS
  <2>2. elements' = WithAll(e, widgets[1].elements)
    BY <1>4, <2>1 DEF execute_first_round
  <2>3. round = "first"
    BY <1>4 DEF execute_first_round, In
  <2>4. CASE name = "public_inputs" \/ name \in DOMAIN widgets[1].elements
    BY <2>3, <2>4 DEF Sent, NamesOf, LaterRounds
  <2>5. CASE name # "public_inputs" /\ name \notin DOMAIN widgets[1].elements
    <3>1. name \in DOMAIN e /\ e[name] = elements[name]
      BY <1>1, <2>1, <2>5 DEF With
    <3>2. name \in DOMAIN elements' /\ elements'[name] = e[name]
      BY <2>2, <2>5, <3>1 DEF WithAll
    <3> QED
      BY <3>1, <3>2 DEF has_element
  <2> QED
    BY <2>4, <2>5
<1>5. CASE execute_second_round
  <2>1. elements' = WithAll(elements, widgets[2].elements) /\ round = "second"
    BY <1>5 DEF execute_second_round, In
  <2>2. CASE name \in DOMAIN widgets[2].elements
    BY <2>1, <2>2 DEF Sent, NamesOf, LaterRounds
  <2>3. CASE name \notin DOMAIN widgets[2].elements
    BY <1>1, <2>1, <2>3 DEF WithAll, has_element
  <2> QED
    BY <2>2, <2>3
<1>6. CASE execute_third_round
  <2>1. elements' = WithAll(elements, widgets[3].elements) /\ round = "third"
    BY <1>6 DEF execute_third_round, In
  <2>2. CASE name \in DOMAIN widgets[3].elements
    BY <2>1, <2>2 DEF Sent, NamesOf, LaterRounds
  <2>3. CASE name \notin DOMAIN widgets[3].elements
    BY <1>1, <2>1, <2>3 DEF WithAll, has_element
  <2> QED
    BY <2>2, <2>3
<1>7. CASE execute_fifth_round
  <2>1. PICK e : e = WithAll(elements, OpeningElements)
    OBVIOUS
  <2>2. elements' = With(e, "t", Serialize(FrWidth, t_eval)) /\ round = "fifth"
    BY <1>7, <2>1 DEF execute_fifth_round, In
  <2>3. CASE name = "t" \/ name \in DOMAIN OpeningElements
    BY <2>2, <2>3 DEF Sent, LaterRounds
  <2>4. CASE name # "t" /\ name \notin DOMAIN OpeningElements
    <3>1. name \in DOMAIN e /\ e[name] = elements[name]
      BY <1>1, <2>1, <2>4 DEF WithAll
    <3>2. name \in DOMAIN elements' /\ elements'[name] = e[name]
      BY <2>2, <2>4, <3>1 DEF With
    <3> QED
      BY <3>1, <3>2 DEF has_element
  <2> QED
    BY <2>3, <2>4
<1>8. CASE ProcessItem(Held) /\ UNCHANGED proverVars
  <2>1. CASE /\ item_in_hand.work = "ScalarMultiplication"
             /\ elements' = With(elements, item_in_hand.tag, CommitmentOf(item_in_hand))
    <3>1. queue_pos + 1 \in 1 .. Len(work_items) /\ processing
      BY <1>8, InHandOK DEF ProcessItem, InHand
    <3>2. item_in_hand.tag \in Sent(round, widgets)
      BY <2>1, <3>1 DEF ItemsAreSent, item_in_hand
    <3>3. CASE name = item_in_hand.tag
      <4>1. round \in ProcessingRounds
        BY <3>1 DEF ControlOK
      <4>2. round # "preamble"
        BY <3>2 DEF Sent
      <4> QED
        BY <3>2, <3>3, <4>1, <4>2 DEF ProcessingRounds, LaterRounds
    <3>4. CASE name # item_in_hand.tag
      BY <1>1, <2>1, <3>4 DEF With, has_element
    <3> QED
      BY <3>3, <3>4
  <2> QED
    BY <1>2, <1>8, <2>1, ItemControl DEF CommitmentOf
<1>9. CASE Stores \/ construct_proof \/ Blinds \/ Divides \/ execute_sixth_round
            \/ export_proof \/ PanicOnItem \/ FinishRound \/ PanicInRound \/ UNCHANGED vars
  <2>1. UNCHANGED elements
    BY <1>9 DEF Stores, StoreWitness, construct_proof, Blinds, execute_preamble_round,
       Divides, execute_fourth_round, execute_sixth_round, export_proof, PanicOnItem,
       FinishRound, FinishQueue, PanicInRound, vars, transcriptVars
  <2> QED
    BY <1>2, <2>1
<1>10. QED
  BY <1>3, <1>4, <1>5, <1>6, <1>7, <1>8, <1>9
     DEF Next, Process, Stopped, Stores, Blinds, Divides

(* What has been hashed stays in the transcript as it is.                    *)
LEMMA HashedStays ==
    ASSUME ManifestFits, IInv, CInv, [Next]_vars, ~ NewProver,
           ~ (BeginRound /\ round = "preamble"),
           NEW q \in 1 .. current_round, NEW name \in EntryNames(q)
    PROVE  has_element(name)' /\ elements'[name] = elements[name]
<1> USE DEF IInv, CInv
<1>1. has_element(name)
  BY DEF HashedIsThere
<1>2. CASE round \in LaterRounds /\ name \in Sent(round, widgets)
  <2>1. q \in 1 .. num_rounds
    BY RoundsAssumption DEF ControlOK
  <2>2. PICK h \in DOMAIN Challenge :
           round_manifests[q].challenge = Challenge[h] /\ Place[h] <= Place[round]
    BY <1>2 DEF DerivedInOrder
  <2>3. widgets \in WidgetRounds
    BY DEF ControlOK
  <2>4. EntryNames(q) \cap Sent(round, widgets) = {}
    BY <1>2, <2>1, <2>2, <2>3 DEF ManifestFits, SentBeforeHashed
  <2> QED
    BY <1>2, <2>4
<1>3. QED
  BY <1>1, <1>2, ElementsSentNext

(* What a derivation hashes is there, and its last challenge says what.      *)
LEMMA DerivesNext ==
    ASSUME ManifestFits, IInv, BeginRound, round \in DOMAIN Challenge
    PROVE  /\ current_round \in Nat /\ current_round' = current_round + 1
           /\ \A name \in EntryNames(current_round + 1) : has_element(name)'
           /\ current_challenge'.of.previous = current_challenge
           /\ current_challenge'.of.data = DataOf(current_round + 1, elements')
           /\ elements' = ElementsToHash
<1>1. PICK c, e : c = Challenge[round] /\ e = ElementsToHash
  OBVIOUS
<1>2. FiatShamirAsserts(c, e) /\ apply_fiat_shamir(c, e)
  BY <1>1 DEF BeginRound, BeginTrouble
<1>3. /\ current_round \in Nat /\ current_round + 1 \in 1 .. num_rounds
      /\ current_round' = current_round + 1 /\ elements' = e
  <2>1. current_round \in 0 .. num_rounds
    BY DEF IInv, ControlOK
  <2> QED
    BY <1>2, <2>1, FiatShamirControl
<1>4. PICK m : m = round_manifests[current_round + 1].num_challenges
  OBVIOUS
<1>5. m \in Nat /\ m > 0 /\ round_manifest.num_challenges = m
  BY <1>3, <1>4 DEF ManifestFits, EveryRoundHashes, round_manifest
<1>6. \A name \in EntryNames(current_round + 1) : name \in DOMAIN e
  BY <1>2, <1>5 DEF FiatShamirAsserts, round_manifest, EntryNames, ToSet
<1>7. PICK buffer : buffer = RoundBuffer(current_round, current_challenge, e)
  OBVIOUS
<1>8. PICK fresh : fresh = RoundChallenges(current_round, buffer)
  OBVIOUS
<1>9. current_challenge' = Last(fresh)
  BY <1>2, <1>5, <1>7, <1>8 DEF apply_fiat_shamir
<1>10. fresh = [j \in 1 .. m |-> [of |-> buffer, hash |-> (j - 1) \div challenges_per_hash,
                                 slice |-> (j - 1) % challenges_per_hash]]
  BY <1>4, <1>8 DEF RoundChallenges
<1>11. Len(fresh) = m /\ m \in 1 .. m
  BY <1>5, <1>10
<1>12. Last(fresh).of = buffer
  <2>1. Last(fresh) = fresh[m]
    BY <1>11 DEF Last
  <2>2. fresh[m].of = buffer
    BY <1>10, <1>11
  <2> QED
    BY <2>1, <2>2
<1>13. buffer.previous = current_challenge /\ buffer.data = DataOf(current_round + 1, e)
  BY <1>7 DEF RoundBuffer, DataOf
<1>14. QED
  BY <1>1, <1>3, <1>6, <1>9, <1>12, <1>13 DEF has_element

LEMMA ChainInit == Init => CInv
<1> SUFFICES ASSUME Init
             PROVE  CInv
  OBVIOUS
<1>1. /\ work_items = <<>> /\ ~ processing /\ current_round = 0
      /\ round = "new" /\ begun = FALSE
  BY DEF Init, QueueInit, TranscriptInit
<1>2. ChainHolds
  BY <1>1, ChainStarts DEF ChainHolds
<1>3. QED
  BY <1>1, <1>2 DEF CInv, DerivedInOrder, ItemsAreSent, HashedIsThere, LaterRounds

LEMMA ChainNext ==
    ASSUME ManifestFits, IInv, CInv, [Next]_vars
    PROVE  CInv'
<1>1. ControlOK /\ QueueOK /\ Begins /\ DerivedInOrder /\ ItemsAreSent
      /\ HashedIsThere /\ ChainHolds
  BY DEF IInv, CInv
<1>2. DerivedInOrder' /\ ItemsAreSent'
  BY <1>1, DerivedInOrderNext, ItemsAreSentNext
<1>3. current_round \in Nat
  BY <1>1, RoundsAssumption DEF ControlOK
<1>4. CASE NewProver
  <2>1. current_round' = 0
    BY <1>4 DEF NewProver
  <2>2. ChainHolds'
    BY <2>1, ChainStarts DEF ChainHolds
  <2>3. HashedIsThere'
    BY <2>1 DEF HashedIsThere
  <2> QED
    BY <1>2, <2>2, <2>3 DEF CInv
<1>5. CASE BeginRound /\ round \in DOMAIN Challenge
  <2>1. /\ current_round' = current_round + 1
        /\ \A name \in EntryNames(current_round + 1) : has_element(name)'
        /\ current_challenge'.of.previous = current_challenge
        /\ current_challenge'.of.data = DataOf(current_round + 1, elements')
    BY <1>5, DerivesNext
  <2>2. ASSUME NEW q \in 1 .. current_round, NEW name \in EntryNames(q)
        PROVE  has_element(name)' /\ elements'[name] = elements[name]
    <3>1. round # "preamble"
      <4>1. ASSUME round = "preamble"
            PROVE  FALSE
        BY <1>1, <1>5, <2>2, <4>1, InitOnce DEF DerivedInOrder
      <4> QED
        BY <4>1
    <3>2. ~ NewProver
      BY <1>5, <2>1, <1>3 DEF NewProver
    <3> QED
      BY <2>2, <3>1, <3>2, HashedStays
  <2>3. \A q \in 1 .. current_round : DataOf(q, elements') = DataOf(q, elements)
    BY <2>2, DataKept
  <2>4. ChainHolds'
    BY <1>1, <1>3, <2>1, <2>3, ChainGrows DEF ChainHolds
  <2>5. \A q \in 1 .. (current_round + 1) : q \in 1 .. current_round \/ q = current_round + 1
    BY <1>3
  <2>6. HashedIsThere'
    BY <2>1, <2>2, <2>5 DEF HashedIsThere, EntryNames
  <2> QED
    BY <1>2, <2>4, <2>6 DEF CInv
<1>6. CASE ~ NewProver /\ UNCHANGED <<current_round, current_challenge>>
           /\ ~ (BeginRound /\ round = "preamble")
  <2>1. ASSUME NEW q \in 1 .. current_round, NEW name \in EntryNames(q)
        PROVE  has_element(name)' /\ elements'[name] = elements[name]
    BY <1>6, <2>1, HashedStays
  <2>2. \A q \in 1 .. current_round : DataOf(q, elements') = DataOf(q, elements)
    BY <2>1, DataKept
  <2>3. ChainIs(current_challenge, current_round, elements')
    BY <1>1, <2>2 DEF ChainHolds, ChainIs
  <2>4. ChainHolds'
    BY <1>6, <2>3 DEF ChainHolds
  <2>5. HashedIsThere'
    BY <1>6, <2>1 DEF HashedIsThere, EntryNames
  <2> QED
    BY <1>2, <2>4, <2>5 DEF CInv
<1>7. CASE BeginRound /\ round \notin DOMAIN Challenge
  <2>1. UNCHANGED transcriptVars /\ round # "preamble"
    BY <1>7 DEF BeginRound, Challenge
  <2>2. ~ NewProver
    BY <1>7 DEF BeginRound, NewProver, Resting
  <2> QED
    BY <1>6, <2>1, <2>2 DEF transcriptVars
<1>8. CASE ~ BeginRound /\ ~ NewProver
  <2>1. CASE ProcessItem(Held) /\ UNCHANGED proverVars
    BY <1>6, <1>8, <2>1, <1>1, ItemControl
  <2>2. CASE UNCHANGED vars
    BY <1>6, <1>8, <2>2 DEF vars, transcriptVars
  <2>3. CASE ~ (ProcessItem(Held) /\ UNCHANGED proverVars) /\ ~ UNCHANGED vars
    <3>1. UNCHANGED <<current_round, current_challenge>>
      BY <1>8, <2>3 DEF Next, Process, Stopped, StoreWitness, construct_proof,
         export_proof, execute_preamble_round, execute_first_round, execute_second_round,
         execute_third_round, execute_fourth_round, execute_fifth_round,
         execute_sixth_round, FinishRound, FinishQueue, PanicInRound, PanicOnItem,
         transcriptVars
    <3> QED
      BY <1>6, <1>8, <3>1
  <2> QED
    BY <2>1, <2>2, <2>3
<1>9. QED
  BY <1>4, <1>5, <1>7, <1>8

(* The last challenge binds every element a challenge was derived with, as   *)
(* the transcript has it to the end: no round, widget or second call sends   *)
(* one again, if the manifest hashes what a round sends only afterwards.     *)
THEOREM LastChallengeBinds ==
    ASSUME ManifestFits
    PROVE  Spec => []LastChallengeBindsTheProof
<1>1. ASSUME IInv, CInv
      PROVE  LastChallengeBindsTheProof
  <2> DEFINE f == CHOOSE g : IsBack(g, current_challenge, current_round)
  <2>1. IsBack(f, current_challenge, current_round)
    BY <1>1 DEF CInv, ChainHolds, ChainIs
  <2>2. \A q \in 1 .. current_round : f[current_round - q].of.data = DataOf(q, elements)
    BY <1>1, <2>1 DEF CInv, ChainHolds, ChainIs
  <2> QED
    BY <2>2 DEF LastChallengeBindsTheProof, IsBack, DataOf
<1>2. Init => IInv /\ CInv
  BY InvariantInit, ChainInit
<1>3. IInv /\ CInv /\ [Next]_vars => (IInv /\ CInv)'
  BY InvariantNext, ChainNext
<1>4. IInv /\ CInv => LastChallengeBindsTheProof
  BY <1>1
<1>5. QED
  BY <1>2, <1>3, <1>4, PTL DEF Spec

-----------------------------------------------------------------------------
(* The quotient and its parts.                                               *)

\* What one part loses its neighbour gains.
FieldLaws(F) ==
    /\ Zero \in F
    /\ \A a, b, d \in F : field_add(field_sub(a, d), field_add(b, d)) = field_add(a, b)
    /\ \A a, b \in F : field_add(a, b) = field_add(b, a)

\* What widgets, transforms and rng hand the fourth round.
QuotientIn(F) ==
    /\ \A numerator \in Numerators : \A i \in 1 .. 4, k \in 0 .. n - 1 : numerator[i][k] \in F
    /\ \A slices \in [1 .. 4 -> F] : transform_slices(slices) \in [1 .. 4 -> F]
    /\ \A draws \in QuotientDraws : \A i \in 1 .. program_width - 1 : draws[i] \in F

QuotientFits == \E F : FieldLaws(F) /\ QuotientIn(F)

(* Where in its part a coefficient of the quotient is.                       *)
LEMMA PlaceInPart ==
    ASSUME NEW m \in 0 .. 4 * n - 1
    PROVE  /\ m \div n \in 0 .. 3 /\ m % n \in 0 .. n - 1
           /\ m > 0 /\ m % n = 0 => m \div n \in 1 .. 3
           /\ ~ (m > 0 /\ m % n = 0) => m % n # 0 \/ m \div n = 0
<1>1. n \in Nat /\ n >= 4
  BY Wires
<1>2. PICK s \in Nat : s = n
  BY <1>1
<1>3. m \in 0 .. 4 * s - 1 /\ s >= 4
  BY <1>1, <1>2
<1>4. m % s \in 0 .. s - 1
  BY <1>3
<1>5. m = s * (m \div s) + (m % s) /\ m \div s \in Int
  BY <1>3
<1>6. PICK q \in Int : q = m \div s
  BY <1>5
<1>7. PICK r \in 0 .. s - 1 : r = m % s
  BY <1>4
<1>8. m = s * q + r
  BY <1>5, <1>6, <1>7
<1>9. q >= 0
  <2>1. ASSUME q <= -1
        PROVE  FALSE
    <3>1. s * q <= s * (-1)
      BY <2>1
    <3> QED
      BY <1>3, <1>8, <3>1
  <2> QED
    BY <2>1
<1>10. q <= 3
  <2>1. ASSUME q >= 4
        PROVE  FALSE
    <3>1. s * q >= s * 4
      BY <2>1
    <3> QED
      BY <1>3, <1>8, <3>1
  <2> QED
    BY <2>1
<1>11. q = 0 => m = r
  <2>1. ASSUME q = 0
        PROVE  m = r
    <3>1. s * q = 0
      BY <2>1
    <3> QED
      BY <1>3, <1>8, <3>1
  <2> QED
    BY <2>1
<1>12. m > 0 /\ r = 0 => q \in 1 .. 3
  BY <1>3, <1>9, <1>10, <1>11
<1>13. ~ (m > 0 /\ r = 0) => r # 0 \/ q = 0
  <2>1. ASSUME m = 0, q # 0
        PROVE  FALSE
    <3>1. s * q >= s * 1
      BY <1>9, <2>1
    <3> QED
      BY <1>3, <1>8, <2>1, <3>1
  <2> QED
    BY <1>3, <2>1
<1>14. QED
  BY <1>2, <1>4, <1>6, <1>7, <1>9, <1>10, <1>12, <1>13

(* What moving the last coefficient does to the parts.                       *)
LEMMA MovedParts ==
    ASSUME NEW s, DOMAIN s = 1 .. 4, \A i \in 1 .. 4 : DOMAIN s[i] = PartIndices(i),
           NEW l, l = LastMoved(s)
    PROVE  /\ DOMAIN l = 1 .. 4
           /\ \A i \in 1 .. 4 : DOMAIN l[i] = PartIndices(i)
           /\ \A i \in 1 .. 4, k \in 1 .. n - 1 : l[i][k] = s[i][k]
           /\ \A i \in 1 .. 3 : l[i][0] = s[i][0]
           /\ \A i \in 1 .. 2 : l[i][n] = s[i][n]
           /\ program_width = 3 => l[3][n] = s[4][0] /\ l[4][0] = Zero
           /\ program_width = 4 => l[3][n] = s[3][n] /\ l[4][0] = s[4][0]
<1>1. n \in Nat /\ n >= 4 /\ PartIndices(3) = 0 .. n /\ PartIndices(4) = 0 .. n - 1
  BY Wires DEF PartIndices
<1>2. CASE program_width = 3
  <2>1. PICK u, v : /\ u = [s[3] EXCEPT ![n] = s[4][0]]
                    /\ v = [s[4] EXCEPT ![0] = Zero]
    OBVIOUS
  <2>2. l = [s EXCEPT ![3] = u, ![4] = v]
    BY <1>2, <2>1 DEF LastMoved
  <2>3. l[1] = s[1] /\ l[2] = s[2] /\ l[3] = u /\ l[4] = v /\ DOMAIN l = 1 .. 4
    BY <2>2
  <2>4. /\ DOMAIN u = 0 .. n /\ u[n] = s[4][0]
        /\ \A k \in 0 .. n - 1 : u[k] = s[3][k]
    BY <1>1, <2>1
  <2>5. /\ DOMAIN v = 0 .. n - 1 /\ v[0] = Zero
        /\ \A k \in 1 .. n - 1 : v[k] = s[4][k]
    BY <1>1, <2>1
  <2>6. \A i \in 1 .. 4 : i = 1 \/ i = 2 \/ i = 3 \/ i = 4
    OBVIOUS
  <2>7. 0 \in 0 .. n - 1 /\ \A k \in 1 .. n - 1 : k \in 0 .. n - 1
    BY <1>1
  <2> QED
    BY <1>1, <1>2, <2>3, <2>4, <2>5, <2>6, <2>7
<1>3. CASE program_width # 3
  BY <1>3, Wires DEF LastMoved
<1>4. QED
  BY <1>2, <1>3

(* Blinding the parts and moving their last coefficient cancel out.          *)
LEMMA QuotientUnchanged ==
    ASSUME NEW F, FieldLaws(F), NEW s, DOMAIN s = 1 .. 4,
           \A i \in 1 .. 4 : DOMAIN s[i] = PartIndices(i),
           \A i \in 1 .. 4 : s[i][0] \in F,
           \A i \in 1 .. 3 : s[i][n] = Zero,
           NEW draws, \A i \in 1 .. program_width - 1 : draws[i] \in F,
           NEW t, t = WithBlinding(LastMoved(s), draws)
    PROVE  Reconstructed(t) = Reconstructed(s)
<1>1. PICK l : l = LastMoved(s)
  OBVIOUS
<1>2. /\ \A i \in 1 .. 4 : DOMAIN l[i] = PartIndices(i)
      /\ \A i \in 1 .. 4, k \in 1 .. n - 1 : l[i][k] = s[i][k]
      /\ \A i \in 1 .. 3 : l[i][0] = s[i][0]
      /\ \A i \in 1 .. 2 : l[i][n] = s[i][n]
      /\ program_width = 3 => l[3][n] = s[4][0] /\ l[4][0] = Zero
      /\ program_width = 4 => l[3][n] = s[3][n] /\ l[4][0] = s[4][0]
  BY <1>1, MovedParts
<1>3. n \in Nat /\ n >= 4 /\ program_width \in 3 .. 4
  BY Wires
<1>4. \A i \in 1 .. 4 : \A k \in PartIndices(i) :
         t[i][k] = IF k = n /\ i < program_width THEN field_add(l[i][k], draws[i])
                   ELSE IF k = 0 /\ i \in 2 .. program_width
                        THEN field_sub(l[i][k], draws[i - 1])
                   ELSE l[i][k]
  BY <1>1, <1>2 DEF WithBlinding
<1>5. /\ \A i \in 1 .. 4, k \in 0 .. n - 1 : k \in PartIndices(i)
      /\ \A i \in 1 .. 3 : n \in PartIndices(i)
  BY <1>3 DEF PartIndices
<1>6. \A i \in 1 .. 4, k \in 1 .. n - 1 : t[i][k] = s[i][k]
  <2> SUFFICES ASSUME NEW i \in 1 .. 4, NEW k \in 1 .. n - 1
               PROVE  t[i][k] = s[i][k]
    OBVIOUS
  <2>1. k \in PartIndices(i) /\ k # n /\ k # 0
    BY <1>3, <1>5
  <2> QED
    BY <1>2, <1>4, <2>1
<1>7. t[1][0] = s[1][0]
  <2>1. 0 \in PartIndices(1) /\ 0 # n
    BY <1>3, <1>5
  <2> QED
    BY <1>2, <1>4, <2>1
<1>8. ASSUME NEW i \in 1 .. 3
      PROVE  field_add(t[i + 1][0], t[i][n]) = field_add(s[i + 1][0], s[i][n])
  <2>1. /\ 0 \in PartIndices(i + 1) /\ n \in PartIndices(i) /\ 0 # n
        /\ i + 1 \in 1 .. 4 /\ i \in 1 .. 4 /\ (i + 1) - 1 = i
    BY <1>3, <1>5
  <2>2. CASE i < program_width
    <3>1. t[i][n] = field_add(l[i][n], draws[i])
      BY <1>4, <2>1, <2>2
    <3>2. t[i + 1][0] = field_sub(l[i + 1][0], draws[i])
      BY <1>3, <1>4, <2>1, <2>2
    <3>3. l[i][n] = s[i][n] /\ l[i + 1][0] = s[i + 1][0]
      BY <1>2, <1>3, <2>2
    <3>4. s[i][n] \in F /\ s[i + 1][0] \in F /\ draws[i] \in F
      BY <1>3, <2>1, <2>2 DEF FieldLaws
    <3>5. PICK a \in F, b \in F, d \in F : a = s[i + 1][0] /\ b = s[i][n] /\ d = draws[i]
      BY <3>4
    <3>6. field_add(field_sub(a, d), field_add(b, d)) = field_add(a, b)
      BY DEF FieldLaws
    <3> QED
      BY <3>1, <3>2, <3>3, <3>5, <3>6
  <2>3. CASE ~ (i < program_width)
    <3>1. i = 3 /\ program_width = 3
      BY <1>3, <2>3
    <3>2. t[3][n] = l[3][n] /\ t[4][0] = l[4][0]
      BY <1>4, <2>1, <3>1
    <3>3. t[3][n] = s[4][0] /\ t[4][0] = Zero /\ s[3][n] = Zero
      BY <1>2, <3>1, <3>2
    <3>4. s[4][0] \in F /\ Zero \in F
      BY DEF FieldLaws
    <3>5. field_add(Zero, s[4][0]) = field_add(s[4][0], Zero)
      BY <3>4 DEF FieldLaws
    <3> QED
      BY <3>1, <3>3, <3>5
  <2> QED
    BY <2>2, <2>3
<1>9. ASSUME NEW m \in 0 .. 4 * n - 1
      PROVE  (IF m > 0 /\ m % n = 0 THEN field_add(t[m \div n + 1][0], t[m \div n][n])
              ELSE t[m \div n + 1][m % n])
           = (IF m > 0 /\ m % n = 0 THEN field_add(s[m \div n + 1][0], s[m \div n][n])
              ELSE s[m \div n + 1][m % n])
  <2>1. PICK q, r : q = m \div n /\ r = m % n
    OBVIOUS
  <2>2. /\ q \in 0 .. 3 /\ r \in 0 .. n - 1
        /\ m > 0 /\ r = 0 => q \in 1 .. 3
        /\ ~ (m > 0 /\ r = 0) => r # 0 \/ q = 0
    BY <2>1, PlaceInPart
  <2>3. CASE m > 0 /\ r = 0
    BY <1>8, <2>1, <2>2, <2>3
  <2>4. CASE ~ (m > 0 /\ r = 0)
    <3>1. CASE r # 0
      <4>1. q + 1 \in 1 .. 4 /\ r \in 1 .. n - 1
        BY <1>3, <2>2, <3>1
      <4>2. t[q + 1][r] = s[q + 1][r]
        BY <1>6, <4>1
      <4> QED
        BY <2>1, <2>4, <4>2
    <3>2. CASE r = 0
      <4>1. q + 1 = 1
        BY <2>2, <2>4, <3>2
      <4> QED
        BY <1>7, <2>1, <2>4, <3>2, <4>1
    <3> QED
      BY <3>1, <3>2
  <2> QED
    BY <2>3, <2>4
<1>10. QED
  BY <1>9 DEF Reconstructed

\* Until the quotient is divided.
BeforeQuotient ==
    \/ ~ InitDone
    \/ round = "preamble" /\ begun
    \/ round \in {"first", "second", "third"}
    \/ round = "fourth" /\ Idle

\* The first prover of a key finds the parts as the key made them.
PartsUnused ==
    /\ provers \in Nat \ {0}
    /\ provers = 1 /\ BeforeQuotient =>
          \A i \in 1 .. 4 : cells[Part(i)].coefficients = UnusedParts[i]

LEMMA BeforeQuotientNext ==
    ASSUME ControlOK, QueueOK, Begins, [Next]_vars, ~ NewProver, BeforeQuotient'
    PROVE  BeforeQuotient /\ ~ Divides
<1>1. CASE BeginRound /\ round = "preamble"
  <2>1. ~ InitDone
    BY <1>1, InitOnce
  <2> QED
    BY <1>1, <2>1 DEF BeforeQuotient, BeginRound, Divides, execute_fourth_round, In
<1>2. CASE ~ InitDone
  BY <1>2 DEF BeforeQuotient, Begins, Divides, execute_fourth_round, In
<1>3. CASE InitDone /\ ~ (BeginRound /\ round = "preamble")
  <2>1. InitDone'
    <3>1. current_round' = current_round \/ current_round' = current_round + 1
      BY RoundNext, BeginControl DEF StaysIn, Queues, construct_proof, FinishRound,
         FinishQueue, transcriptVars
    <3>2. current_round \in Nat
      BY RoundsAssumption DEF ControlOK
    <3> QED
      BY <1>3, <3>1, <3>2 DEF InitDone
  <2>2. \/ round' = "preamble" /\ begun'
        \/ round' \in {"first", "second", "third"}
        \/ round' = "fourth" /\ Idle'
    BY <2>1 DEF BeforeQuotient
  <2>3. round' = "preamble" /\ begun' => round = "preamble" /\ begun
    BY <1>3, RoundNext, RoundsInOrder DEF StaysIn, Queues, construct_proof, BeginRound,
       FinishRound, FinishQueue, ControlOK, ProcessingRounds
  <2>4. ~ Divides
    <3>1. ASSUME Divides
          PROVE  round' = "fourth" /\ processing'
      BY <3>1 DEF Divides, execute_fourth_round, QueueAndProcess, In, proverVars
    <3> QED
      BY <2>2, <3>1 DEF Idle
  <2>5. CASE FinishRound
    <3>1. round \in ProcessingRounds /\ begun /\ round' = RoundAfter(round)
      BY <2>5 DEF FinishRound, FinishQueue, ControlOK
    <3> QED
      BY <2>2, <2>4, <3>1, RoundsInOrder DEF ProcessingRounds, BeforeQuotient
  <2>6. CASE ~ FinishRound /\ (StaysIn \/ Queues \/ BeginRound)
    <3>1. UNCHANGED round
      BY <2>6 DEF StaysIn, Queues, BeginRound
    <3> QED
      BY <2>2, <2>3, <2>4, <2>6, <3>1, IdleNext DEF BeforeQuotient
  <2>7. CASE ~ FinishRound /\ ~ (StaysIn \/ Queues \/ BeginRound)
    BY <2>2, <2>7, RoundNext DEF construct_proof
  <2> QED
    BY <2>5, <2>6, <2>7
<1>4. QED
  BY <1>1, <1>2, <1>3

LEMMA UnusedInit == Init => PartsUnused
<1> SUFFICES ASSUME Init
             PROVE  PartsUnused
  OBVIOUS
<1>1. cells = [r \in Refs |->
                  IF r \in PartRefs \ {Part(4)} THEN new_polynomial(n + 1)
                  ELSE IF r = Part(4) THEN new_polynomial(n) ELSE Freed]
  BY DEF Init
<1>2. \A i \in 1 .. 4 : cells[Part(i)] = IF i < 4 THEN new_polynomial(n + 1) ELSE new_polynomial(n)
  BY <1>1, Parts4
<1>3. \A i \in 1 .. 4 : cells[Part(i)].coefficients = UnusedParts[i]
  BY <1>2 DEF UnusedParts
<1>4. provers = 1
  BY DEF Init
<1>5. QED
  BY <1>3, <1>4 DEF PartsUnused

LEMMA UnusedNext ==
    ASSUME IInv, PartsUnused, [Next]_vars
    PROVE  PartsUnused'
<1>1. CASE NewProver
  BY <1>1 DEF NewProver, PartsUnused
<1>2. CASE ~ NewProver
  <2>1. UNCHANGED provers
    BY <1>2 DEF Next, Process, Stopped, StoreWitness, construct_proof, BeginRound,
       export_proof, execute_preamble_round, execute_first_round, execute_second_round,
       execute_third_round, execute_fourth_round, execute_fifth_round,
       execute_sixth_round, FinishRound, PanicInRound, proverVars, vars
  <2>2. BeforeQuotient' => BeforeQuotient /\ ~ Divides
    BY <1>2, BeforeQuotientNext DEF IInv
  <2>3. ~ Divides => PartsKept
    BY HeapNext DEF IInv, HeapStep
  <2>4. UnusedParts' = UnusedParts
    BY DEF UnusedParts, new_polynomial, n
  <2> QED
    BY <2>1, <2>2, <2>3, <2>4 DEF PartsUnused, PartsKept, Part
<1>3. QED
  BY <1>1, <1>2

(* On a new key, the parts that are committed to are those of the quotient   *)
(* that was transformed.                                                     *)
LEMMA FourthKeepsQuotient ==
    ASSUME QuotientFits, IInv, PartsUnused, [Next]_vars,
           In("fourth"), processing', provers = 1
    PROVE  QuotientIsKept
<1>1. Divides
  BY DEF In, Idle, Next, Process, Stopped, StoreWitness, construct_proof, NewProver,
     BeginRound, flush_queue, export_proof, execute_preamble_round, execute_first_round,
     execute_second_round, execute_third_round, execute_fifth_round, execute_sixth_round,
     FinishRound, FinishQueue, PanicInRound, ProcessItem, PanicOnItem, InHand, Divides,
     queueVars, proverVars, vars
<1>2. PICK numerator \in Numerators, draws \in QuotientDraws :
         execute_fourth_round(numerator, draws)
  BY <1>1 DEF Divides
<1>3. PICK F : FieldLaws(F) /\ QuotientIn(F)
  BY DEF QuotientFits
<1>4. PICK s : s = SlicesTransformed(Filled(Parts, numerator))
  OBVIOUS
<1>5. PICK t : t = WithBlinding(LastMoved(s), draws)
  OBVIOUS
<1>6. \A i \in 1 .. 4 : cells'[Part(i)].coefficients = t[i]
  BY <1>2, <1>4, <1>5, QuotientEffect DEF IInv
<1>7. Parts' = t
  <2>1. t = [i \in 1 .. 4 |-> t[i]]
    BY <1>5 DEF WithBlinding
  <2>2. Parts' = [i \in 1 .. 4 |-> cells'[Part(i)].coefficients]
    BY DEF Parts, Part
  <2> QED
    BY <1>6, <2>1, <2>2
<1>8. Parts = UnusedParts
  BY DEF PartsUnused, BeforeQuotient, In, Parts, UnusedParts
<1>9. n \in Nat /\ n >= 4
  BY Wires
<1>10. \A i \in 1 .. 4 : UnusedParts[i] = [k \in PartIndices(i) |-> Zero]
  <2>1. (n + 1) - 1 = n
    BY <1>9
  <2> QED
    BY <2>1 DEF UnusedParts, new_polynomial, PartIndices
<1>11. PICK f : f = Filled(UnusedParts, numerator)
  OBVIOUS
<1>12. /\ \A i \in 1 .. 4 : DOMAIN f[i] = PartIndices(i)
       /\ \A i \in 1 .. 4 : \A k \in PartIndices(i) :
             f[i][k] = IF k < n THEN numerator[i][k] ELSE Zero
  BY <1>10, <1>11 DEF Filled
<1>13. \A i \in 1 .. 4 : 0 \in PartIndices(i) /\ f[i][0] \in F
  BY <1>2, <1>3, <1>9, <1>12 DEF QuotientIn, PartIndices
<1>14. PICK slices : slices = transform_slices([i \in 1 .. 4 |-> f[i][0]])
  OBVIOUS
<1>15. slices \in [1 .. 4 -> F]
  BY <1>3, <1>13, <1>14 DEF QuotientIn
<1>16. s = [i \in 1 .. 4 |-> [f[i] EXCEPT ![0] = slices[i]]]
  BY <1>4, <1>8, <1>11, <1>14 DEF SlicesTransformed
<1>17. /\ DOMAIN s = 1 .. 4
       /\ \A i \in 1 .. 4 : DOMAIN s[i] = PartIndices(i)
       /\ \A i \in 1 .. 4 : s[i][0] \in F
  BY <1>12, <1>13, <1>15, <1>16
<1>18. \A i \in 1 .. 3 : s[i][n] = Zero
  <2> SUFFICES ASSUME NEW i \in 1 .. 3
               PROVE  s[i][n] = Zero
    OBVIOUS
  <2>1. i \in 1 .. 4 /\ n \in PartIndices(i) /\ n # 0 /\ ~ (n < n)
    BY <1>9 DEF PartIndices
  <2>2. f[i][n] = Zero
    BY <1>12, <2>1
  <2> QED
    BY <1>12, <1>16, <2>1, <2>2
<1>19. \A i \in 1 .. program_width - 1 : draws[i] \in F
  BY <1>2, <1>3 DEF QuotientIn
<1>20. Reconstructed(t) = Reconstructed(s)
  BY <1>3, <1>5, <1>17, <1>18, <1>19, QuotientUnchanged
<1>21. s = SlicesTransformed(Filled(UnusedParts, numerator))
  BY <1>4, <1>8
<1>22. QED
  BY <1>2, <1>7, <1>20, <1>21 DEF QuotientIsKept

(* Blinding and the last coefficient's move leave the quotient what it was,  *)
(* for the first proof made with a key, in any field.                        *)
THEOREM FirstProofIsOfTheQuotient ==
    ASSUME QuotientFits
    PROVE  Spec => FirstProofKeepsQuotient
<1>1. Init => IInv /\ PartsUnused
  BY InvariantInit, UnusedInit
<1>2. IInv /\ PartsUnused /\ [Next]_vars => (IInv /\ PartsUnused)'
  BY InvariantNext, UnusedNext
<1>3. IInv /\ PartsUnused /\ [Next]_vars
         => [In("fourth") /\ processing' /\ provers = 1 => QuotientIsKept]_vars
  BY FourthKeepsQuotient
<1>4. QED
  BY <1>1, <1>2, <1>3, PTL DEF Spec, FirstProofKeepsQuotient
==============================================================================
