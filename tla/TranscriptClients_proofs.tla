---------------------- MODULE TranscriptClients_proofs ----------------------
(***************************************************************************)
(* What the transcripts of a prover and of a verifier have to do with each *)
(* other, for every manifest.  The argument is the chain of the hashes:    *)
(* the challenges of a round are those of a buffer that begins with the    *)
(* last challenge of the round before that has any.                        *)
(***************************************************************************)
EXTENDS TranscriptClients, SequenceTheorems, FiniteSetTheorems, TLAPS

\* A set of naturals that is not empty has a least member.
LEMMA LeastOfNaturals ==
    ASSUME NEW T \in SUBSET Nat, T # {}
    PROVE  \E n \in T : \A m \in T : n <= m
PROOF
<1> DEFINE R == OpToRel(<, Nat)
<1>1. R = {ss \in Nat \X Nat : ss[1] < ss[2]}
  BY DEF OpToRel
<1>2. IsWellFoundedOn(R, Nat)
  BY NatLessThanWellFounded
<1> HIDE DEF R
<1>3. PICK x \in T : \A y \in T : ~ (<<y, x>> \in R)
  BY <1>2, WFMin
<1>4. \A y \in Nat : <<y, x>> \in R <=> y < x
  BY <1>1
<1>5. \A y \in T : ~ (y < x)
  BY <1>3, <1>4
<1>6. \A y \in T : x <= y
  BY ONLY <1>5, T \in SUBSET Nat, x \in T
<1> QED
  BY <1>6

\* Induction over the naturals, of a set instead of an operator.
LEMMA SetInduction ==
    ASSUME NEW T, 0 \in T, \A n \in Nat : n \in T => n + 1 \in T
    PROVE  \A n \in Nat : n \in T
PROOF
<1> DEFINE C == {n \in Nat : n \notin T}
<1>1. SUFFICES ASSUME C # {} PROVE FALSE
  OBVIOUS
<1>2. PICK n \in C : \A m \in C : n <= m
  BY <1>1, LeastOfNaturals
<1>3. n # 0 /\ n - 1 \in Nat /\ n - 1 \notin C
  BY <1>2
<1> QED
  BY <1>2, <1>3

-----------------------------------------------------------------------------
(* Sums and concatenations, which the model defines recursively.             *)

\* What Total and its recursive function are, when the function exists.
IsTotal(f, sizes, n) == f = [i \in 0 .. n |-> IF i = 0 THEN 0 ELSE f[i - 1] + sizes[i]]

LEMMA TotalExists ==
    ASSUME NEW sizes, NEW n \in Nat
    PROVE  \E f : IsTotal(f, sizes, n)
PROOF
<1> DEFINE Upto == {m \in Nat : \E f : IsTotal(f, sizes, m)}
<1>1. 0 \in Upto
  <2>1. IsTotal([i \in 0 .. 0 |-> 0], sizes, 0)
    BY DEF IsTotal
  <2> QED
    BY <2>1
<1>2. ASSUME NEW m \in Nat, m \in Upto
      PROVE  m + 1 \in Upto
  <2>1. PICK f : IsTotal(f, sizes, m)
    BY <1>2
  <2> DEFINE g == [i \in 0 .. (m + 1) |-> IF i = m + 1 THEN f[m] + sizes[m + 1] ELSE f[i]]
  <2>2. IsTotal(g, sizes, m + 1)
    BY <2>1 DEF IsTotal
  <2> QED
    BY <2>2
<1> HIDE DEF Upto
<1>3. n \in Upto
  BY <1>1, <1>2, SetInduction
<1> QED
  BY <1>3 DEF Upto

LEMMA TotalAgrees ==
    ASSUME NEW sizes, NEW m \in Nat, NEW n \in Nat, NEW f, NEW g, m <= n,
           IsTotal(f, sizes, m), IsTotal(g, sizes, n)
    PROVE  \A i \in 0 .. m : f[i] = g[i]
PROOF
<1> DEFINE Agreed == {i \in Nat : i <= m => f[i] = g[i]}
<1>1. 0 \in Agreed
  BY DEF IsTotal
<1>2. ASSUME NEW i \in Nat, i \in Agreed
      PROVE  i + 1 \in Agreed
  BY <1>2 DEF IsTotal
<1> HIDE DEF Agreed
<1>3. \A i \in Nat : i \in Agreed
  BY <1>1, <1>2, SetInduction
<1> QED
  BY <1>3 DEF Agreed

LEMMA TotalIs ==
    ASSUME NEW sizes, NEW n \in Nat, NEW f, IsTotal(f, sizes, n)
    PROVE  Total(sizes, n) = f[n]
PROOF
<1> DEFINE g == CHOOSE h : IsTotal(h, sizes, n)
<1>1. Total(sizes, n) = g[n]
  BY DEF Total, IsTotal
<1>2. IsTotal(g, sizes, n)
  BY TotalExists
<1> QED
  BY <1>1, <1>2, TotalAgrees

\* The sum of no sizes, and of one more.
LEMMA TotalGrows ==
    ASSUME NEW sizes, NEW n \in Nat
    PROVE  Total(sizes, 0) = 0 /\ Total(sizes, n + 1) = Total(sizes, n) + sizes[n + 1]
PROOF
<1>1. PICK f : IsTotal(f, sizes, n + 1)
  BY TotalExists
<1>2. PICK g : IsTotal(g, sizes, n)
  BY TotalExists
<1>3. PICK h : IsTotal(h, sizes, 0)
  BY TotalExists
<1>4. f[n] = g[n]
  <2>1. n <= n + 1 /\ n + 1 \in Nat /\ n \in 0 .. n
    OBVIOUS
  <2> QED
    BY <1>1, <1>2, <2>1, TotalAgrees
<1>6. h[0] = 0 /\ f[n + 1] = f[n] + sizes[n + 1]
  BY <1>1, <1>3 DEF IsTotal
<1>5. Total(sizes, n + 1) = f[n + 1] /\ Total(sizes, n) = g[n] /\ Total(sizes, 0) = h[0]
  BY <1>1, <1>2, <1>3, TotalIs
<1> QED
  BY <1>4, <1>5, <1>6

LEMMA TotalSame ==
    ASSUME NEW sizes, NEW others, NEW n \in Nat, \A i \in 1 .. n : sizes[i] = others[i]
    PROVE  Total(sizes, n) = Total(others, n)
PROOF
<1> DEFINE Upto == {m \in Nat : m <= n => Total(sizes, m) = Total(others, m)}
<1>1. 0 \in Upto
  BY TotalGrows
<1>2. ASSUME NEW m \in Nat, m \in Upto
      PROVE  m + 1 \in Upto
  <2>1. Total(sizes, m + 1) = Total(sizes, m) + sizes[m + 1]
        /\ Total(others, m + 1) = Total(others, m) + others[m + 1]
    BY TotalGrows
  <2> QED
    BY <1>2, <2>1
<1> HIDE DEF Upto
<1>3. n \in Upto
  BY <1>1, <1>2, SetInduction
<1> QED
  BY <1>3 DEF Upto

LEMMA TotalNatural ==
    ASSUME NEW sizes, NEW n \in Nat, \A i \in 1 .. n : sizes[i] \in Nat
    PROVE  \A i \in 0 .. n : Total(sizes, i) \in Nat
PROOF
<1> DEFINE Upto == {m \in Nat : m <= n => Total(sizes, m) \in Nat}
<1>1. 0 \in Upto
  BY TotalGrows
<1>2. ASSUME NEW m \in Nat, m \in Upto
      PROVE  m + 1 \in Upto
  <2>1. Total(sizes, m + 1) = Total(sizes, m) + sizes[m + 1]
    BY TotalGrows
  <2> QED
    BY <1>2, <2>1
<1> HIDE DEF Upto
<1>3. \A m \in Nat : m \in Upto
  BY <1>1, <1>2, SetInduction
<1> QED
  BY <1>3 DEF Upto

\* Sums of sizes that are not zero tell how many there are.
LEMMA TotalIncreases ==
    ASSUME NEW sizes, NEW n \in Nat, \A i \in 1 .. n : sizes[i] \in Nat \ {0}
    PROVE  \A i, j \in 0 .. n : i < j <=> Total(sizes, i) < Total(sizes, j)
PROOF
<1> DEFINE T(i) == Total(sizes, i)
<1>1. \A i \in 0 .. n : T(i) \in Nat
  BY TotalNatural
<1>2. \A i \in Nat : T(i + 1) = T(i) + sizes[i + 1]
  BY TotalGrows
<1> HIDE DEF T
<1>3. ASSUME NEW i \in 0 .. n
      PROVE  \A j \in 0 .. n : i < j => T(i) < T(j)
  <2> DEFINE Upto == {j \in Nat : j <= n /\ i < j => T(i) < T(j)}
  <2>1. 0 \in Upto
    OBVIOUS
  <2>2. ASSUME NEW j \in Nat, j \in Upto
        PROVE  j + 1 \in Upto
    <3> SUFFICES ASSUME j + 1 <= n, i < j + 1
                 PROVE  T(i) < T(j + 1)
      OBVIOUS
    <3>1. T(j + 1) = T(j) + sizes[j + 1] /\ sizes[j + 1] \in Nat \ {0} /\ T(j) \in Nat
          /\ T(i) \in Nat
      BY <1>1, <1>2
    <3>2. T(i) <= T(j)
      BY <2>2, <3>1
    <3> QED
      BY <3>1, <3>2
  <2> HIDE DEF Upto
  <2>3. \A j \in Nat : j \in Upto
    BY <2>1, <2>2, SetInduction
  <2> QED
    BY <2>3 DEF Upto
<1>4. ASSUME NEW i \in 0 .. n, NEW j \in 0 .. n
      PROVE  i < j <=> T(i) < T(j)
  <2>1. T(i) \in Nat /\ T(j) \in Nat
    BY <1>1
  <2>2. (i < j => T(i) < T(j)) /\ (j < i => T(j) < T(i))
    BY <1>3
  <2> QED
    BY <2>1, <2>2
<1> QED
  BY <1>4 DEF T

\* The sum goes on as that of another sequence.
LEMMA TotalConcat ==
    ASSUME NEW sizes, NEW others, NEW m \in Nat, NEW n \in Nat,
           \A i \in 1 .. m : sizes[i] \in Nat, \A i \in 1 .. n : others[i] \in Nat,
           \A i \in 1 .. n : sizes[m + i] = others[i]
    PROVE  Total(sizes, m + n) = Total(sizes, m) + Total(others, n)
PROOF
<1> DEFINE Upto == {i \in Nat : i <= n => Total(sizes, m + i) = Total(sizes, m) + Total(others, i)}
<1>0. Total(sizes, m) \in Nat /\ \A i \in 0 .. n : Total(others, i) \in Nat
  <2>1. \A i \in 0 .. m : Total(sizes, i) \in Nat
    BY TotalNatural
  <2>2. \A i \in 0 .. n : Total(others, i) \in Nat
    BY TotalNatural
  <2> QED
    BY <2>1, <2>2
<1>1. 0 \in Upto
  <2>1. Total(others, 0) = 0
    BY TotalGrows
  <2> QED
    BY <1>0, <2>1
<1>2. ASSUME NEW i \in Nat, i \in Upto
      PROVE  i + 1 \in Upto
  <2> SUFFICES ASSUME i + 1 <= n
               PROVE  Total(sizes, m + (i + 1)) = Total(sizes, m) + Total(others, i + 1)
    OBVIOUS
  <2>1. Total(sizes, m + i + 1) = Total(sizes, m + i) + sizes[m + i + 1]
        /\ Total(others, i + 1) = Total(others, i) + others[i + 1]
    BY TotalGrows
  <2>2. sizes[m + i + 1] = others[i + 1] /\ others[i + 1] \in Nat /\ m + (i + 1) = m + i + 1
    BY <2>1
  <2>3. Total(sizes, m + i) = Total(sizes, m) + Total(others, i) /\ Total(others, i) \in Nat
    BY <1>0, <1>2
  <2> QED
    BY <1>0, <2>1, <2>2, <2>3
<1> HIDE DEF Upto
<1>3. n \in Upto
  BY <1>1, <1>2, SetInduction
<1> QED
  BY <1>3 DEF Upto

\* Two sums are equal whose terms are equal, but for one that the sums then fix.
LEMMA TotalFixes ==
    ASSUME NEW sizes, NEW others, NEW n \in Nat, NEW d \in 1 .. n,
           \A i \in 1 .. n : sizes[i] \in Nat, \A i \in 1 .. n : others[i] \in Nat,
           \A i \in 1 .. n : i # d => sizes[i] = others[i],
           Total(sizes, n) = Total(others, n)
    PROVE  sizes[d] = others[d]
PROOF
<1> DEFINE Upto == {i \in Nat : i <= n => Total(sizes, i) + (IF i < d THEN 0 ELSE others[d])
                                      = Total(others, i) + (IF i < d THEN 0 ELSE sizes[d])}
<1>0. /\ \A i \in 0 .. n : Total(sizes, i) \in Nat
      /\ \A i \in 0 .. n : Total(others, i) \in Nat
  <2>1. \A i \in 0 .. n : Total(sizes, i) \in Nat
    BY TotalNatural
  <2>2. \A i \in 0 .. n : Total(others, i) \in Nat
    BY TotalNatural
  <2> QED
    BY <2>1, <2>2
<1>1. 0 \in Upto
  BY TotalGrows
<1>2. ASSUME NEW i \in Nat, i \in Upto
      PROVE  i + 1 \in Upto
  <2> SUFFICES ASSUME i + 1 <= n PROVE i + 1 \in Upto
    OBVIOUS
  <2>1. Total(sizes, i + 1) = Total(sizes, i) + sizes[i + 1]
        /\ Total(others, i + 1) = Total(others, i) + others[i + 1]
    BY TotalGrows
  <2>2. sizes[i + 1] \in Nat /\ others[i + 1] \in Nat /\ sizes[d] \in Nat /\ others[d] \in Nat
        /\ Total(sizes, i) \in Nat /\ Total(others, i) \in Nat
    BY <1>0
  <2>3. CASE i + 1 = d
    BY <1>2, <2>1, <2>2, <2>3
  <2>4. CASE i + 1 < d
    BY <1>2, <2>1, <2>2, <2>4
  <2>5. CASE i + 1 > d
    BY <1>2, <2>1, <2>2, <2>5
  <2> QED
    BY <2>3, <2>4, <2>5
<1> HIDE DEF Upto
<1>3. n \in Upto
  BY <1>1, <1>2, SetInduction
<1> QED
  BY <1>0, <1>3 DEF Upto

\* The function that FlattenSeq defines: the concatenations of the first i.
IsFlat(f, seqs, n) == f = [i \in 1 .. n |-> IF i = 1 THEN seqs[i] ELSE f[i - 1] \o seqs[i]]

LEMMA FlatExists ==
    ASSUME NEW seqs, NEW n \in Nat
    PROVE  \E f : IsFlat(f, seqs, n)
PROOF
<1> DEFINE Upto == {m \in Nat : \E f : IsFlat(f, seqs, m)}
<1>1. 0 \in Upto
  <2>1. IsFlat([i \in 1 .. 0 |-> 0], seqs, 0)
    BY DEF IsFlat
  <2> QED
    BY <2>1
<1>2. ASSUME NEW m \in Nat, m \in Upto
      PROVE  m + 1 \in Upto
  <2>1. PICK f : IsFlat(f, seqs, m)
    BY <1>2
  <2> DEFINE last == IF m = 0 THEN seqs[m + 1] ELSE f[m] \o seqs[m + 1]
             g == [i \in 1 .. (m + 1) |-> IF i = m + 1 THEN last ELSE f[i]]
  <2>2. IsFlat(g, seqs, m + 1)
    <3>1. ASSUME NEW i \in 1 .. (m + 1)
          PROVE  g[i] = IF i = 1 THEN seqs[i] ELSE g[i - 1] \o seqs[i]
      <4>1. CASE i = m + 1 /\ m = 0
        BY <4>1
      <4>2. CASE i = m + 1 /\ m # 0
        <5>1. i # 1 /\ i - 1 \in 1 .. (m + 1) /\ i - 1 = m
          BY <4>2
        <5>2. last = f[m] \o seqs[i]
          BY <4>2
        <5> HIDE DEF last
        <5>3. g[i] = last /\ g[i - 1] = f[m]
          BY <4>2, <5>1
        <5> QED
          BY <5>1, <5>2, <5>3
      <4>3. CASE i # m + 1
        <5>1. i \in 1 .. m /\ (i # 1 => i - 1 \in 1 .. m)
          BY <4>3
        <5>2. g[i] = f[i] /\ (i # 1 => g[i - 1] = f[i - 1])
          BY <4>3, <5>1
        <5>3. f[i] = IF i = 1 THEN seqs[i] ELSE f[i - 1] \o seqs[i]
          BY <2>1, <5>1 DEF IsFlat
        <5> QED
          BY <5>2, <5>3
      <4> QED
        BY <4>1, <4>2, <4>3
    <3> HIDE DEF last
    <3> QED
      BY <3>1 DEF IsFlat
  <2> QED
    BY <2>2
<1> HIDE DEF Upto
<1>3. n \in Upto
  BY <1>1, <1>2, SetInduction
<1> QED
  BY <1>3 DEF Upto

LEMMA FlattenIs ==
    ASSUME NEW seqs, Len(seqs) \in Nat, Len(seqs) # 0
    PROVE  \E f : IsFlat(f, seqs, Len(seqs)) /\ FlattenSeq(seqs) = f[Len(seqs)]
PROOF
<1> DEFINE f == CHOOSE h : IsFlat(h, seqs, Len(seqs))
<1>1. IsFlat(f, seqs, Len(seqs))
  BY FlatExists
<1>2. FlattenSeq(seqs) = f[Len(seqs)]
  BY DEF FlattenSeq, IsFlat
<1> QED
  BY <1>1, <1>2

\* Some sequences of members of S, their lengths, and their lengths in bytes.
AreParts(seqs, S) ==
    /\ Len(seqs) \in Nat \ {0}
    /\ DOMAIN seqs = 1 .. Len(seqs)
    /\ \A i \in 1 .. Len(seqs) : seqs[i] \in Seq(S)

Lens(seqs) == [i \in DOMAIN seqs |-> Len(seqs[i])]
ByteLens(seqs) == [i \in DOMAIN seqs |-> ByteLen(seqs[i])]

\* A part begins where the lengths of those before it add up to.
AreThere(seqs, flat) ==
    \A j \in 1 .. Len(seqs) : \A k \in 1 .. Len(seqs[j]) :
        /\ Total(Lens(seqs), j - 1) + k \in 1 .. Len(flat)
        /\ flat[Total(Lens(seqs), j - 1) + k] = seqs[j][k]

\* Where the sequences are that were concatenated.
LEMMA FlattenPlaces ==
    ASSUME NEW S, NEW seqs, AreParts(seqs, S)
    PROVE  /\ FlattenSeq(seqs) \in Seq(S)
           /\ Len(FlattenSeq(seqs)) = Total(Lens(seqs), Len(seqs))
           /\ AreThere(seqs, FlattenSeq(seqs))
PROOF
<1>a. PICK n \in Nat : n = Len(seqs) /\ n # 0
  BY DEF AreParts
<1>b. PICK lens : lens = Lens(seqs)
  OBVIOUS
<1>0. /\ lens = Lens(seqs) /\ n = Len(seqs) /\ n # 0
      /\ \A i \in 1 .. n : seqs[i] \in Seq(S)
      /\ \A i \in 1 .. n : lens[i] = Len(seqs[i])
  BY <1>a, <1>b DEF AreParts, Lens
<1>1. PICK f : IsFlat(f, seqs, n) /\ FlattenSeq(seqs) = f[n]
  BY <1>0, FlattenIs
<1> DEFINE P(i) == Total(lens, i)
           Placed(i) == /\ f[i] \in Seq(S)
                        /\ Len(f[i]) = P(i)
                        /\ \A j \in 1 .. i : \A k \in 1 .. Len(seqs[j]) :
                               P(j - 1) + k \in 1 .. P(i) /\ f[i][P(j - 1) + k] = seqs[j][k]
           Upto == {i \in Nat : i # 0 /\ i <= n => Placed(i)}
<1>2. \A i \in 1 .. n : lens[i] \in Nat
  BY <1>0, LenProperties
<1>3. \A i \in 0 .. n : P(i) \in Nat
  BY <1>2, TotalNatural
<1>4. P(0) = 0 /\ \A i \in Nat : P(i + 1) = P(i) + lens[i + 1]
  BY TotalGrows
<1> HIDE DEF P
<1>5. 0 \in Upto
  OBVIOUS
<1>6. ASSUME NEW i \in Nat, i \in Upto
      PROVE  i + 1 \in Upto
  <2> SUFFICES ASSUME i + 1 <= n PROVE Placed(i + 1)
    OBVIOUS
  <2> DEFINE next == i + 1
  <2>0. next \in 1 .. n /\ i \in 0 .. n
    OBVIOUS
  <2>1. seqs[next] \in Seq(S) /\ Len(seqs[next]) = lens[next] /\ lens[next] \in Nat
        /\ P(next) = P(i) + lens[next] /\ P(i) \in Nat
    <3>1. P(next) = P(i) + lens[next]
      BY <1>4
    <3>2. P(i) \in Nat
      BY <1>3, <2>0
    <3> HIDE DEF next
    <3> QED
      BY <1>0, <1>2, <2>0, <3>1, <3>2
  <2>2. CASE i = 0
    <3>1. f[1] = seqs[1] /\ next = 1
      BY <1>1, <2>2 DEF IsFlat
    <3>2. P(0) = 0 /\ P(1) = lens[1] /\ lens[1] = Len(seqs[1]) /\ lens[1] \in Nat
      <4>1. P(0 + 1) = P(0) + lens[0 + 1] /\ P(0) = 0
        BY <1>4
      <4> QED
        BY <2>1, <2>2, <4>1
    <3>3. ASSUME NEW j \in 1 .. 1, NEW k \in 1 .. Len(seqs[j])
          PROVE  P(j - 1) + k \in 1 .. P(1) /\ f[1][P(j - 1) + k] = seqs[j][k]
      <4>1. j = 1 /\ j - 1 = 0 /\ P(j - 1) + k = k /\ k \in 1 .. P(1)
        BY <3>2
      <4> QED
        BY <3>1, <4>1
    <3> QED
      BY <2>1, <3>1, <3>2, <3>3
  <2>3. CASE i # 0
    <3>1. f[next] = f[i] \o seqs[next]
      <4>1. next # 1 /\ next - 1 = i
        BY <2>3
      <4>2. f[next] = IF next = 1 THEN seqs[next] ELSE f[next - 1] \o seqs[next]
        BY <1>1, <2>0 DEF IsFlat
      <4> QED
        BY <4>1, <4>2
    <3>2. Placed(i)
      BY <1>6, <2>3
    <3> HIDE DEF next
    <3>3. /\ f[next] \in Seq(S)
          /\ Len(f[next]) = P(i) + lens[next]
          /\ \A k \in 1 .. (P(i) + lens[next]) :
                 f[next][k] = IF k <= P(i) THEN f[i][k] ELSE seqs[next][k - P(i)]
      <4>1. PICK before : before = f[i]
        OBVIOUS
      <4>2. PICK more : more = seqs[next]
        OBVIOUS
      <4>3. before \in Seq(S) /\ Len(before) = P(i) /\ more \in Seq(S) /\ Len(more) = lens[next]
        BY <2>1, <3>2, <4>1, <4>2
      <4>4. /\ before \o more \in Seq(S)
            /\ Len(before \o more) = Len(before) + Len(more)
            /\ \A k \in 1 .. Len(before) + Len(more) : (before \o more)[k] =
                   IF k <= Len(before) THEN before[k] ELSE more[k - Len(before)]
        BY ONLY <4>3, ConcatProperties
      <4>5. f[next] = before \o more
        BY <3>1, <4>1, <4>2
      <4> QED
        BY ONLY <4>1, <4>2, <4>3, <4>4, <4>5
    <3>4. ASSUME NEW j \in 1 .. next, NEW k \in 1 .. Len(seqs[j])
          PROVE  P(j - 1) + k \in 1 .. P(next) /\ f[next][P(j - 1) + k] = seqs[j][k]
      <4>1. CASE j = next
        <5>1. P(j - 1) = P(i)
          BY <4>1 DEF next
        <5>2. k \in 1 .. lens[next] /\ P(i) + k \in 1 .. P(next) /\ P(i) + k - P(i) = k
              /\ ~ (P(i) + k <= P(i))
          BY <2>1, <4>1
        <5>3. f[next][P(i) + k] = seqs[next][k]
          <6>1. PICK m : m = P(i) + k
            OBVIOUS
          <6>2. m \in 1 .. (P(i) + lens[next]) /\ ~ (m <= P(i)) /\ m - P(i) = k
            BY <2>1, <5>2, <6>1
          <6>3. f[next][m] = seqs[next][m - P(i)]
            BY <3>3, <6>2
          <6> QED
            BY <6>1, <6>2, <6>3
        <5> QED
          BY <4>1, <5>1, <5>2, <5>3
      <4>2. CASE j # next
        <5>1. j \in 1 .. i
          BY <4>2 DEF next
        <5>2. P(j - 1) + k \in 1 .. P(i) /\ f[i][P(j - 1) + k] = seqs[j][k]
          BY <3>2, <5>1
        <5>3. P(j - 1) + k \in 1 .. (P(i) + lens[next]) /\ P(j - 1) + k <= P(i)
          BY <2>1, <5>2
        <5> QED
          BY <2>1, <3>3, <5>2, <5>3
      <4> QED
        BY <4>1, <4>2
    <3> QED
      BY <2>1, <3>3, <3>4 DEF next
  <2> QED
    BY <2>2, <2>3
<1> HIDE DEF Upto
<1>7. n \in Upto
  BY <1>5, <1>6, SetInduction
<1>8. Placed(n)
  BY <1>0, <1>7 DEF Upto
<1> QED
  BY <1>0, <1>1, <1>8 DEF P, AreThere

\* The widths of the chunks of a buffer.
Widths(buffer) == [k \in DOMAIN buffer |-> buffer[k].width]

LEMMA ByteLenOfWidths ==
    ASSUME NEW S, NEW buffer \in Seq(S), NEW k \in 0 .. Len(buffer)
    PROVE  ByteLen(SubSeq(buffer, 1, k)) = Total(Widths(buffer), k)
PROOF
<1>1. Len(buffer) \in Nat /\ DOMAIN buffer = 1 .. Len(buffer)
      /\ \A i \in 1 .. Len(buffer) : buffer[i] \in S
  BY LenProperties, ElementOfSeq
<1>2. PICK part : part = SubSeq(buffer, 1, k)
  OBVIOUS
<1>3. part \in Seq(S) /\ Len(part) = k /\ \A i \in 1 .. k : part[i] = buffer[i]
  BY <1>1, <1>2, SubSeqProperties
<1>4. DOMAIN part = 1 .. k /\ k \in Nat
  BY <1>3, LenProperties
<1>5. \A i \in 1 .. k : Widths(part)[i] = Widths(buffer)[i]
  BY <1>1, <1>3, <1>4 DEF Widths
<1>6. Total(Widths(part), k) = Total(Widths(buffer), k)
  BY <1>4, <1>5, TotalSame
<1> QED
  BY <1>2, <1>3, <1>6 DEF ByteLen, Widths

\* The bytes of what was concatenated: a part ends at the bytes that it and those
\* before it have.
LEMMA FlattenBytes ==
    ASSUME NEW S, \A c \in S : c.width \in Nat \ {0}, NEW seqs, AreParts(seqs, S)
    PROVE  /\ \A j \in 0 .. Len(seqs) :
                  /\ Total(Lens(seqs), j) \in 0 .. Len(FlattenSeq(seqs))
                  /\ Total(Widths(FlattenSeq(seqs)), Total(Lens(seqs), j)) = Total(ByteLens(seqs), j)
           /\ \A i \in 1 .. Len(seqs) : ByteLens(seqs)[i] \in Nat
PROOF
<1>a. PICK n \in Nat : n = Len(seqs) /\ n # 0
  BY DEF AreParts
<1>b. PICK lens, bytes, flat :
          lens = Lens(seqs) /\ bytes = ByteLens(seqs) /\ flat = FlattenSeq(seqs)
  OBVIOUS
<1>0. /\ lens = Lens(seqs) /\ bytes = ByteLens(seqs) /\ flat = FlattenSeq(seqs)
      /\ n = Len(seqs) /\ n # 0
      /\ \A i \in 1 .. n : seqs[i] \in Seq(S)
      /\ \A i \in 1 .. n : lens[i] = Len(seqs[i])
      /\ \A i \in 1 .. n : bytes[i] = ByteLen(seqs[i])
  BY <1>a, <1>b DEF AreParts, Lens, ByteLens
<1> DEFINE P(i) == Total(lens, i)
<1>1. /\ flat \in Seq(S)
      /\ Len(flat) = P(n)
      /\ \A j \in 1 .. n : \A k \in 1 .. Len(seqs[j]) : flat[P(j - 1) + k] = seqs[j][k]
  BY <1>0, FlattenPlaces DEF AreThere
<1>2. \A i \in 1 .. n : lens[i] \in Nat
  BY <1>0, LenProperties
<1>3. \A i \in 0 .. n : P(i) \in Nat
  BY <1>2, TotalNatural
<1>4. P(0) = 0 /\ \A i \in Nat : P(i + 1) = P(i) + lens[i + 1]
  BY TotalGrows
<1> HIDE DEF P
<1>5. ASSUME NEW i \in 0 .. n
      PROVE  P(i) <= P(n)
  <2> DEFINE Beyond == {m \in Nat : i + m <= n => P(i) <= P(i + m)}
  <2>1. 0 \in Beyond
    BY <1>3
  <2>2. ASSUME NEW m \in Nat, m \in Beyond
        PROVE  m + 1 \in Beyond
    <3> SUFFICES ASSUME i + (m + 1) <= n PROVE P(i) <= P(i + (m + 1))
      OBVIOUS
    <3>1. PICK k \in Nat : k = i + m
      OBVIOUS
    <3>2. P(k + 1) = P(k) + lens[k + 1]
      BY <1>4
    <3>3. lens[k + 1] \in Nat /\ P(k) \in Nat /\ P(i) \in Nat /\ i + (m + 1) = k + 1
      BY <1>2, <1>3, <3>1
    <3>4. P(i) <= P(k)
      BY <2>2, <3>1
    <3> QED
      BY <3>2, <3>3, <3>4
  <2> HIDE DEF Beyond
  <2>3. \A m \in Nat : m \in Beyond
    BY <2>1, <2>2, SetInduction
  <2>4. n - i \in Nat /\ i + (n - i) = n
    OBVIOUS
  <2> QED
    BY <2>3, <2>4 DEF Beyond
<1>6. Len(flat) \in Nat /\ DOMAIN flat = 1 .. Len(flat) /\ \A k \in 1 .. Len(flat) : flat[k] \in S
  BY <1>1, LenProperties, ElementOfSeq
<1>7. \A k \in 1 .. Len(flat) : Widths(flat)[k] = flat[k].width /\ Widths(flat)[k] \in Nat
  BY <1>6 DEF Widths
<1>8. ASSUME NEW i \in 1 .. n
      PROVE  /\ bytes[i] = Total(Widths(seqs[i]), lens[i])
             /\ \A k \in 1 .. lens[i] : Widths(seqs[i])[k] = seqs[i][k].width
             /\ \A k \in 1 .. lens[i] : Widths(seqs[i])[k] \in Nat
             /\ bytes[i] \in Nat
  <2>1. PICK s : s = seqs[i]
    OBVIOUS
  <2>2. s \in Seq(S) /\ Len(s) = lens[i]
    BY <1>0, <2>1
  <2>3. DOMAIN s = 1 .. lens[i] /\ \A k \in 1 .. lens[i] : s[k] \in S
    BY <2>2, LenProperties, ElementOfSeq
  <2>4. \A k \in 1 .. lens[i] : Widths(s)[k] = s[k].width /\ Widths(s)[k] \in Nat
    BY <2>3 DEF Widths
  <2>5. bytes[i] = Total(Widths(s), lens[i])
    BY <1>0, <2>1, <2>2 DEF ByteLen, Widths
  <2>6. Total(Widths(s), lens[i]) \in Nat
    <3>1. PICK m \in Nat : m = lens[i]
      BY <1>2
    <3>2. \A k \in 0 .. m : Total(Widths(s), k) \in Nat
      BY <2>4, <3>1, TotalNatural
    <3> QED
      BY <3>1, <3>2
  <2> QED
    BY <2>1, <2>4, <2>5, <2>6
<1> DEFINE Upto == {j \in Nat : j <= n => Total(Widths(flat), P(j)) = Total(bytes, j)}
<1>9. 0 \in Upto
  BY <1>4, TotalGrows
<1>10. ASSUME NEW j \in Nat, j \in Upto
       PROVE  j + 1 \in Upto
  <2> SUFFICES ASSUME j + 1 <= n
               PROVE  Total(Widths(flat), P(j + 1)) = Total(bytes, j + 1)
    OBVIOUS
  <2>1. PICK i \in 1 .. n : i = j + 1 /\ i - 1 = j
    OBVIOUS
  <2>2. PICK w : w = Widths(seqs[i])
    OBVIOUS
  <2>3. /\ P(i) = P(j) + lens[i] /\ P(j) \in Nat /\ lens[i] \in Nat /\ P(i) <= Len(flat)
    <3>1. P(j + 1) = P(j) + lens[j + 1]
      BY <1>4
    <3>2. P(j) \in Nat
      BY <1>3, <2>1
    <3>3. lens[i] \in Nat /\ P(i) <= P(n)
      BY <1>2, <1>5, <2>1
    <3> QED
      BY <1>1, <2>1, <3>1, <3>2, <3>3
  <2>4. \A k \in 1 .. P(j) : Widths(flat)[k] \in Nat
    BY <1>6, <1>7, <2>3
  <2>5. \A k \in 1 .. lens[i] : w[k] \in Nat /\ Widths(flat)[P(j) + k] = w[k]
    <3> SUFFICES ASSUME NEW k \in 1 .. lens[i]
                 PROVE  w[k] \in Nat /\ Widths(flat)[P(j) + k] = w[k]
      OBVIOUS
    <3>1. P(j) + k \in 1 .. Len(flat)
      BY <1>6, <2>3
    <3>2. flat[P(j) + k] = seqs[i][k]
      BY <1>0, <1>1, <2>1
    <3>3. w[k] = seqs[i][k].width /\ w[k] \in Nat
      BY <1>8, <2>2
    <3> QED
      BY <1>7, <3>1, <3>2, <3>3
  <2>6. Total(Widths(flat), P(j) + lens[i]) = Total(Widths(flat), P(j)) + Total(w, lens[i])
    <3>1. PICK f : f = Widths(flat)
      OBVIOUS
    <3>2. PICK m \in Nat : m = P(j)
      BY <2>3
    <3>3. PICK l \in Nat : l = lens[i]
      BY <2>3
    <3>4. /\ \A k \in 1 .. m : f[k] \in Nat
          /\ \A k \in 1 .. l : w[k] \in Nat
          /\ \A k \in 1 .. l : f[m + k] = w[k]
      BY <2>4, <2>5, <3>1, <3>2, <3>3
    <3>5. Total(f, m + l) = Total(f, m) + Total(w, l)
      BY ONLY <3>4, m \in Nat, l \in Nat, TotalConcat
    <3> QED
      BY <3>1, <3>2, <3>3, <3>5
  <2>7. Total(bytes, i) = Total(bytes, j) + bytes[i]
    BY <2>1, TotalGrows
  <2>8. Total(Widths(flat), P(j)) = Total(bytes, j)
    BY <1>10
  <2> QED
    BY <1>8, <2>1, <2>2, <2>3, <2>6, <2>7, <2>8
<1> HIDE DEF Upto
<1>11. \A j \in Nat : j \in Upto
  BY <1>9, <1>10, SetInduction
<1>12. ASSUME NEW j \in 0 .. n
       PROVE  P(j) \in 0 .. Len(flat) /\ Total(Widths(flat), P(j)) = Total(bytes, j)
  BY <1>1, <1>3, <1>5, <1>6, <1>11 DEF Upto
<1> QED
  BY <1>0, <1>8, <1>12 DEF P

\* What FlattenPlaces and FlattenBytes say of the places in one buffer.
LEMMA PartsOf ==
    ASSUME NEW S, \A c \in S : c.width \in Nat \ {0}, NEW seqs, AreParts(seqs, S), NEW flat,
           flat = FlattenSeq(seqs)
    PROVE  /\ flat \in Seq(S) /\ Len(flat) \in Nat /\ Len(seqs) \in Nat \ {0}
           /\ Len(flat) = Total(Lens(seqs), Len(seqs))
           /\ \A j \in 1 .. Len(seqs) :
                  /\ seqs[j] \in Seq(S)
                  /\ Total(Lens(seqs), j) = Total(Lens(seqs), j - 1) + Len(seqs[j])
                  /\ \A k \in 1 .. Len(seqs[j]) :
                         flat[Total(Lens(seqs), j - 1) + k] = seqs[j][k]
           /\ \A j \in 0 .. Len(seqs) :
                  /\ Total(Lens(seqs), j) \in 0 .. Len(flat)
                  /\ Total(Widths(flat), Total(Lens(seqs), j)) = Total(ByteLens(seqs), j)
           /\ \A i, j \in 0 .. Len(flat) :
                  i < j <=> Total(Widths(flat), i) < Total(Widths(flat), j)
           /\ \A i \in 0 .. Len(flat) : Total(Widths(flat), i) \in Nat
PROOF
<1>1. /\ flat \in Seq(S) /\ Len(flat) = Total(Lens(seqs), Len(seqs)) /\ AreThere(seqs, flat)
  BY FlattenPlaces
<1>2. Len(flat) \in Nat /\ DOMAIN flat = 1 .. Len(flat)
      /\ \A i \in 1 .. Len(flat) : flat[i] \in S
  BY <1>1, LenProperties, ElementOfSeq
<1>3. \A i \in 1 .. Len(flat) : Widths(flat)[i] \in Nat \ {0}
  BY <1>2 DEF Widths
<1>4. PICK m, w : m = Len(flat) /\ w = Widths(flat)
  OBVIOUS
<1>5. m \in Nat /\ \A i \in 1 .. m : w[i] \in Nat \ {0}
  BY <1>2, <1>3, <1>4
<1>6. \A i, j \in 0 .. m : i < j <=> Total(w, i) < Total(w, j)
  BY ONLY <1>5, TotalIncreases
<1>7. \A i \in 0 .. m : Total(w, i) \in Nat
  BY ONLY <1>5, TotalNatural
<1>8. Len(seqs) \in Nat \ {0}
  BY DEF AreParts
<1>9. ASSUME NEW j \in 1 .. Len(seqs)
      PROVE  /\ seqs[j] \in Seq(S)
             /\ Total(Lens(seqs), j) = Total(Lens(seqs), j - 1) + Len(seqs[j])
  <2>1. PICK i \in Nat : i = j - 1 /\ i + 1 = j
    BY <1>8
  <2>2. Total(Lens(seqs), i + 1) = Total(Lens(seqs), i) + Lens(seqs)[i + 1]
    BY TotalGrows
  <2> QED
    BY <2>1, <2>2 DEF AreParts, Lens
<1>10. \A j \in 0 .. Len(seqs) :
          /\ Total(Lens(seqs), j) \in 0 .. Len(flat)
          /\ Total(Widths(flat), Total(Lens(seqs), j)) = Total(ByteLens(seqs), j)
  BY FlattenBytes
<1>11. /\ \A i, j \in 0 .. Len(flat) :
              i < j <=> Total(Widths(flat), i) < Total(Widths(flat), j)
       /\ \A i \in 0 .. Len(flat) : Total(Widths(flat), i) \in Nat
  BY <1>4, <1>6, <1>7
<1> QED
  BY <1>1, <1>2, <1>8, <1>9, <1>10, <1>11 DEF AreThere

\* A part of a buffer is the slice between its bytes.
LEMMA SliceIsPart ==
    ASSUME NEW S, \A c \in S : c.width \in Nat \ {0}, NEW seqs, AreParts(seqs, S),
           NEW j \in 1 .. Len(seqs)
    PROVE  Slice(FlattenSeq(seqs), Total(ByteLens(seqs), j - 1), Total(ByteLens(seqs), j))
               = seqs[j]
PROOF
<1>1. PICK flat : flat = FlattenSeq(seqs)
  OBVIOUS
<1>2. PICK w : w = Widths(flat)
  OBVIOUS
<1> DEFINE P(i) == Total(Lens(seqs), i)
           B(i) == Total(ByteLens(seqs), i)
           W(i) == Total(w, i)
<1>3. /\ flat \in Seq(S) /\ Len(flat) \in Nat /\ Len(seqs) \in Nat
      /\ seqs[j] \in Seq(S)
      /\ P(j) = P(j - 1) + Len(seqs[j])
      /\ \A k \in 1 .. Len(seqs[j]) : flat[P(j - 1) + k] = seqs[j][k]
  BY <1>1, PartsOf, SMTT(60)
<1>4. \A i \in 0 .. Len(seqs) : P(i) \in 0 .. Len(flat) /\ W(P(i)) = B(i)
  BY <1>1, <1>2, PartsOf
<1>5. /\ \A h, i \in 0 .. Len(flat) : h < i <=> W(h) < W(i)
      /\ \A i \in 0 .. Len(flat) : W(i) \in Nat
  BY <1>1, <1>2, PartsOf
<1>6. \A k \in 0 .. Len(flat) : ByteLen(SubSeq(flat, 1, k)) = W(k)
  BY <1>2, <1>3, ByteLenOfWidths
<1> HIDE DEF P, B, W
<1>7. ASSUME NEW i \in 0 .. Len(seqs)
      PROVE  ChunksIn(flat, B(i)) = P(i)
  <2> DEFINE ends == {k \in DOMAIN flat : ByteLen(SubSeq(flat, 1, k)) <= B(i)}
  <2>1. DOMAIN flat = 1 .. Len(flat)
    BY <1>3, LenProperties
  <2>2. P(i) \in 0 .. Len(flat) /\ B(i) = W(P(i))
    BY <1>4
  <2>3. ASSUME NEW k \in 1 .. Len(flat)
        PROVE  ByteLen(SubSeq(flat, 1, k)) <= B(i) <=> k <= P(i)
    <3>1. k \in 0 .. Len(flat) /\ W(k) \in Nat /\ W(P(i)) \in Nat
      BY <1>3, <1>5, <2>2
    <3>2. P(i) < k <=> W(P(i)) < W(k)
      BY <1>5, <2>2, <3>1
    <3>3. ByteLen(SubSeq(flat, 1, k)) = W(k)
      BY <1>6, <3>1
    <3> QED
      BY <1>3, <2>2, <3>1, <3>2, <3>3
  <2>4. ends = 1 .. P(i)
    BY <1>3, <2>1, <2>2, <2>3
  <2> HIDE DEF ends
  <2>5. Cardinality(1 .. P(i)) = P(i)
    BY <2>2, FS_Interval
  <2> QED
    BY <2>4, <2>5 DEF ChunksIn, ends
<1>8. PICK first, end : first = P(j - 1) /\ end = P(j)
  OBVIOUS
<1>9. /\ first \in Nat /\ end \in Nat /\ end = first + Len(seqs[j]) /\ end <= Len(flat)
      /\ Len(seqs[j]) \in Nat
  BY <1>3, <1>4, <1>8, LenProperties
<1>10. Slice(flat, B(j - 1), B(j)) = SubSeq(flat, first + 1, end)
  <2>1. j - 1 \in 0 .. Len(seqs) /\ j \in 0 .. Len(seqs)
    BY <1>3
  <2>2. ChunksIn(flat, B(j - 1)) = first /\ ChunksIn(flat, B(j)) = end
    BY <1>7, <1>8, <2>1
  <2> QED
    BY <2>2 DEF Slice
<1>11. PICK part : part = SubSeq(flat, first + 1, end)
  OBVIOUS
<1>12. \A i \in (first + 1) .. end : flat[i] \in S
  BY <1>3, <1>9, ElementOfSeq
<1>13. /\ part \in Seq(S)
       /\ Len(part) = IF first + 1 <= end THEN end - (first + 1) + 1 ELSE 0
       /\ \A i \in 1 .. (end - (first + 1) + 1) : part[i] = flat[first + 1 + i - 1]
  BY <1>9, <1>11, <1>12, SubSeqProperties
<1>14. Len(part) = Len(seqs[j])
  BY <1>9, <1>13
<1>15. ASSUME NEW k \in 1 .. Len(part)
       PROVE  part[k] = seqs[j][k]
  <2>1. k \in 1 .. (end - (first + 1) + 1) /\ first + 1 + k - 1 = first + k
    BY <1>9, <1>14
  <2>2. part[k] = flat[first + k]
    BY <1>13, <2>1
  <2> QED
    BY <1>3, <1>8, <1>14, <2>2
<1>16. part = seqs[j]
  BY <1>3, <1>13, <1>14, <1>15, SeqEqual
<1> QED
  BY <1>1, <1>10, <1>11, <1>16 DEF B

\* A buffer of parts of the same lengths in bytes, but for one that the length of
\* the whole then fixes, has the same parts.
LEMMA SameParts ==
    ASSUME NEW S, \A c \in S : c.width \in Nat \ {0},
           NEW seqs, AreParts(seqs, S), NEW others, AreParts(others, S),
           Len(seqs) = Len(others), FlattenSeq(seqs) = FlattenSeq(others),
           NEW d \in 1 .. Len(seqs),
           \A i \in 1 .. Len(seqs) : i # d => ByteLen(seqs[i]) = ByteLen(others[i])
    PROVE  \A i \in 1 .. Len(seqs) : seqs[i] = others[i]
PROOF
<1>1. PICK f, g, n : f = ByteLens(seqs) /\ g = ByteLens(others) /\ n = Len(seqs)
  OBVIOUS
<1>2. n \in Nat /\ DOMAIN seqs = 1 .. n /\ DOMAIN others = 1 .. n
  BY <1>1 DEF AreParts
<1>3. \A i \in 1 .. n : f[i] = ByteLen(seqs[i]) /\ g[i] = ByteLen(others[i])
  BY <1>1, <1>2 DEF ByteLens
<1>4. /\ \A i \in 1 .. n : f[i] \in Nat
      /\ \A i \in 1 .. n : g[i] \in Nat
  BY <1>1, FlattenBytes
<1>5. Total(f, n) = Total(g, n)
  <2>1. PICK flat : flat = FlattenSeq(seqs)
    OBVIOUS
  <2>2. n \in 0 .. Len(seqs) /\ n \in 0 .. Len(others)
    BY <1>1, <1>2
  <2>3. Total(f, n) = Total(Widths(flat), Len(flat))
    <3>1. Len(flat) = Total(Lens(seqs), Len(seqs))
      BY <2>1, PartsOf
    <3>2. \A j \in 0 .. Len(seqs) :
              Total(Widths(flat), Total(Lens(seqs), j)) = Total(ByteLens(seqs), j)
      BY <2>1, FlattenBytes
    <3> QED
      BY <1>1, <2>2, <3>1, <3>2
  <2>4. Total(g, n) = Total(Widths(flat), Len(flat))
    <3>1. flat = FlattenSeq(others)
      BY <2>1
    <3>2. Len(flat) = Total(Lens(others), Len(others))
      BY <3>1, PartsOf
    <3>3. \A j \in 0 .. Len(others) :
              Total(Widths(flat), Total(Lens(others), j)) = Total(ByteLens(others), j)
      BY <3>1, FlattenBytes
    <3> QED
      BY <1>1, <2>2, <3>2, <3>3
  <2> QED
    BY <2>3, <2>4
<1>6. \A i \in 1 .. n : i # d => f[i] = g[i]
  BY <1>1, <1>3
<1>7. f[d] = g[d]
  BY ONLY <1>2, <1>4, <1>5, <1>6, d \in 1 .. Len(seqs), n = Len(seqs), TotalFixes
<1>8. \A i \in 1 .. n : f[i] = g[i]
  BY <1>6, <1>7
<1>9. ASSUME NEW i \in 1 .. n
      PROVE  seqs[i] = others[i]
  <2>1. PICK k \in 0 .. n : k = i - 1
    BY <1>2
  <2>2. Total(f, k) = Total(g, k) /\ Total(f, i) = Total(g, i)
    <3>1. \A j \in 0 .. n : Total(f, j) = Total(g, j)
      BY <1>2, <1>8, TotalSame
    <3> QED
      BY <1>2, <2>1, <3>1
  <2>3. Slice(FlattenSeq(seqs), Total(f, k), Total(f, i)) = seqs[i]
    BY <1>1, <2>1, SliceIsPart
  <2>4. Slice(FlattenSeq(others), Total(g, k), Total(g, i)) = others[i]
    BY <1>1, <2>1, SliceIsPart
  <2> QED
    BY <2>2, <2>3, <2>4
<1> QED
  BY <1>1, <1>9

-----------------------------------------------------------------------------
(* The chain of a transcript.                                                *)

ChallengeOf(r) == round_manifests[r].challenge

\* Round q is the last one before round r that has challenges.
Precedes(q, r) ==
    /\ q < r
    /\ HasChallenges(q)
    /\ \A p \in (q + 1) .. (r - 1) : ~ HasChallenges(p)

\* The challenge that round r hashes first.
IsPrevious(challenge, derived, r) ==
    \/ \E q \in 1 .. (r - 1) : Precedes(q, r) /\ challenge = Last(derived[ChallengeOf(q)])
    \/ (\A q \in 1 .. (r - 1) : ~ HasChallenges(q)) /\ challenge = NoChallenge

\* The challenges of round r are those of the elements it was derived from.
IsDerived(r, derived, elems) ==
    \E previous : /\ IsPrevious(previous, derived, r)
                  /\ derived[ChallengeOf(r)] =
                        RoundChallenges(r - 1, RoundBuffer(r - 1, previous, elems))

Chain(derived, rounds, current, at) ==
    /\ rounds \in 0 .. num_rounds
    /\ DOMAIN at = 1 .. rounds
    /\ DOMAIN derived = {ChallengeOf(r) : r \in {q \in 1 .. rounds : HasChallenges(q)}}
    /\ IsPrevious(current, derived, rounds + 1)
    /\ \A r \in 1 .. rounds : HasChallenges(r) => IsDerived(r, derived, at[r])

\* A challenge of an earlier round is not changed by the next one, and what it
\* was derived from is still what it was.
LEMMA PreviousKept ==
    ASSUME NEW derived, NEW after, NEW r \in Nat, NEW challenge,
           \A q \in 1 .. (r - 1) : HasChallenges(q) =>
               after[ChallengeOf(q)] = derived[ChallengeOf(q)],
           IsPrevious(challenge, derived, r)
    PROVE  IsPrevious(challenge, after, r)
PROOF BY DEF IsPrevious, Precedes

\* apply_fiat_shamir without challenges.
LEMMA ChainSkips ==
    ASSUME NEW derived, NEW rounds \in Nat, NEW current, NEW at, NEW elems, NEW at_after,
           Chain(derived, rounds, current, at), rounds < num_rounds,
           ~ HasChallenges(rounds + 1),
           at_after = With(at, rounds + 1, elems)
    PROVE  Chain(derived, rounds + 1, current, at_after)
PROOF
<1> USE ManifestAssumption
<1>1. rounds + 1 \in 0 .. num_rounds
  OBVIOUS
<1>2. {q \in 1 .. (rounds + 1) : HasChallenges(q)} = {q \in 1 .. rounds : HasChallenges(q)}
  OBVIOUS
<1>3. IsPrevious(current, derived, rounds + 1 + 1)
  BY DEF Chain, IsPrevious, Precedes
<1>4. DOMAIN at_after = 1 .. (rounds + 1) /\ \A r \in 1 .. rounds : at_after[r] = at[r]
  BY DEF Chain, With
<1>5. ASSUME NEW r \in 1 .. (rounds + 1), HasChallenges(r)
      PROVE  IsDerived(r, derived, at_after[r])
  BY <1>4, <1>5 DEF Chain
<1> QED
  BY <1>1, <1>2, <1>3, <1>4, <1>5 DEF Chain

\* apply_fiat_shamir with challenges.
LEMMA ChainGrows ==
    ASSUME NEW derived, NEW rounds \in Nat, NEW current, NEW at, NEW elems,
           NEW after, NEW current_after, NEW at_after, NEW fresh,
           Chain(derived, rounds, current, at), rounds < num_rounds,
           HasChallenges(rounds + 1),
           fresh = RoundChallenges(rounds, RoundBuffer(rounds, current, elems)),
           after = Inserted(derived, ChallengeOf(rounds + 1), fresh),
           current_after = Last(fresh),
           at_after = With(at, rounds + 1, elems)
    PROVE  Chain(after, rounds + 1, current_after, at_after)
PROOF
<1> DEFINE next == rounds + 1
<1>0. next \in 1 .. num_rounds /\ next - 1 = rounds /\ rounds \in 0 .. num_rounds
  BY ManifestAssumption
<1>1. \A q \in 1 .. rounds : ChallengeOf(q) # ChallengeOf(next)
  BY <1>0, ManifestAssumption DEF ChallengeOf, Rounds
<1>2. ChallengeOf(next) \notin DOMAIN derived
  BY <1>1 DEF Chain
<1>3. after[ChallengeOf(next)] = fresh
  BY <1>2 DEF Inserted
<1>4. \A q \in 1 .. rounds : HasChallenges(q) => after[ChallengeOf(q)] = derived[ChallengeOf(q)]
  BY DEF Chain, Inserted
<1>5. DOMAIN after = {ChallengeOf(r) : r \in {q \in 1 .. next : HasChallenges(q)}}
  <2>1. DOMAIN after = DOMAIN derived \cup {ChallengeOf(next)}
    BY DEF Inserted
  <2>2. {q \in 1 .. next : HasChallenges(q)} = {q \in 1 .. rounds : HasChallenges(q)} \cup {next}
    BY <1>0
  <2> QED
    BY <2>1, <2>2 DEF Chain
<1>6. IsPrevious(current_after, after, next + 1)
  <2>1. Precedes(next, next + 1)
    BY <1>0 DEF Precedes
  <2>2. next \in 1 .. (next + 1 - 1) /\ current_after = Last(after[ChallengeOf(next)])
    BY <1>0, <1>3
  <2> QED
    BY <2>1, <2>2 DEF IsPrevious
<1>7. DOMAIN at_after = 1 .. next /\ at_after[next] = elems
      /\ \A r \in 1 .. rounds : at_after[r] = at[r]
  BY DEF Chain, With
<1>8. ASSUME NEW r \in 1 .. next, HasChallenges(r)
      PROVE  IsDerived(r, after, at_after[r])
  <2>1. CASE r = next
    <3>1. IsPrevious(current, after, next)
      BY <1>0, <1>4, PreviousKept DEF Chain
    <3>2. after[ChallengeOf(next)] = RoundChallenges(next - 1, RoundBuffer(next - 1, current, elems))
      BY <1>0, <1>3
    <3> QED
      BY <2>1, <3>1, <3>2, <1>7 DEF IsDerived
  <2>2. CASE r # next
    <3>1. r \in 1 .. rounds
      BY <2>2, <1>0
    <3>2. IsDerived(r, derived, at[r])
      BY <3>1, <1>8 DEF Chain
    <3>3. PICK previous : /\ IsPrevious(previous, derived, r)
                          /\ derived[ChallengeOf(r)] =
                                RoundChallenges(r - 1, RoundBuffer(r - 1, previous, at[r]))
      BY <3>2 DEF IsDerived
    <3>4. IsPrevious(previous, after, r)
      BY <3>1, <3>3, <1>4, PreviousKept
    <3> QED
      BY <3>1, <3>3, <3>4, <1>4, <1>7, <1>8 DEF IsDerived
  <2> QED
    BY <2>1, <2>2
<1> QED
  BY <1>0, <1>5, <1>6, <1>7, <1>8 DEF Chain

-----------------------------------------------------------------------------
(* The inductive invariant.                                                  *)

Names == {e.name : e \in AllEntries}

Phases ==
    /\ phase \in {"proving", "mocking", "exported", "verifying", "refused"}
    /\ phase # "verifying" => v_current_round = 0
    /\ phase = "mocking" =>
          \E r \in Rounds : r > current_round /\ mocked.challenge = ChallengeOf(r)

ProverChain == Chain(challenges, current_round, current_challenge, hashed)
VerifierChain == Chain(v_challenges, v_current_round, v_current_challenge, v_hashed)

\* The verifier replaces none of the elements that the proof had.
SentKept ==
    /\ phase = "verifying" => {e.name : e \in Sent} \subseteq DOMAIN v_elements
    /\ \A r \in 1 .. v_current_round : \A e \in Entries(r) :
          ~ e.derived_by_verifier => v_hashed[r][e.name] = v_elements[e.name]

IInv ==
    /\ Phases
    /\ DOMAIN elements \subseteq Names
    /\ DOMAIN v_elements \subseteq Names
    /\ ProverChain
    /\ VerifierChain
    /\ SentKept

LEMMA InitInv == Init => IInv
PROOF
<1> SUFFICES ASSUME Init PROVE IInv
  OBVIOUS
<1> USE ManifestAssumption DEF Init, TranscriptInit, Verifier!TranscriptInit
<1>1. Phases
  BY DEF Phases
<1>2. DOMAIN elements \subseteq Names /\ DOMAIN v_elements \subseteq Names
  OBVIOUS
<1>3. Chain(<<>>, 0, NoChallenge, <<>>)
  BY DEF Chain, IsPrevious
<1>4. ProverChain /\ VerifierChain
  BY <1>3 DEF ProverChain, VerifierChain, Verifier!NoChallenge, NoChallenge
<1>5. SentKept
  BY DEF SentKept
<1> QED
  BY <1>1, <1>2, <1>4, <1>5 DEF IInv

\* A round of the prover's, of the elements that it then has.
LEMMA ProverRound ==
    ASSUME NEW elems, ProverChain, current_round < num_rounds,
           apply_fiat_shamir(round_manifest.challenge, elems),
           hashed' = With(hashed, current_round + 1, elems)
    PROVE  ProverChain' /\ elements' = elems /\ current_round' = current_round + 1
PROOF
<1>1. current_round \in Nat /\ current_round + 1 - 1 = current_round
  BY ManifestAssumption DEF ProverChain, Chain
<1>2. elements' = elems /\ current_round' = current_round + 1
  BY DEF apply_fiat_shamir
<1>3. current_round + 1 \in Rounds /\ round_manifests[current_round + 1].num_challenges \in Nat
  BY <1>1, ManifestAssumption DEF Rounds
<1>4. CASE HasChallenges(current_round + 1)
  <2> DEFINE fresh == RoundChallenges(current_round,
                          RoundBuffer(current_round, current_challenge, elems))
  <2>1. challenges' = Inserted(challenges, ChallengeOf(current_round + 1), fresh)
        /\ current_challenge' = Last(fresh)
    BY <1>3, <1>4 DEF apply_fiat_shamir, HasChallenges, round_manifest, ChallengeOf
  <2> HIDE DEF fresh
  <2> QED
    BY <1>1, <1>2, <1>4, <2>1, ChainGrows DEF ProverChain, fresh
<1>5. CASE ~ HasChallenges(current_round + 1)
  <2>1. UNCHANGED <<challenges, current_challenge>>
    BY <1>3, <1>5 DEF apply_fiat_shamir, HasChallenges, round_manifest
  <2> QED
    BY <1>1, <1>2, <1>5, <2>1, ChainSkips DEF ProverChain
<1> QED
  BY <1>2, <1>4, <1>5

\* The verifier's transcript concatenates as the prover's does.
LEMMA VerifierFlattens == \A s : Verifier!FlattenSeq(s) = FlattenSeq(s)
PROOF BY DEF Verifier!FlattenSeq, FlattenSeq

\* A round of the verifier's.
LEMMA VerifierRound ==
    ASSUME NEW elems, VerifierChain, v_current_round < num_rounds,
           Verifier!apply_fiat_shamir(Verifier!round_manifest.challenge, elems),
           v_hashed' = With(v_hashed, v_current_round + 1, elems)
    PROVE  VerifierChain' /\ v_elements' = elems /\ v_current_round' = v_current_round + 1
PROOF
<1>1. v_current_round \in Nat /\ v_current_round + 1 - 1 = v_current_round
  BY ManifestAssumption DEF VerifierChain, Chain
<1>2. v_elements' = elems /\ v_current_round' = v_current_round + 1
  BY DEF Verifier!apply_fiat_shamir
<1>3. v_current_round + 1 \in Rounds
      /\ round_manifests[v_current_round + 1].num_challenges \in Nat
  BY <1>1, ManifestAssumption DEF Rounds
<1>4. CASE HasChallenges(v_current_round + 1)
  <2> DEFINE fresh == RoundChallenges(v_current_round,
                          RoundBuffer(v_current_round, v_current_challenge, elems))
  <2>1. fresh = Verifier!RoundChallenges(v_current_round,
                    Verifier!RoundBuffer(v_current_round, v_current_challenge, elems))
    BY VerifierFlattens
       DEF RoundChallenges, RoundBuffer, Verifier!RoundChallenges, Verifier!RoundBuffer
  <2> HIDE DEF fresh
  <2>2. /\ v_challenges' = Verifier!Inserted(v_challenges, ChallengeOf(v_current_round + 1), fresh)
        /\ v_current_challenge' = Last(fresh)
    BY <1>3, <1>4, <2>1 DEF Verifier!apply_fiat_shamir, HasChallenges, Verifier!round_manifest,
       ChallengeOf, Verifier!Last, Last
  <2>3. v_challenges' = Inserted(v_challenges, ChallengeOf(v_current_round + 1), fresh)
    BY <2>2 DEF Inserted, Verifier!Inserted
  <2> QED
    BY <1>1, <1>2, <1>4, <2>2, <2>3, ChainGrows DEF VerifierChain, fresh
<1>5. CASE ~ HasChallenges(v_current_round + 1)
  <2>1. UNCHANGED <<v_challenges, v_current_challenge>>
    BY <1>3, <1>5 DEF Verifier!apply_fiat_shamir, HasChallenges, Verifier!round_manifest
  <2> QED
    BY <1>1, <1>2, <1>5, <2>1, ChainSkips DEF VerifierChain
<1> QED
  BY <1>2, <1>4, <1>5

-----------------------------------------------------------------------------
(* Every step preserves it.                                                  *)

\* Neither transcript's rounds change: what is left is the phase and elements.
LEMMA ChainsKept ==
    ASSUME ProverChain, VerifierChain,
           UNCHANGED <<challenges, current_round, current_challenge, hashed,
                       v_challenges, v_current_round, v_current_challenge, v_hashed>>
    PROVE  ProverChain' /\ VerifierChain'
PROOF BY DEF ProverChain, VerifierChain, Chain, IsPrevious, IsDerived, Precedes

LEMMA ProverChainKept ==
    ASSUME ProverChain, UNCHANGED <<challenges, current_round, current_challenge, hashed>>
    PROVE  ProverChain'
PROOF BY DEF ProverChain, Chain, IsPrevious, IsDerived, Precedes

LEMMA VerifierChainKept ==
    ASSUME VerifierChain,
           UNCHANGED <<v_challenges, v_current_round, v_current_challenge, v_hashed>>
    PROVE  VerifierChain'
PROOF BY DEF VerifierChain, Chain, IsPrevious, IsDerived, Precedes

LEMMA ProverAddsStep ==
    ASSUME IInv, NEW element_name \in DOMAIN Kind, NEW value, ProverAdds(element_name, value)
    PROVE  IInv'
PROOF
<1> USE DEF ProverAdds, verifierVars
<1>1. PICK buffer : elements' = With(elements, element_name, buffer)
  BY DEF AddAs, add_element, add_field_element, add_group_element, put_field_element_vector
<1>2. UNCHANGED <<challenges, current_round, current_challenge>>
  BY DEF AddAs, add_element, add_field_element, add_group_element, put_field_element_vector
<1>3. DOMAIN elements' \subseteq Names
  BY <1>1, ManifestAssumption DEF IInv, With, Names
<1>4. Phases'
  BY DEF IInv, Phases
<1>5. SentKept'
  BY DEF IInv, SentKept
<1> QED
  BY <1>2, <1>3, <1>4, <1>5, ProverChainKept, VerifierChainKept DEF IInv

LEMMA ProverDerivesStep == IInv /\ ProverDerives => IInv'
PROOF
<1> SUFFICES ASSUME IInv, ProverDerives PROVE IInv'
  OBVIOUS
<1> USE DEF ProverDerives, verifierVars
<1>1. PICK elems : elems = elements
  OBVIOUS
<1>2. ProverChain' /\ elements' = elems
  BY <1>1, ProverRound DEF IInv
<1>3. Phases'
  BY DEF IInv, Phases
<1>4. SentKept'
  BY DEF IInv, SentKept
<1> QED
  BY <1>1, <1>2, <1>3, <1>4, VerifierChainKept DEF IInv

LEMMA StartsMockingStep ==
    ASSUME IInv, NEW r \in Rounds, NEW circuit_size,
           mock_inputs_prior_to_challenge(round_manifests[r].challenge, circuit_size)
    PROVE  IInv'
PROOF
<1> USE DEF mock_inputs_prior_to_challenge, verifierVars
<1>1. Phases'
  BY ManifestAssumption DEF IInv, Phases, ChallengeOf, Rounds
<1>2. SentKept'
  BY DEF IInv, SentKept
<1> QED
  BY <1>1, <1>2, ProverChainKept, VerifierChainKept DEF IInv

LEMMA MockRoundStep == IInv /\ MockRound => IInv'
PROOF
<1> SUFFICES ASSUME IInv, MockRound PROVE IInv'
  OBVIOUS
<1> USE DEF MockRound, verifierVars
<1>1. PICK elems : elems = Mocked(current_round + 1, mocked.circuit_size)
  OBVIOUS
<1>2. PICK asked \in Rounds : asked > current_round /\ mocked.challenge = ChallengeOf(asked)
  BY DEF IInv, Phases
<1>3. current_round \in Nat /\ current_round + 1 \in Rounds /\ current_round < num_rounds
  BY <1>2, ManifestAssumption DEF IInv, ProverChain, Chain, Rounds
<1>4. DOMAIN elems \subseteq Names
  BY <1>1, <1>3 DEF IInv, Mocked, Names, AllEntries
<1>5. SentKept'
  BY DEF IInv, SentKept
<1>6. CASE round_manifest.challenge = mocked.challenge
  <2>1. Phases'
    BY <1>6 DEF IInv, Phases
  <2>2. elements' = elems
    BY <1>1, <1>6
  <2>3. ProverChain' /\ VerifierChain'
    BY <1>6, ProverChainKept, VerifierChainKept DEF IInv
  <2> QED
    BY <1>4, <1>5, <2>1, <2>2, <2>3 DEF IInv
<1>7. CASE round_manifest.challenge # mocked.challenge
  <2>1. ProverChain' /\ elements' = elems /\ current_round' = current_round + 1
    BY <1>1, <1>3, <1>7, ProverRound DEF IInv
  <2>2. asked # current_round + 1
    BY <1>2, <1>7 DEF ChallengeOf, round_manifest
  <2>3. asked > current_round + 1
    BY <1>2, <1>3, <2>2, ManifestAssumption DEF Rounds
  <2>4. Phases'
    BY <1>2, <1>7, <2>1, <2>3 DEF IInv, Phases
  <2> QED
    BY <1>4, <1>5, <2>1, <2>4, VerifierChainKept DEF IInv
<1> QED
  BY <1>6, <1>7

LEMMA ExportStep == IInv /\ export_transcript => IInv'
PROOF
<1> SUFFICES ASSUME IInv, export_transcript PROVE IInv'
  OBVIOUS
<1> USE DEF export_transcript, proverVars, verifierVars
<1>1. Phases'
  BY DEF IInv, Phases
<1>2. SentKept'
  BY DEF IInv, SentKept
<1> QED
  BY <1>1, <1>2, ProverChainKept, VerifierChainKept DEF IInv

LEMMA LoadStep ==
    ASSUME IInv, NEW input_transcript, new_from_transcript(input_transcript)
    PROVE  IInv'
PROOF
<1> USE DEF new_from_transcript, proverVars
<1>1. Phases' /\ v_current_round = 0
  BY DEF IInv, Phases
<1>2. DOMAIN LoadedElements(input_transcript) = {e.name : e \in Sent}
  BY DEF LoadedElements
<1>3. SentKept'
  BY <1>1, <1>2 DEF SentKept
<1>4. DOMAIN v_elements' \subseteq Names
  BY <1>2 DEF IInv, Names, Sent
<1> QED
  BY <1>1, <1>3, <1>4, ProverChainKept, VerifierChainKept DEF IInv

LEMMA VerifierAddsStep ==
    ASSUME IInv, NEW element_name \in DOMAIN Kind, NEW value, VerifierAdds(element_name, value)
    PROVE  IInv'
PROOF
<1> USE DEF VerifierAdds, proverVars
<1>1. PICK buffer : v_elements' = With(v_elements, element_name, buffer)
  BY DEF Verifier!add_element, Verifier!add_field_element, Verifier!put_field_element_vector,
         With, Verifier!With
<1>2. UNCHANGED <<v_challenges, v_current_round, v_current_challenge>>
  BY DEF Verifier!add_element, Verifier!add_field_element, Verifier!put_field_element_vector
<1>3. DOMAIN v_elements' \subseteq Names
  BY <1>1, ManifestAssumption DEF IInv, With, Names
<1>4. Phases'
  BY <1>2 DEF IInv, Phases
<1>5. SentKept'
  <2>0. phase' = "verifying" => {e.name : e \in Sent} \subseteq DOMAIN v_elements'
    BY <1>1 DEF IInv, SentKept, With
  <2> SUFFICES ASSUME NEW r \in 1 .. v_current_round, NEW e \in Entries(r), ~ e.derived_by_verifier
               PROVE  v_hashed[r][e.name] = v_elements'[e.name]
    BY <1>2, <2>0 DEF SentKept
  <2>1. r \in Rounds
    BY ManifestAssumption DEF Rounds, IInv, VerifierChain, Chain
  <2>2. e \in AllEntries
    BY <2>1 DEF AllEntries
  <2>3. e.name # element_name
    BY <2>2, ManifestAssumption
  <2>4. e.name \in DOMAIN v_elements
    BY <2>2 DEF IInv, SentKept, Sent
  <2>5. v_elements'[e.name] = v_elements[e.name]
    BY <1>1, <2>3, <2>4 DEF With
  <2> QED
    BY <2>5 DEF IInv, SentKept
<1> QED
  BY <1>2, <1>3, <1>4, <1>5, ProverChainKept, VerifierChainKept DEF IInv

LEMMA VerifierDerivesStep == IInv /\ VerifierDerives => IInv'
PROOF
<1> SUFFICES ASSUME IInv, VerifierDerives PROVE IInv'
  OBVIOUS
<1> USE DEF VerifierDerives, proverVars
<1>1. PICK elems : elems = v_elements
  OBVIOUS
<1>2. VerifierChain' /\ v_elements' = elems /\ v_current_round' = v_current_round + 1
  BY <1>1, VerifierRound DEF IInv
<1>3. Phases'
  BY DEF IInv, Phases
<1>4. SentKept'
  <2>1. DOMAIN v_hashed = 1 .. v_current_round /\ v_current_round \in Nat
    BY ManifestAssumption DEF IInv, VerifierChain, Chain
  <2>2. v_hashed'[v_current_round + 1] = elems
        /\ \A r \in 1 .. v_current_round : v_hashed'[r] = v_hashed[r]
    BY <1>1, <2>1 DEF With
  <2> QED
    BY <1>1, <1>2, <2>1, <2>2 DEF IInv, SentKept
<1> QED
  BY <1>1, <1>2, <1>3, <1>4, ProverChainKept DEF IInv

LEMMA StepInv == IInv /\ [Next]_vars => IInv'
PROOF
<1> SUFFICES ASSUME IInv, [Next]_vars PROVE IInv'
  OBVIOUS
<1>1. ASSUME NEW element_name \in DOMAIN Kind, NEW value \in Values[element_name],
             ProverAdds(element_name, value)
      PROVE  IInv'
  BY <1>1, ProverAddsStep
<1>2. ASSUME NEW element_name \in DOMAIN Kind, NEW value \in Values[element_name],
             VerifierAdds(element_name, value)
      PROVE  IInv'
  BY <1>2, VerifierAddsStep
<1>3. ASSUME NEW r \in Rounds, NEW circuit_size \in Values["circuit_size"],
             mock_inputs_prior_to_challenge(round_manifests[r].challenge, circuit_size)
      PROVE  IInv'
  BY <1>3, StartsMockingStep
<1>4. ASSUME NEW lost \in {0, 1}, new_from_transcript(SubSeq(proof, 1, Len(proof) - lost))
      PROVE  IInv'
  <2>1. PICK input_transcript : input_transcript = SubSeq(proof, 1, Len(proof) - lost)
    OBVIOUS
  <2> QED
    BY <1>4, <2>1, LoadStep
<1>5. CASE UNCHANGED vars
  <2>1. Phases' /\ SentKept'
    BY <1>5 DEF IInv, Phases, SentKept, vars, proverVars, verifierVars
  <2> QED
    BY <1>5, <2>1, ProverChainKept, VerifierChainKept DEF IInv, vars, proverVars, verifierVars
<1> QED
  BY <1>1, <1>2, <1>3, <1>4, <1>5, ProverDerivesStep, MockRoundStep, ExportStep,
     VerifierDerivesStep DEF Next

LEMMA Invariant == Spec => []IInv
PROOF
<1>1. Init => IInv
  BY InitInv
<1>2. IInv /\ [Next]_vars => IInv'
  BY StepInv
<1> QED
  BY <1>1, <1>2, PTL DEF Spec

\* Whatever a prover and a verifier do, both have elements of their manifest
\* only, and the challenges of exactly the rounds that they have been through.
THEOREM TranscriptsTypeCorrect == Spec => []TypeOK
PROOF
<1>1. IInv => TypeOK
  BY DEF IInv, Phases, ProverChain, VerifierChain, Chain, TypeOK, WellFormed, Names, ChallengeOf
<1> QED
  BY <1>1, Invariant, PTL

-----------------------------------------------------------------------------
(* Equal elements give equal challenges.                                     *)

\* Two transcripts that have the same challenges before a round have the same
\* last challenge.
LEMMA PreviousAgree ==
    ASSUME NEW derived, NEW v_derived, NEW r \in Nat, NEW previous, NEW v_previous,
           IsPrevious(previous, derived, r), IsPrevious(v_previous, v_derived, r),
           \A q \in 1 .. (r - 1) : HasChallenges(q) =>
               derived[ChallengeOf(q)] = v_derived[ChallengeOf(q)]
    PROVE  previous = v_previous
PROOF BY DEF IsPrevious, Precedes

SameEntries(r, elems, v_elems) == \A e \in Entries(r) : elems[e.name] = v_elems[e.name]

LEMMA SameBuffer ==
    ASSUME NEW r \in Nat, NEW previous, NEW elems, NEW v_elems, SameEntries(r, elems, v_elems)
    PROVE  RoundBuffer(r - 1, previous, elems) = RoundBuffer(r - 1, previous, v_elems)
PROOF
<1>1. r - 1 + 1 = r
  OBVIOUS
<1>2. [i \in DOMAIN round_manifests[r].elements |-> elems[round_manifests[r].elements[i].name]]
        = [i \in DOMAIN round_manifests[r].elements |-> v_elems[round_manifests[r].elements[i].name]]
  BY DEF SameEntries, Entries, ToSet
<1> QED
  BY <1>1, <1>2 DEF RoundBuffer

\* The challenges of round r are the same on both sides.
SameChallenges(r) == challenges[ChallengeOf(r)] = v_challenges[ChallengeOf(r)]
BothDerived(r) == r <= current_round /\ r <= v_current_round /\ HasChallenges(r)

LEMMA SameElementsSameChallenges ==
    ASSUME ProverChain, VerifierChain
    PROVE  \A r \in Rounds :
               /\ BothDerived(r)
               /\ \A q \in 1 .. r : SameEntries(q, hashed[q], v_hashed[q])
               => SameChallenges(r)
PROOF
<1> DEFINE Same(r) == \A q \in 1 .. r : SameEntries(q, hashed[q], v_hashed[q])
           Upto == {n \in Nat : \A r \in 1 .. n : BothDerived(r) /\ Same(r) => SameChallenges(r)}
<1> USE ManifestAssumption DEF Rounds
<1>1. 0 \in Upto
  OBVIOUS
<1>2. ASSUME NEW n \in Nat, n \in Upto
      PROVE  n + 1 \in Upto
  <2> SUFFICES ASSUME NEW r \in 1 .. (n + 1), BothDerived(r), Same(r)
               PROVE  SameChallenges(r)
    OBVIOUS
  <2>1. CASE r \in 1 .. n
    BY <1>2, <2>1
  <2>2. CASE r = n + 1
    <3>0. r \in Nat /\ r \in 1 .. current_round /\ r \in 1 .. v_current_round /\ HasChallenges(r)
      BY DEF BothDerived, ProverChain, VerifierChain, Chain
    <3>1. PICK previous : /\ IsPrevious(previous, challenges, r)
                          /\ challenges[ChallengeOf(r)] =
                                RoundChallenges(r - 1, RoundBuffer(r - 1, previous, hashed[r]))
      BY <3>0 DEF ProverChain, Chain, IsDerived
    <3>2. PICK v_previous :
              /\ IsPrevious(v_previous, v_challenges, r)
              /\ v_challenges[ChallengeOf(r)] =
                    RoundChallenges(r - 1, RoundBuffer(r - 1, v_previous, v_hashed[r]))
      BY <3>0 DEF VerifierChain, Chain, IsDerived
    <3>3. ASSUME NEW q \in 1 .. (r - 1), HasChallenges(q)
          PROVE  SameChallenges(q)
      <4>1. q \in 1 .. n /\ BothDerived(q)
        BY <2>2, <3>0, <3>3 DEF BothDerived, ProverChain, VerifierChain, Chain
      <4>2. Same(q)
        BY <3>0
      <4> QED
        BY <1>2, <4>1, <4>2
    <3>4. previous = v_previous
      BY <3>0, <3>1, <3>2, <3>3, PreviousAgree DEF SameChallenges
    <3>5. SameEntries(r, hashed[r], v_hashed[r])
      BY <3>0
    <3> QED
      BY <3>0, <3>1, <3>2, <3>4, <3>5, SameBuffer DEF SameChallenges
  <2> QED
    BY <2>1, <2>2
<1> HIDE DEF Upto
<1>3. \A n \in Nat : n \in Upto
  BY <1>1, <1>2, SetInduction
<1> QED
  BY <1>3 DEF Upto

-----------------------------------------------------------------------------
(* Equal challenges come from equal buffers.                                 *)

\* What round r hashes of the elements.
DataOf(r, elems) ==
    FlattenSeq([i \in DOMAIN round_manifests[r].elements |->
        elems[round_manifests[r].elements[i].name]])

\* The hash is of all of its buffer: one challenge of a round tells it.
LEMMA ChallengeTellsBuffer ==
    ASSUME NEW r \in Rounds, HasChallenges(r), NEW buffer, NEW v_buffer
    PROVE  /\ RoundChallenges(r - 1, buffer) = RoundChallenges(r - 1, v_buffer) =>
                  buffer = v_buffer
           /\ Last(RoundChallenges(r - 1, buffer)) = Last(RoundChallenges(r - 1, v_buffer)) =>
                  buffer = v_buffer
PROOF
<1> DEFINE n == round_manifests[r].num_challenges
           challenge(j, b) == [of |-> b, hash |-> (j - 1) \div challenges_per_hash,
                               slice |-> (j - 1) % challenges_per_hash]
<1>1. n \in Nat /\ n > 0 /\ r - 1 + 1 = r
  BY ManifestAssumption DEF HasChallenges, Rounds
<1>2. \A b : RoundChallenges(r - 1, b) = [j \in 1 .. n |-> challenge(j, b)]
  BY <1>1 DEF RoundChallenges
<1>4. \A j, b : challenge(j, b).of = b
  OBVIOUS
<1> HIDE DEF challenge, n
<1>5. ASSUME NEW b
      PROVE  /\ RoundChallenges(r - 1, b)[1] = challenge(1, b)
             /\ Last(RoundChallenges(r - 1, b)) = challenge(n, b)
  <2>1. PICK f : f = [j \in 1 .. n |-> challenge(j, b)]
    OBVIOUS
  <2>2. Len(f) = n /\ f[1] = challenge(1, b) /\ f[n] = challenge(n, b)
    BY <1>1, <2>1
  <2> QED
    BY <1>2, <2>1, <2>2 DEF Last
<1> QED
  BY <1>4, <1>5

LEMMA SameChallengesSameBuffers ==
    ASSUME ProverChain, VerifierChain
    PROVE  \A r \in Rounds :
               BothDerived(r) /\ SameChallenges(r) =>
                   \A q \in 1 .. r : HasChallenges(q) =>
                       DataOf(q, hashed[q]) = DataOf(q, v_hashed[q])
PROOF
<1> DEFINE Bound(r) == \A q \in 1 .. r : HasChallenges(q) =>
                           DataOf(q, hashed[q]) = DataOf(q, v_hashed[q])
           Upto == {n \in Nat : \A r \in 1 .. n : BothDerived(r) /\ SameChallenges(r) => Bound(r)}
<1> USE ManifestAssumption DEF Rounds
<1>1. 0 \in Upto
  OBVIOUS
<1>2. ASSUME NEW n \in Nat, n \in Upto
      PROVE  n + 1 \in Upto
  <2> SUFFICES ASSUME NEW r \in 1 .. (n + 1), BothDerived(r), SameChallenges(r)
               PROVE  Bound(r)
    OBVIOUS
  <2>1. CASE r \in 1 .. n
    BY <1>2, <2>1
  <2>2. CASE r = n + 1
    <3>0. r \in Nat /\ r \in 1 .. current_round /\ r \in 1 .. v_current_round /\ HasChallenges(r)
          /\ r \in Rounds /\ r - 1 + 1 = r
      BY DEF BothDerived, ProverChain, VerifierChain, Chain
    <3> DEFINE buffer(previous) == RoundBuffer(r - 1, previous, hashed[r])
               v_buffer(previous) == RoundBuffer(r - 1, previous, v_hashed[r])
    <3>1. PICK previous : /\ IsPrevious(previous, challenges, r)
                          /\ challenges[ChallengeOf(r)] = RoundChallenges(r - 1, buffer(previous))
      BY <3>0 DEF ProverChain, Chain, IsDerived
    <3>2. PICK v_previous :
              /\ IsPrevious(v_previous, v_challenges, r)
              /\ v_challenges[ChallengeOf(r)] = RoundChallenges(r - 1, v_buffer(v_previous))
      BY <3>0 DEF VerifierChain, Chain, IsDerived
    <3>3. buffer(previous) = v_buffer(v_previous)
      <4> HIDE DEF buffer, v_buffer
      <4> QED
        BY <3>0, <3>1, <3>2, ChallengeTellsBuffer DEF SameChallenges
    <3>4. previous = v_previous /\ DataOf(r, hashed[r]) = DataOf(r, v_hashed[r])
      BY <3>0, <3>3 DEF RoundBuffer, DataOf
    <3>5. CASE \A q \in 1 .. (r - 1) : ~ HasChallenges(q)
      BY <3>0, <3>4, <3>5
    <3>6. CASE \E q \in 1 .. (r - 1) : HasChallenges(q)
      <4>1. PICK q \in 1 .. (r - 1) : /\ Precedes(q, r)
                                      /\ previous = Last(challenges[ChallengeOf(q)])
        BY <3>1, <3>6 DEF IsPrevious
      <4>2. previous = Last(v_challenges[ChallengeOf(q)])
        BY <3>0, <3>2, <3>4, <4>1 DEF IsPrevious, Precedes
      <4>3. /\ q \in 1 .. n /\ q \in Rounds /\ HasChallenges(q) /\ BothDerived(q)
            /\ q \in 1 .. current_round /\ q \in 1 .. v_current_round
        BY <2>2, <3>0, <4>1 DEF BothDerived, Precedes, ProverChain, VerifierChain, Chain
      <4>4. PICK b : challenges[ChallengeOf(q)] = RoundChallenges(q - 1, b)
        BY <4>3 DEF ProverChain, Chain, IsDerived
      <4>5. PICK v_b : v_challenges[ChallengeOf(q)] = RoundChallenges(q - 1, v_b)
        BY <4>3 DEF VerifierChain, Chain, IsDerived
      <4>6. SameChallenges(q)
        <5>1. Last(RoundChallenges(q - 1, b)) = Last(RoundChallenges(q - 1, v_b))
          BY <4>1, <4>2, <4>4, <4>5
        <5>2. b = v_b
          BY <4>3, <5>1, ChallengeTellsBuffer
        <5> QED
          BY <4>4, <4>5, <5>2 DEF SameChallenges
      <4>7. Bound(q)
        BY <1>2, <4>3, <4>6
      <4> QED
        BY <3>0, <3>4, <4>1, <4>7 DEF Precedes
    <3> QED
      BY <3>5, <3>6
  <2> QED
    BY <2>1, <2>2
<1> HIDE DEF Upto
<1>3. \A n \in Nat : n \in Upto
  BY <1>1, <1>2, SetInduction
<1> QED
  BY <1>3 DEF Upto

-----------------------------------------------------------------------------
(* What the proof consists of.                                               *)

HasMembers(seqs, flat) ==
    \A i \in 1 .. Len(seqs) : \A k \in 1 .. Len(seqs[i]) :
        \E m \in 1 .. Len(flat) : flat[m] = seqs[i][k]

\* A concatenation has the members of its parts, and no other.
LEMMA FlattenMembers ==
    ASSUME NEW S, NEW seqs, Len(seqs) \in Nat, seqs = [i \in 1 .. Len(seqs) |-> seqs[i]],
           \A i \in 1 .. Len(seqs) : seqs[i] \in Seq(S)
    PROVE  FlattenSeq(seqs) \in Seq(S) /\ HasMembers(seqs, FlattenSeq(seqs))
PROOF
<1> USE DEF HasMembers
<1>1. CASE Len(seqs) = 0
  <2>1. FlattenSeq(seqs) = seqs
    BY <1>1 DEF FlattenSeq
  <2>2. seqs \in Seq(S)
    <3>1. seqs = << >>
      BY <1>1
    <3> QED
      BY <3>1, EmptySeq
  <2> QED
    BY <1>1, <2>1, <2>2
<1>2. CASE Len(seqs) # 0
  <2>1. AreParts(seqs, S)
    BY <1>2 DEF AreParts
  <2>2. PICK flat : flat = FlattenSeq(seqs)
    OBVIOUS
  <2>3. flat \in Seq(S) /\ Len(flat) = Total(Lens(seqs), Len(seqs)) /\ AreThere(seqs, flat)
    BY <2>1, <2>2, FlattenPlaces
  <2>4. ASSUME NEW i \in 1 .. Len(seqs), NEW k \in 1 .. Len(seqs[i])
        PROVE  \E m \in 1 .. Len(flat) : flat[m] = seqs[i][k]
    BY <2>3 DEF AreThere
  <2> QED
    BY <2>2, <2>3, <2>4
<1> QED
  BY <1>1, <1>2

\* The elements of a round that the verifier does not derive.
LEMMA SentInRound ==
    ASSUME NEW r \in Rounds
    PROVE  /\ SentIn(round_manifests[r].elements) \in Seq(Sent)
           /\ \A e \in Entries(r) : ~ e.derived_by_verifier =>
                  \E k \in 1 .. Len(SentIn(round_manifests[r].elements)) :
                      SentIn(round_manifests[r].elements)[k] = e
PROOF
<1>1. PICK entries : entries = round_manifests[r].elements
  OBVIOUS
<1>2. PICK n \in Nat : /\ n = Len(entries) /\ DOMAIN entries = 1 .. n
                       /\ \A i \in 1 .. n : entries[i] \in Entries(r)
  <2>1. entries \in Seq(Entries(r))
    BY <1>1, ManifestAssumption
  <2> QED
    BY <2>1, LenProperties, ElementOfSeq
<1>3. PICK seqs : seqs = [i \in DOMAIN entries |->
                             IF entries[i].derived_by_verifier THEN <<>> ELSE <<entries[i]>>]
  OBVIOUS
<1>4. Len(seqs) = n /\ seqs = [i \in 1 .. Len(seqs) |-> seqs[i]]
  BY <1>2, <1>3
<1>5. ASSUME NEW i \in 1 .. n
      PROVE  /\ seqs[i] \in Seq(Sent)
             /\ ~ entries[i].derived_by_verifier => Len(seqs[i]) = 1 /\ seqs[i][1] = entries[i]
  <2>1. CASE entries[i].derived_by_verifier
    <3>1. seqs[i] = << >>
      BY <1>2, <1>3, <2>1
    <3> QED
      BY <2>1, <3>1, EmptySeq
  <2>2. CASE ~ entries[i].derived_by_verifier
    <3>1. seqs[i] = <<entries[i]>>
      BY <1>2, <1>3, <2>2
    <3>2. entries[i] \in Sent
      BY <1>2, <2>2 DEF Sent, AllEntries
    <3> QED
      BY <3>1, <3>2
  <2> QED
    BY <2>1, <2>2
<1>6. /\ FlattenSeq(seqs) \in Seq(Sent)
      /\ HasMembers(seqs, FlattenSeq(seqs))
  BY <1>4, <1>5, FlattenMembers
<1>7. SentIn(entries) = FlattenSeq(seqs)
  BY <1>3 DEF SentIn
<1>8. ASSUME NEW e \in Entries(r), ~ e.derived_by_verifier
      PROVE  \E m \in 1 .. Len(FlattenSeq(seqs)) : FlattenSeq(seqs)[m] = e
  <2>1. PICK i \in 1 .. n : entries[i] = e
    BY <1>1, <1>2 DEF Entries, ToSet
  <2>2. Len(seqs[i]) = 1 /\ seqs[i][1] = e
    BY <1>5, <1>8, <2>1
  <2> QED
    BY <1>4, <1>6, <2>2 DEF HasMembers
<1> QED
  BY <1>1, <1>6, <1>7, <1>8

LEMMA SentEntriesAre ==
    /\ SentEntries \in Seq(Sent)
    /\ Len(SentEntries) \in Nat
    /\ DOMAIN SentEntries = 1 .. Len(SentEntries)
    /\ \A i \in 1 .. Len(SentEntries) : SentEntries[i] \in Sent
    /\ \A e \in Sent : \E i \in 1 .. Len(SentEntries) : SentEntries[i] = e
PROOF
<1>1. PICK n \in Nat : n = num_rounds /\ Rounds = 1 .. n
  BY ManifestAssumption DEF Rounds
<1>2. PICK seqs : seqs = [r \in Rounds |-> SentIn(round_manifests[r].elements)]
  OBVIOUS
<1>3. Len(seqs) = n /\ seqs = [i \in 1 .. Len(seqs) |-> seqs[i]]
  BY <1>1, <1>2
<1>4. \A r \in 1 .. n : seqs[r] = SentIn(round_manifests[r].elements) /\ seqs[r] \in Seq(Sent)
  BY <1>1, <1>2, SentInRound
<1>5. /\ FlattenSeq(seqs) \in Seq(Sent)
      /\ HasMembers(seqs, FlattenSeq(seqs))
  BY <1>3, <1>4, FlattenMembers
<1>6. SentEntries = FlattenSeq(seqs)
  BY <1>2 DEF SentEntries
<1>7. ASSUME NEW e \in Sent
      PROVE  \E i \in 1 .. Len(SentEntries) : SentEntries[i] = e
  <2>1. PICK r \in Rounds : e \in Entries(r)
    BY DEF Sent, AllEntries
  <2>2. PICK k \in 1 .. Len(SentIn(round_manifests[r].elements)) :
            SentIn(round_manifests[r].elements)[k] = e
    BY <2>1, SentInRound DEF Sent
  <2>3. r \in 1 .. n /\ k \in 1 .. Len(seqs[r]) /\ seqs[r][k] = e
    BY <1>1, <1>4, <2>2
  <2> QED
    BY <1>3, <1>5, <1>6, <2>3 DEF HasMembers
<1> QED
  BY <1>5, <1>6, <1>7, LenProperties, ElementOfSeq

-----------------------------------------------------------------------------
(* The buffers of a transcript.                                              *)

\* The elements are sequences of chunks, none of which is empty.
AreBuffers(elems) ==
    \E S : /\ \A c \in S : c.width \in Nat \ {0}
           /\ \A name \in DOMAIN elems : elems[name] \in Seq(S)

LEMMA BuffersWith ==
    ASSUME NEW elems, NEW name, NEW buffer, NEW S,
           AreBuffers(elems), buffer \in Seq(S), \A c \in S : c.width \in Nat \ {0}
    PROVE  AreBuffers(With(elems, name, buffer))
PROOF
<1>1. PICK T : /\ \A c \in T : c.width \in Nat \ {0}
               /\ \A n \in DOMAIN elems : elems[n] \in Seq(T)
  BY DEF AreBuffers
<1>2. PICK U : U = S \cup T
  OBVIOUS
<1>3. \A c \in U : c.width \in Nat \ {0}
  BY <1>1, <1>2
<1>4. buffer \in Seq(U) /\ \A n \in DOMAIN elems : elems[n] \in Seq(U)
  BY <1>1, <1>2, SeqMonotonic
<1>5. \A n \in DOMAIN With(elems, name, buffer) : With(elems, name, buffer)[n] \in Seq(U)
  BY <1>4 DEF With
<1> QED
  BY <1>3, <1>5 DEF AreBuffers

\* What an element is added as.
LEMMA ChunkBuffer ==
    ASSUME NEW width \in Nat \ {0}, NEW value
    PROVE  \E S : <<Chunk(width, value)>> \in Seq(S) /\ \A c \in S : c.width \in Nat \ {0}
PROOF
<1>1. PICK only : only = Chunk(width, value)
  OBVIOUS
<1>2. PICK S : S = {only}
  OBVIOUS
<1>3. <<only>> \in Seq(S) /\ \A c \in S : c.width \in Nat \ {0}
  BY <1>1, <1>2 DEF Chunk
<1> QED
  BY <1>1, <1>3

LEMMA SerializedBuffer ==
    ASSUME NEW width \in Nat \ {0}, NEW value
    PROVE  \E S : Serialize(width, value) \in Seq(S) /\ \A c \in S : c.width \in Nat \ {0}
PROOF
<1>1. PICK first, second : first = Chunk(width, ZeroBytes) /\ second = Chunk(width, value)
  OBVIOUS
<1>2. \A c \in {first, second} : c.width \in Nat \ {0}
  BY <1>1 DEF Chunk
<1>3. Serialize(width, value) \in Seq({first, second})
  BY <1>1 DEF Serialize
<1> QED
  BY <1>2, <1>3

LEMMA VectorBuffer ==
    ASSUME NEW es, Len(es) \in Nat, DOMAIN es = 1 .. Len(es)
    PROVE  \E S : SerializeVector(es) \in Seq(S) /\ \A c \in S : c.width \in Nat \ {0}
PROOF
<1> DEFINE S == {Chunk(FrWidth, value) : value \in {es[i] : i \in DOMAIN es} \cup {ZeroBytes}}
<1>1. \A c \in S : c.width \in Nat \ {0}
  BY TranscriptAssumption DEF Chunk
<1>2. PICK seqs : seqs = [i \in DOMAIN es |-> Serialize(FrWidth, es[i])]
  OBVIOUS
<1>3. PICK n \in Nat : n = Len(es)
  OBVIOUS
<1>4. Len(seqs) = n /\ seqs = [i \in 1 .. Len(seqs) |-> seqs[i]]
  BY <1>2, <1>3
<1>5. ASSUME NEW i \in 1 .. n
      PROVE  seqs[i] \in Seq(S)
  <2>1. seqs[i] = <<Chunk(FrWidth, ZeroBytes), Chunk(FrWidth, es[i])>>
    BY <1>2, <1>3 DEF Serialize
  <2>2. Chunk(FrWidth, ZeroBytes) \in S /\ Chunk(FrWidth, es[i]) \in S
    BY <1>3
  <2> HIDE DEF S
  <2> QED
    BY <2>1, <2>2
<1> HIDE DEF S
<1>6. FlattenSeq(seqs) \in Seq(S)
  BY <1>4, <1>5, FlattenMembers
<1> QED
  BY <1>1, <1>2, <1>6 DEF SerializeVector

\* The lengths of buffers.
LEMMA EmptyByteLen == ByteLen(<<>>) = 0
PROOF BY TotalGrows DEF ByteLen

LEMMA ChunkByteLen ==
    ASSUME NEW width \in Nat, NEW value
    PROVE  ByteLen(<<Chunk(width, value)>>) = width
PROOF
<1>1. PICK buffer : buffer = <<Chunk(width, value)>>
  OBVIOUS
<1>2. PICK w : w = [k \in DOMAIN buffer |-> buffer[k].width]
  OBVIOUS
<1>3. Len(buffer) = 1 /\ w[1] = width
  BY <1>1, <1>2 DEF Chunk
<1>4. Total(w, 0 + 1) = Total(w, 0) + w[0 + 1] /\ Total(w, 0) = 0
  BY TotalGrows
<1>5. Total(w, 1) = width
  BY <1>3, <1>4
<1> QED
  BY <1>1, <1>2, <1>3, <1>5 DEF ByteLen

LEMMA MockedBuffer ==
    ASSUME NEW e \in AllEntries, NEW circuit_size
    PROVE  \E S : MockBuffer(e, circuit_size) \in Seq(S) /\ \A c \in S : c.width \in Nat \ {0}
PROOF
<1>1. e.num_bytes \in Nat
  BY ManifestAssumption
<1>2. CASE e.name = "circuit_size"
  BY <1>2, ChunkBuffer DEF MockBuffer
<1>3. CASE e.name # "circuit_size" /\ e.num_bytes = 0
  <2>1. MockBuffer(e, circuit_size) = <<>>
    BY <1>3 DEF MockBuffer
  <2>2. PICK S : S = {}
    OBVIOUS
  <2>3. <<>> \in Seq(S) /\ \A c \in S : c.width \in Nat \ {0}
    BY <2>2, EmptySeq
  <2> QED
    BY <2>1, <2>3
<1>4. CASE e.name # "circuit_size" /\ e.num_bytes # 0
  <2>1. MockBuffer(e, circuit_size) = <<Chunk(e.num_bytes, "ones")>>
    BY <1>4 DEF MockBuffer
  <2>2. e.num_bytes \in Nat \ {0}
    BY <1>1, <1>4
  <2> QED
    BY <2>1, <2>2, ChunkBuffer
<1> QED
  BY <1>2, <1>3, <1>4

\* Mocking the entries of a round.
LEMMA MockedElements ==
    ASSUME NEW r \in Rounds, NEW circuit_size, AreBuffers(elements)
    PROVE  /\ AreBuffers(Mocked(r, circuit_size))
           /\ \A e \in Entries(r) :
                  /\ e.name \in DOMAIN Mocked(r, circuit_size)
                  /\ Mocked(r, circuit_size)[e.name] = MockBuffer(e, circuit_size)
PROOF
<1>1. PICK elems : elems = Mocked(r, circuit_size)
  OBVIOUS
<1>2. ASSUME NEW e \in Entries(r)
      PROVE  e.name \in DOMAIN elems /\ elems[e.name] = MockBuffer(e, circuit_size)
  <2>1. Entries(r) \subseteq AllEntries
    BY DEF AllEntries
  <2> DEFINE chosen == CHOOSE d \in Entries(r) : d.name = e.name
  <2>2. chosen \in Entries(r) /\ chosen.name = e.name
    OBVIOUS
  <2>3. chosen = e
    <3>1. PICK d : d = chosen
      OBVIOUS
    <3>2. d \in AllEntries /\ e \in AllEntries /\ d.name = e.name
      BY <2>1, <2>2, <3>1
    <3>3. d = e
      BY <3>2, ManifestAssumption
    <3> QED
      BY <3>1, <3>3
  <2> QED
    BY <1>1, <2>3 DEF Mocked
<1>3. \A name \in DOMAIN elems : (\A e \in Entries(r) : e.name # name) =>
          name \in DOMAIN elements /\ elems[name] = elements[name]
  BY <1>1 DEF Mocked
<1>4. PICK S : /\ \A c \in S : c.width \in Nat \ {0}
               /\ \A name \in DOMAIN elements : elements[name] \in Seq(S)
  BY DEF AreBuffers
<1> DEFINE ChunksOf(e) == {MockBuffer(e, circuit_size)[i] : i \in DOMAIN MockBuffer(e, circuit_size)}
           U == S \cup UNION {ChunksOf(e) : e \in Entries(r)}
<1>5. ASSUME NEW e \in Entries(r)
      PROVE  /\ MockBuffer(e, circuit_size) \in Seq(U)
             /\ \A c \in ChunksOf(e) : c.width \in Nat \ {0}
  <2>1. PICK buffer : buffer = MockBuffer(e, circuit_size)
    OBVIOUS
  <2>2. e \in AllEntries
    BY DEF AllEntries
  <2>3. PICK T : buffer \in Seq(T) /\ \A c \in T : c.width \in Nat \ {0}
    BY <2>1, <2>2, MockedBuffer
  <2>4. buffer \in [1 .. Len(buffer) -> T] /\ Len(buffer) \in Nat /\ DOMAIN buffer = 1 .. Len(buffer)
    BY <2>3, LenProperties
  <2>5. PICK R : R = ChunksOf(e)
    OBVIOUS
  <2>6. R = {buffer[i] : i \in 1 .. Len(buffer)}
    BY <2>1, <2>4, <2>5
  <2>7. R \subseteq T /\ buffer \in [1 .. Len(buffer) -> R]
    BY <2>4, <2>6
  <2>8. buffer \in Seq(R)
    BY <2>4, <2>7
  <2>9. R \subseteq U
    BY <2>5
  <2>10. buffer \in Seq(U)
    <3> HIDE DEF U
    <3> QED
      BY <2>8, <2>9, SeqMonotonic
  <2> QED
    BY <2>1, <2>3, <2>5, <2>7, <2>10
<1>6. \A c \in U : c.width \in Nat \ {0}
  <2> HIDE DEF ChunksOf
  <2> QED
    BY <1>4, <1>5
<1>7. ASSUME NEW name \in DOMAIN elems
      PROVE  elems[name] \in Seq(U)
  <2>1. CASE \E e \in Entries(r) : e.name = name
    BY <1>2, <1>5, <2>1
  <2>2. CASE \A e \in Entries(r) : e.name # name
    <3>1. elems[name] \in Seq(S)
      BY <1>3, <1>4, <2>2
    <3>2. S \subseteq U
      OBVIOUS
    <3> HIDE DEF U
    <3> QED
      BY <3>1, <3>2, SeqMonotonic
  <2> QED
    BY <2>1, <2>2
<1> HIDE DEF U
<1> QED
  BY <1>1, <1>2, <1>6, <1>7 DEF AreBuffers

-----------------------------------------------------------------------------
(* The invariant of the buffers.                                             *)

\* What is asserted of a round's elements when its challenges are derived.
RoundAsserts(r, elems) ==
    \A e \in Entries(r) :
        /\ e.name \in DOMAIN elems
        /\ e.derived_by_verifier \/ ByteLen(elems[e.name]) = e.num_bytes

HashedAsserts(rounds, at) ==
    \A r \in 1 .. rounds : AreBuffers(at[r]) /\ (HasChallenges(r) => RoundAsserts(r, at[r]))

\* The buffers that a proof is made of, in its order.
SentBuffers(elems) == [i \in DOMAIN SentEntries |-> elems[SentEntries[i].name]]

ProofIsSent ==
    phase \in {"exported", "verifying", "refused"} =>
        ExportAsserts /\ proof = FlattenSeq(SentBuffers(elements))

\* A circuit's size is mocked with four bytes.
CircuitSizeFits ==
    \A e \in AllEntries :
        e.name = "circuit_size" => e.derived_by_verifier \/ e.num_bytes = 4

BInv ==
    /\ AreBuffers(elements)
    /\ AreBuffers(v_elements)
    /\ HashedAsserts(current_round, hashed)
    /\ HashedAsserts(v_current_round, v_hashed)
    /\ ProofIsSent
    /\ ProofReloads
    /\ CircuitSizeFits => MockReadiesChallenge

\* What an action leaves of it.
LEMMA HashedKept ==
    ASSUME HashedAsserts(current_round, hashed), UNCHANGED <<current_round, hashed>>
    PROVE  HashedAsserts(current_round, hashed)'
PROOF BY DEF HashedAsserts, AreBuffers, RoundAsserts

LEMMA VHashedKept ==
    ASSUME HashedAsserts(v_current_round, v_hashed), UNCHANGED <<v_current_round, v_hashed>>
    PROVE  HashedAsserts(v_current_round, v_hashed)'
PROOF BY DEF HashedAsserts, AreBuffers, RoundAsserts

LEMMA ProofKept ==
    ASSUME ProofIsSent, UNCHANGED <<phase, elements, proof>>
    PROVE  ProofIsSent'
PROOF BY DEF ProofIsSent, ExportAsserts, has_element, SentBuffers

\* A round more.
LEMMA RoundHashed ==
    ASSUME NEW rounds \in Nat, NEW at, NEW elems, NEW at_after, HashedAsserts(rounds, at),
           AreBuffers(elems), DOMAIN at = 1 .. rounds,
           HasChallenges(rounds + 1) => RoundAsserts(rounds + 1, elems),
           at_after = With(at, rounds + 1, elems)
    PROVE  HashedAsserts(rounds + 1, at_after)
PROOF
<1>1. at_after[rounds + 1] = elems /\ \A r \in 1 .. rounds : at_after[r] = at[r]
  BY DEF With
<1>2. ASSUME NEW r \in 1 .. (rounds + 1)
      PROVE  AreBuffers(at_after[r]) /\ (HasChallenges(r) => RoundAsserts(r, at_after[r]))
  <2>1. CASE r = rounds + 1
    BY <1>1, <2>1
  <2>2. CASE r \in 1 .. rounds
    BY <1>1, <2>2 DEF HashedAsserts
  <2> QED
    BY <2>1, <2>2
<1> QED
  BY <1>2 DEF HashedAsserts

LEMMA InitBuffers == Init => BInv
PROOF
<1> SUFFICES ASSUME Init PROVE BInv
  OBVIOUS
<1> USE DEF Init, TranscriptInit, Verifier!TranscriptInit
<1>1. AreBuffers(<<>>)
  <2>1. PICK S : S = {}
    OBVIOUS
  <2> QED
    BY <2>1 DEF AreBuffers
<1>2. HashedAsserts(0, <<>>)
  BY DEF HashedAsserts
<1> QED
  BY <1>1, <1>2 DEF BInv, ProofIsSent, ProofReloads, MockReadiesChallenge

LEMMA AddedBuffer ==
    ASSUME NEW element_name \in DOMAIN Kind, NEW value \in Values[element_name],
           AddAs(Kind[element_name], element_name, value), AreBuffers(elements)
    PROVE  AreBuffers(elements')
PROOF
<1> DEFINE Fits(buffer) == \E S : buffer \in Seq(S) /\ \A c \in S : c.width \in Nat \ {0}
<1>1. \E buffer : Fits(buffer) /\ elements' = With(elements, element_name, buffer)
  <2>1. CASE Kind[element_name] = "bytes"
    <3>1. elements' = With(elements, element_name, <<Chunk(4, value)>>)
      BY <2>1 DEF AddAs, add_element
    <3>2. Fits(<<Chunk(4, value)>>)
      BY ChunkBuffer
    <3> QED
      BY <3>1, <3>2
  <2>2. CASE Kind[element_name] = "field"
    <3>1. elements' = With(elements, element_name, Serialize(FrWidth, value))
      BY <2>2 DEF AddAs, add_element, add_field_element
    <3>2. Fits(Serialize(FrWidth, value))
      BY TranscriptAssumption, SerializedBuffer
    <3> QED
      BY <3>1, <3>2
  <2>3. CASE Kind[element_name] = "group"
    <3>1. elements' = With(elements, element_name, Serialize(G1Width, value))
      BY <2>3 DEF AddAs, add_element, add_group_element
    <3>2. Fits(Serialize(G1Width, value))
      BY TranscriptAssumption, SerializedBuffer
    <3> QED
      BY <3>1, <3>2
  <2>4. CASE Kind[element_name] = "vector"
    <3>1. elements' = With(elements, element_name, SerializeVector(value))
      BY <2>4 DEF AddAs, add_element, put_field_element_vector
    <3>2. Fits(SerializeVector(value))
      BY <2>4, ManifestAssumption, VectorBuffer
    <3> QED
      BY <3>1, <3>2
  <2> QED
    BY <2>1, <2>2, <2>3, <2>4 DEF AddAs
<1> QED
  BY <1>1, BuffersWith

\* Nothing changes that a verifier has been given.
LEMMA ReloadsKept ==
    ASSUME ProofReloads, UNCHANGED <<phase, elements, v_elements>>
    PROVE  ProofReloads'
PROOF BY DEF ProofReloads

\* The rounds that the prover derives.
LEMMA ProverHashes ==
    ASSUME IInv, HashedAsserts(current_round, hashed), NEW elems, AreBuffers(elems),
           FiatShamirAsserts(round_manifest.challenge, elems),
           apply_fiat_shamir(round_manifest.challenge, elems),
           hashed' = With(hashed, current_round + 1, elems)
    PROVE  HashedAsserts(current_round, hashed)' /\ elements' = elems
PROOF
<1>1. PICK rounds \in Nat : rounds = current_round /\ DOMAIN hashed = 1 .. rounds
  BY ManifestAssumption DEF IInv, ProverChain, Chain
<1>2. current_round' = rounds + 1 /\ elements' = elems
  BY <1>1 DEF apply_fiat_shamir
<1>3. HasChallenges(rounds + 1) => RoundAsserts(rounds + 1, elems)
  BY <1>1 DEF FiatShamirAsserts, HasChallenges, RoundAsserts, Entries, round_manifest
<1>4. PICK at, at_after : at = hashed /\ at_after = hashed'
  OBVIOUS
<1>5. HashedAsserts(rounds + 1, at_after)
  BY <1>1, <1>3, <1>4, RoundHashed
<1> QED
  BY <1>2, <1>4, <1>5

LEMMA VerifierHashes ==
    ASSUME IInv, HashedAsserts(v_current_round, v_hashed), NEW elems, AreBuffers(elems),
           Verifier!FiatShamirAsserts(Verifier!round_manifest.challenge, elems),
           Verifier!apply_fiat_shamir(Verifier!round_manifest.challenge, elems),
           v_hashed' = With(v_hashed, v_current_round + 1, elems)
    PROVE  HashedAsserts(v_current_round, v_hashed)' /\ v_elements' = elems
PROOF
<1>1. PICK rounds \in Nat : rounds = v_current_round /\ DOMAIN v_hashed = 1 .. rounds
  BY ManifestAssumption DEF IInv, VerifierChain, Chain
<1>2. v_current_round' = rounds + 1 /\ v_elements' = elems
  BY <1>1 DEF Verifier!apply_fiat_shamir
<1>3. HasChallenges(rounds + 1) => RoundAsserts(rounds + 1, elems)
  <2>1. \A chunks : Verifier!ByteLen(chunks) = ByteLen(chunks)
    BY DEF Verifier!ByteLen, ByteLen, Verifier!Total, Total
  <2>2. \A entries : Verifier!ToSet(entries) = ToSet(entries)
    BY DEF Verifier!ToSet, ToSet
  <2> QED
    BY <1>1, <2>1, <2>2 DEF Verifier!FiatShamirAsserts, HasChallenges, RoundAsserts, Entries,
       Verifier!round_manifest
<1>4. PICK at, at_after : at = v_hashed /\ at_after = v_hashed'
  OBVIOUS
<1>5. HashedAsserts(rounds + 1, at_after)
  BY <1>1, <1>3, <1>4, RoundHashed
<1> QED
  BY <1>2, <1>4, <1>5

LEMMA ProverAddsBuffers ==
    ASSUME IInv, BInv, NEW element_name \in DOMAIN Kind, NEW value \in Values[element_name],
           ProverAdds(element_name, value)
    PROVE  BInv'
PROOF
<1> USE DEF ProverAdds, verifierVars
<1>1. AreBuffers(elements')
  BY AddedBuffer DEF BInv
<1>2. UNCHANGED <<current_round, hashed, v_elements, v_current_round, v_hashed>>
  BY DEF AddAs, add_element, add_field_element, add_group_element, put_field_element_vector
<1>3. ProofIsSent' /\ ProofReloads' /\ MockReadiesChallenge'
  BY DEF ProofIsSent, ProofReloads, MockReadiesChallenge
<1>4. AreBuffers(v_elements')
  BY <1>2 DEF BInv
<1> QED
  BY <1>1, <1>2, <1>3, <1>4, HashedKept, VHashedKept DEF BInv

LEMMA ProverDerivesBuffers == IInv /\ BInv /\ ProverDerives => BInv'
PROOF
<1> SUFFICES ASSUME IInv, BInv, ProverDerives PROVE BInv'
  OBVIOUS
<1> USE DEF ProverDerives, verifierVars
<1>1. PICK elems : elems = elements
  OBVIOUS
<1>2. HashedAsserts(current_round, hashed)' /\ elements' = elems
  BY <1>1, ProverHashes DEF BInv
<1>3. ProofIsSent' /\ ProofReloads' /\ MockReadiesChallenge'
  BY DEF ProofIsSent, ProofReloads, MockReadiesChallenge
<1>4. AreBuffers(elements') /\ AreBuffers(v_elements')
  BY <1>1, <1>2 DEF BInv
<1> QED
  BY <1>2, <1>3, <1>4, VHashedKept DEF BInv

LEMMA StartsMockingBuffers ==
    ASSUME IInv, BInv, NEW r \in Rounds, NEW circuit_size,
           mock_inputs_prior_to_challenge(round_manifests[r].challenge, circuit_size)
    PROVE  BInv'
PROOF
<1> USE DEF mock_inputs_prior_to_challenge, verifierVars
<1>1. ProofIsSent' /\ ProofReloads' /\ MockReadiesChallenge'
  BY DEF ProofIsSent, ProofReloads, MockReadiesChallenge
<1>2. AreBuffers(elements') /\ AreBuffers(v_elements')
  BY DEF BInv
<1> QED
  BY <1>1, <1>2, HashedKept, VHashedKept DEF BInv

LEMMA MockRoundBuffers == IInv /\ BInv /\ MockRound => BInv'
PROOF
<1> SUFFICES ASSUME IInv, BInv, MockRound PROVE BInv'
  OBVIOUS
<1> USE DEF MockRound, verifierVars
<1>1. PICK r, elems : r = current_round + 1 /\ elems = Mocked(r, mocked.circuit_size)
  OBVIOUS
<1>2. r \in Rounds /\ current_round < num_rounds
  <2>1. PICK asked \in Rounds : asked > current_round
    BY DEF IInv, Phases
  <2> QED
    BY <1>1, <2>1, ManifestAssumption DEF IInv, ProverChain, Chain, Rounds
<1>3. /\ AreBuffers(elems)
      /\ \A e \in Entries(r) : /\ e.name \in DOMAIN elems
                               /\ elems[e.name] = MockBuffer(e, mocked.circuit_size)
  BY <1>1, <1>2, MockedElements DEF BInv
<1>4. ProofIsSent' /\ ProofReloads'
  BY DEF ProofIsSent, ProofReloads
<1>5. AreBuffers(v_elements')
  BY DEF BInv
<1>6. CASE round_manifest.challenge = mocked.challenge
  <2>1. elements' = elems /\ UNCHANGED <<current_round, hashed, mocked>>
    BY <1>1, <1>6
  <2>2. ASSUME CircuitSizeFits
        PROVE  FiatShamirAsserts(mocked.challenge, elems)
    <3>1. ASSUME NEW e \in Entries(r)
          PROVE  e.name \in DOMAIN elems /\ (e.derived_by_verifier \/ ByteLen(elems[e.name]) = e.num_bytes)
      <4>1. e \in AllEntries /\ e.num_bytes \in Nat
        BY <1>2, ManifestAssumption DEF AllEntries
      <4>2. CASE e.name = "circuit_size"
        <5>1. e.derived_by_verifier \/ e.num_bytes = 4
          BY <2>2, <4>1, <4>2 DEF CircuitSizeFits
        <5>2. e.name \in DOMAIN elems
              /\ elems[e.name] = <<Chunk(4, mocked.circuit_size)>>
          BY <1>3, <4>2 DEF MockBuffer
        <5>3. ByteLen(<<Chunk(4, mocked.circuit_size)>>) = 4
          BY ChunkByteLen
        <5> QED
          BY <5>1, <5>2, <5>3
      <4>3. CASE e.name # "circuit_size" /\ e.num_bytes = 0
        BY <1>3, <4>3, EmptyByteLen DEF MockBuffer
      <4>4. CASE e.name # "circuit_size" /\ e.num_bytes # 0
        BY <1>3, <4>1, <4>4, ChunkByteLen DEF MockBuffer
      <4> QED
        BY <4>2, <4>3, <4>4
    <3> QED
      BY <1>1, <1>2, <1>6, <3>1 DEF FiatShamirAsserts, round_manifest, Entries
  <2>3. CircuitSizeFits => MockReadiesChallenge'
    BY <2>1, <2>2 DEF MockReadiesChallenge, FiatShamirAsserts, round_manifest
  <2>4. AreBuffers(elements')
    BY <1>3, <2>1
  <2> QED
    BY <1>4, <1>5, <2>1, <2>3, <2>4, HashedKept, VHashedKept DEF BInv
<1>7. CASE round_manifest.challenge # mocked.challenge
  <2>1. FiatShamirAsserts(round_manifest.challenge, elems)
        /\ apply_fiat_shamir(round_manifest.challenge, elems)
        /\ hashed' = With(hashed, current_round + 1, elems) /\ phase' = "mocking"
    BY <1>1, <1>7
  <2>2. HashedAsserts(current_round, hashed)' /\ elements' = elems
    BY <1>3, <2>1, ProverHashes DEF BInv
  <2>3. MockReadiesChallenge'
    BY <2>1 DEF MockReadiesChallenge
  <2>4. AreBuffers(elements')
    BY <1>3, <2>2
  <2> QED
    BY <1>4, <1>5, <2>2, <2>3, <2>4, VHashedKept DEF BInv
<1> QED
  BY <1>6, <1>7

LEMMA ExportBuffers == IInv /\ BInv /\ export_transcript => BInv'
PROOF
<1> SUFFICES ASSUME IInv, BInv, export_transcript PROVE BInv'
  OBVIOUS
<1> USE DEF export_transcript, proverVars, verifierVars
<1>1. ProofIsSent'
  BY DEF ProofIsSent, ExportAsserts, has_element, SentBuffers
<1>2. ProofReloads' /\ MockReadiesChallenge'
  BY DEF ProofReloads, MockReadiesChallenge
<1>3. AreBuffers(elements') /\ AreBuffers(v_elements')
  BY DEF BInv
<1> QED
  BY <1>1, <1>2, <1>3, HashedKept, VHashedKept DEF BInv

-----------------------------------------------------------------------------
(* A proof that has the size that is required is the proof that was sent.    *)

\* What the buffers of a proof are, once it has been exported.
LEMMA SentBuffersAre ==
    ASSUME NEW S, \A name \in DOMAIN elements : elements[name] \in Seq(S), ExportAsserts,
           NEW seqs, seqs = SentBuffers(elements)
    PROVE  /\ Len(seqs) = Len(SentEntries)
           /\ DOMAIN seqs = 1 .. Len(SentEntries)
           /\ \A i \in 1 .. Len(SentEntries) :
                  /\ seqs[i] = elements[SentEntries[i].name]
                  /\ seqs[i] \in Seq(S)
                  /\ ByteLens(seqs)[i] = SentEntries[i].num_bytes
PROOF
<1>1. PICK n \in Nat : n = Len(SentEntries)
  BY SentEntriesAre
<1>2. DOMAIN seqs = 1 .. n /\ Len(seqs) = n
  BY <1>1, SentEntriesAre DEF SentBuffers
<1>3. ASSUME NEW i \in 1 .. n
      PROVE  /\ seqs[i] = elements[SentEntries[i].name]
             /\ seqs[i] \in Seq(S)
             /\ ByteLens(seqs)[i] = SentEntries[i].num_bytes
  <2>1. PICK e : e = SentEntries[i]
    OBVIOUS
  <2>2. e \in Sent
    BY <1>1, <2>1, SentEntriesAre
  <2>3. PICK r \in Rounds : e \in Entries(r) /\ ~ e.derived_by_verifier
    BY <2>2 DEF Sent, AllEntries
  <2>4. e.name \in DOMAIN elements /\ ByteLen(elements[e.name]) = e.num_bytes
    BY <2>3, ManifestAssumption DEF ExportAsserts, Entries, has_element
  <2>5. seqs[i] = elements[e.name]
    BY <1>1, <2>1, SentEntriesAre DEF SentBuffers
  <2> QED
    BY <1>2, <2>1, <2>4, <2>5 DEF ByteLens
<1> QED
  BY <1>1, <1>2, <1>3

\* The bytes that are required are those of the buffers.
LEMMA CountIsOfBuffers ==
    ASSUME NEW seqs, \A i \in 1 .. Len(SentEntries) : ByteLens(seqs)[i] = SentEntries[i].num_bytes
    PROVE  \A j \in 0 .. Len(SentEntries) : count(j) = Total(ByteLens(seqs), j)
PROOF
<1>1. PICK n \in Nat : n = Len(SentEntries) /\ DOMAIN SentEntries = 1 .. n
  BY SentEntriesAre
<1>2. PICK declared, bytes : /\ declared = [i \in DOMAIN SentEntries |-> SentEntries[i].num_bytes]
                             /\ bytes = ByteLens(seqs)
  OBVIOUS
<1>3. \A i \in 1 .. n : declared[i] = bytes[i]
  BY <1>1, <1>2
<1>4. ASSUME NEW j \in 0 .. n
      PROVE  Total(declared, j) = Total(bytes, j)
  BY <1>3, TotalSame
<1> QED
  BY <1>1, <1>2, <1>4 DEF count

\* Nothing short of a buffer has its bytes.
LEMMA WholeOrShort ==
    ASSUME NEW S, \A c \in S : c.width \in Nat \ {0}, NEW seqs, AreParts(seqs, S),
           NEW flat, flat = FlattenSeq(seqs), NEW lost \in {0, 1},
           ByteLen(SubSeq(flat, 1, Len(flat) - lost)) = Total(ByteLens(seqs), Len(seqs))
    PROVE  SubSeq(flat, 1, Len(flat) - lost) = flat
PROOF
<1> DEFINE W(i) == Total(Widths(flat), i)
<1>1. /\ flat \in Seq(S) /\ Len(flat) \in Nat /\ Len(seqs) \in Nat
      /\ W(Len(flat)) = Total(ByteLens(seqs), Len(seqs))
      /\ \A i, j \in 0 .. Len(flat) : i < j <=> W(i) < W(j)
      /\ \A i \in 0 .. Len(flat) : W(i) \in Nat
  <2>1. Len(seqs) \in Nat \ {0} /\ Len(seqs) \in 0 .. Len(seqs)
    BY DEF AreParts
  <2>2. Len(flat) = Total(Lens(seqs), Len(seqs))
    BY PartsOf
  <2>3. Total(Widths(flat), Total(Lens(seqs), Len(seqs))) = Total(ByteLens(seqs), Len(seqs))
    <3>1. \A j \in 0 .. Len(seqs) :
             Total(Widths(flat), Total(Lens(seqs), j)) = Total(ByteLens(seqs), j)
      BY FlattenBytes
    <3> QED
      BY ONLY <2>1, <3>1
  <2>4. W(Len(flat)) = Total(ByteLens(seqs), Len(seqs))
    BY <2>2, <2>3
  <2> QED
    BY <2>1, <2>4, PartsOf
<1>2. CASE lost = 0
  BY <1>1, <1>2, SubSeqFull
<1>3. CASE lost = 1 /\ Len(flat) = 0
  <2>1. flat = << >>
    BY <1>1, <1>3, EmptySeq
  <2>2. SubSeq(flat, 1, 0 - 1) = << >>
    BY SubSeqEmpty
  <2> QED
    BY <1>3, <2>1, <2>2
<1>4. CASE lost = 1 /\ Len(flat) # 0
  <2>1. PICK k \in 0 .. Len(flat) : k = Len(flat) - lost /\ k < Len(flat)
    BY <1>1, <1>4
  <2>2. ByteLen(SubSeq(flat, 1, k)) = W(k)
    BY <1>1, ByteLenOfWidths
  <2>3. W(k) < W(Len(flat)) /\ W(k) \in Nat /\ W(Len(flat)) \in Nat
    BY <1>1, <2>1
  <2> HIDE DEF W
  <2>4. W(k) # W(Len(flat))
    BY <2>3
  <2> QED
    BY <1>1, <2>1, <2>2, <2>4
<1> QED
  BY <1>2, <1>3, <1>4

\* The buffers that are loaded.
LEMMA LoadedAre ==
    ASSUME BInv, phase = "exported", NEW lost \in {0, 1}, NEW input_transcript,
           input_transcript = SubSeq(proof, 1, Len(proof) - lost),
           ByteLen(input_transcript) = total_required_size
    PROVE  \A e \in Sent : /\ e.name \in DOMAIN elements
                           /\ LoadedElements(input_transcript)[e.name] = elements[e.name]
PROOF
<1>1. PICK S : /\ \A c \in S : c.width \in Nat \ {0}
               /\ \A name \in DOMAIN elements : elements[name] \in Seq(S)
  BY DEF BInv, AreBuffers
<1>2. ExportAsserts /\ proof = FlattenSeq(SentBuffers(elements))
  BY DEF BInv, ProofIsSent
<1>3. PICK seqs, flat : seqs = SentBuffers(elements) /\ flat = FlattenSeq(seqs)
  OBVIOUS
<1>4. PICK n \in Nat : n = Len(SentEntries)
  BY SentEntriesAre
<1>5. /\ Len(seqs) = n /\ DOMAIN seqs = 1 .. n
      /\ \A i \in 1 .. n : /\ seqs[i] = elements[SentEntries[i].name]
                           /\ seqs[i] \in Seq(S)
                           /\ ByteLens(seqs)[i] = SentEntries[i].num_bytes
  BY <1>1, <1>2, <1>3, <1>4, SentBuffersAre
<1>6. \A j \in 0 .. n : count(j) = Total(ByteLens(seqs), j)
  BY <1>4, <1>5, CountIsOfBuffers
<1> SUFFICES ASSUME NEW e \in Sent
             PROVE  e.name \in DOMAIN elements /\ LoadedElements(input_transcript)[e.name] = elements[e.name]
  OBVIOUS
<1>7. n # 0
  BY <1>4, SentEntriesAre
<1>8. AreParts(seqs, S)
  BY <1>5, <1>7 DEF AreParts
<1>9. input_transcript = flat
  <2>1. count(n) = Total(ByteLens(seqs), Len(seqs))
    BY <1>5, <1>6
  <2>2. ByteLen(SubSeq(flat, 1, Len(flat) - lost)) = Total(ByteLens(seqs), Len(seqs))
    BY <1>2, <1>3, <1>4, <2>1 DEF total_required_size
  <2>3. SubSeq(flat, 1, Len(flat) - lost) = flat
    BY <1>1, <1>3, <1>8, <2>2, WholeOrShort
  <2> QED
    BY <1>2, <1>3, <2>3
<1> DEFINE i == CHOOSE j \in DOMAIN SentEntries : SentEntries[j].name = e.name
<1>10. i \in 1 .. n /\ SentEntries[i].name = e.name
  <2>1. \E j \in DOMAIN SentEntries : SentEntries[j].name = e.name
    BY SentEntriesAre
  <2> QED
    BY <1>4, <2>1, SentEntriesAre
<1>11. LoadedElements(input_transcript)[e.name] = Slice(flat, count(i - 1), count(i))
  BY <1>9 DEF LoadedElements
<1> HIDE DEF i
<1>12. PICK p : p = i
  OBVIOUS
<1>13. Slice(flat, Total(ByteLens(seqs), p - 1), Total(ByteLens(seqs), p)) = seqs[p]
  BY <1>1, <1>3, <1>5, <1>8, <1>10, <1>12, SliceIsPart
<1>14. count(p - 1) = Total(ByteLens(seqs), p - 1) /\ count(p) = Total(ByteLens(seqs), p)
  BY <1>6, <1>10, <1>12
<1>15. LoadedElements(input_transcript)[e.name] = elements[e.name]
  BY <1>5, <1>10, <1>11, <1>12, <1>13, <1>14
<1>16. e.name \in DOMAIN elements
  <2>1. PICK r \in Rounds : e \in Entries(r)
    BY DEF Sent, AllEntries
  <2> QED
    BY <1>2, <2>1, ManifestAssumption DEF ExportAsserts, Entries, has_element
<1> QED
  BY <1>15, <1>16

LEMMA LoadBuffers ==
    ASSUME IInv, BInv, NEW lost \in {0, 1},
           new_from_transcript(SubSeq(proof, 1, Len(proof) - lost))
    PROVE  BInv'
PROOF
<1>1. PICK input_transcript : input_transcript = SubSeq(proof, 1, Len(proof) - lost)
  OBVIOUS
<1>2. new_from_transcript(input_transcript)
  BY <1>1
<1> USE DEF new_from_transcript, proverVars
<1>3. phase = "exported" /\ phase' \in {"refused", "verifying"}
  BY <1>2
<1>4. ProofIsSent'
  BY <1>2 DEF BInv, ProofIsSent, ExportAsserts, has_element, SentBuffers
<1>5. MockReadiesChallenge'
  BY <1>3 DEF MockReadiesChallenge
<1>6. AreBuffers(elements') /\ UNCHANGED <<elements, current_round, hashed, v_current_round, v_hashed>>
  BY <1>2 DEF BInv
<1>7. CASE ByteLen(input_transcript) # total_required_size
  <2>1. phase' = "refused" /\ v_elements' = v_elements
    BY <1>2, <1>7
  <2>2. ProofReloads' /\ AreBuffers(v_elements')
    BY <2>1 DEF ProofReloads, BInv
  <2> QED
    BY <1>4, <1>5, <1>6, <2>2, HashedKept, VHashedKept DEF BInv
<1>8. CASE ByteLen(input_transcript) = total_required_size
  <2>1. v_elements' = LoadedElements(input_transcript)
    BY <1>2, <1>8
  <2>2. \A e \in Sent : /\ e.name \in DOMAIN elements
                        /\ v_elements'[e.name] = elements[e.name]
    BY <1>1, <1>3, <1>8, <2>1, LoadedAre
  <2>3. DOMAIN v_elements' = {e.name : e \in Sent}
    BY <2>1 DEF LoadedElements
  <2>4. ProofReloads'
    BY <1>6, <2>2 DEF ProofReloads, Sent
  <2>5. AreBuffers(v_elements')
    BY <2>2, <2>3 DEF BInv, AreBuffers
  <2> QED
    BY <1>4, <1>5, <1>6, <2>4, <2>5, HashedKept, VHashedKept DEF BInv
<1> QED
  BY <1>7, <1>8

LEMMA VerifierAddsBuffers ==
    ASSUME IInv, BInv, NEW element_name \in DOMAIN Kind, NEW value \in Values[element_name],
           VerifierAdds(element_name, value)
    PROVE  BInv'
PROOF
<1> USE DEF VerifierAdds, proverVars
<1> DEFINE Fits(buffer) == \E S : buffer \in Seq(S) /\ \A c \in S : c.width \in Nat \ {0}
<1>1. PICK buffer : Fits(buffer) /\ v_elements' = With(v_elements, element_name, buffer)
  <2>1. CASE Kind[element_name] = "field" /\ Verifier!add_field_element(element_name, value)
    <3>1. v_elements' = With(v_elements, element_name, Serialize(FrWidth, value))
      BY <2>1 DEF Verifier!add_element, Verifier!add_field_element, With, Verifier!With,
         Serialize, Verifier!Serialize, Chunk, Verifier!Chunk, ZeroBytes, Verifier!ZeroBytes
    <3>2. Fits(Serialize(FrWidth, value))
      BY TranscriptAssumption, SerializedBuffer
    <3> QED
      BY <3>1, <3>2
  <2>2. CASE Kind[element_name] = "vector" /\ Verifier!put_field_element_vector(element_name, value)
    <3>1. v_elements' = With(v_elements, element_name, SerializeVector(value))
      BY <2>2, VerifierFlattens
         DEF Verifier!add_element, Verifier!put_field_element_vector, With, Verifier!With,
             SerializeVector, Verifier!SerializeVector, Serialize, Verifier!Serialize, Chunk,
             Verifier!Chunk, ZeroBytes, Verifier!ZeroBytes
    <3>2. Fits(SerializeVector(value))
      BY <2>2, ManifestAssumption, VectorBuffer
    <3> QED
      BY <3>1, <3>2
  <2> QED
    BY <2>1, <2>2
<1>2. UNCHANGED <<v_current_round, v_hashed, elements, current_round, hashed, phase, proof, mocked>>
  BY DEF Verifier!add_element, Verifier!add_field_element, Verifier!put_field_element_vector
<1>3. AreBuffers(v_elements')
  BY <1>1, BuffersWith DEF BInv
<1>4. ProofReloads'
  <2> SUFFICES ASSUME NEW e \in AllEntries, ~ e.derived_by_verifier
               PROVE  v_elements'[e.name] = elements[e.name]
    BY <1>2 DEF ProofReloads
  <2>1. e.name # element_name
    BY ManifestAssumption
  <2>2. e.name \in DOMAIN v_elements
    BY DEF IInv, SentKept, Sent
  <2> QED
    BY <1>1, <2>1, <2>2 DEF With, BInv, ProofReloads
<1>5. MockReadiesChallenge'
  BY <1>2 DEF MockReadiesChallenge
<1>6. AreBuffers(elements')
  BY <1>2 DEF BInv
<1> QED
  BY <1>2, <1>3, <1>4, <1>5, <1>6, ProofKept, HashedKept, VHashedKept DEF BInv

LEMMA VerifierDerivesBuffers == IInv /\ BInv /\ VerifierDerives => BInv'
PROOF
<1> SUFFICES ASSUME IInv, BInv, VerifierDerives PROVE BInv'
  OBVIOUS
<1> USE DEF VerifierDerives, proverVars
<1>1. PICK elems : elems = v_elements
  OBVIOUS
<1>2. HashedAsserts(v_current_round, v_hashed)' /\ v_elements' = elems
  BY <1>1, VerifierHashes DEF BInv
<1>3. ProofReloads'
  BY <1>1, <1>2 DEF BInv, ProofReloads
<1>4. MockReadiesChallenge'
  BY DEF MockReadiesChallenge
<1>5. AreBuffers(elements') /\ AreBuffers(v_elements')
  BY <1>1, <1>2 DEF BInv
<1> QED
  BY <1>2, <1>3, <1>4, <1>5, ProofKept, HashedKept DEF BInv

LEMMA StepBuffers == IInv /\ BInv /\ [Next]_vars => BInv'
PROOF
<1> SUFFICES ASSUME IInv, BInv, [Next]_vars PROVE BInv'
  OBVIOUS
<1>1. ASSUME NEW element_name \in DOMAIN Kind, NEW value \in Values[element_name],
             ProverAdds(element_name, value)
      PROVE  BInv'
  BY <1>1, ProverAddsBuffers
<1>2. ASSUME NEW element_name \in DOMAIN Kind, NEW value \in Values[element_name],
             VerifierAdds(element_name, value)
      PROVE  BInv'
  BY <1>2, VerifierAddsBuffers
<1>3. ASSUME NEW r \in Rounds, NEW circuit_size \in Values["circuit_size"],
             mock_inputs_prior_to_challenge(round_manifests[r].challenge, circuit_size)
      PROVE  BInv'
  BY <1>3, StartsMockingBuffers
<1>4. ASSUME NEW lost \in {0, 1}, new_from_transcript(SubSeq(proof, 1, Len(proof) - lost))
      PROVE  BInv'
  BY <1>4, LoadBuffers
<1>5. CASE UNCHANGED vars
  <2> USE <1>5 DEF vars, proverVars, verifierVars
  <2>1. ProofReloads'
    BY DEF BInv, ProofReloads
  <2>2. CircuitSizeFits => MockReadiesChallenge'
    BY DEF BInv, MockReadiesChallenge, FiatShamirAsserts, round_manifest
  <2>3. AreBuffers(elements') /\ AreBuffers(v_elements')
    BY DEF BInv
  <2> QED
    BY <2>1, <2>2, <2>3, ProofKept, HashedKept, VHashedKept DEF BInv
<1> QED
  BY <1>1, <1>2, <1>3, <1>4, <1>5, ProverDerivesBuffers, MockRoundBuffers, ExportBuffers,
     VerifierDerivesBuffers DEF Next

LEMMA Buffers == Spec => [](IInv /\ BInv)
PROOF
<1>1. Init => IInv /\ BInv
  BY InitInv, InitBuffers
<1>2. IInv /\ BInv /\ [Next]_vars => IInv' /\ BInv'
  BY StepInv, StepBuffers
<1> QED
  BY <1>1, <1>2, PTL DEF Spec

-----------------------------------------------------------------------------
(* The theorems.                                                             *)

\* A proof whose size is the one that the manifest requires loads into exactly
\* the elements that were exported, whatever they are and in whatever rounds
\* (export_transcript, new_from_transcript); a shorter one is refused.
THEOREM ExportedIsReloaded == Spec => []ProofReloads
PROOF
<1>1. BInv => ProofReloads
  BY DEF BInv
<1> QED
  BY <1>1, Buffers, PTL

\* What the verifier hashed of the elements it was sent is what the prover last
\* added, so that equal elements are equal at the time that they were hashed.
LEMMA HashedAlike ==
    ASSUME IInv, ProofReloads, NEW q \in Rounds, q <= v_current_round,
           \A e \in Entries(q) :
               hashed[q][e.name] = IF e.derived_by_verifier THEN v_hashed[q][e.name]
                                   ELSE elements[e.name]
    PROVE  SameEntries(q, hashed[q], v_hashed[q])
PROOF
<1>1. q \in 1 .. v_current_round
  BY ManifestAssumption DEF IInv, VerifierChain, Chain, Rounds
<1>2. phase = "verifying"
  BY <1>1 DEF IInv, Phases
<1>3. ASSUME NEW e \in Entries(q), ~ e.derived_by_verifier
      PROVE  hashed[q][e.name] = v_hashed[q][e.name]
  <2>1. e \in AllEntries
    BY DEF AllEntries
  <2>2. v_hashed[q][e.name] = v_elements[e.name]
    BY <1>1, <1>3 DEF IInv, SentKept
  <2>3. v_elements[e.name] = elements[e.name]
    BY <1>2, <1>3, <2>1 DEF ProofReloads
  <2> QED
    BY <1>3, <2>2, <2>3
<1>4. \A e \in Entries(q) : e.derived_by_verifier => hashed[q][e.name] = v_hashed[q][e.name]
  OBVIOUS
<1> QED
  BY <1>3, <1>4 DEF SameEntries

\* Completeness: the verifier's challenges of a round are the prover's, if the
\* prover replaced nothing it sends after hashing it and the verifier derives
\* the elements that are not sent as the prover had them (apply_fiat_shamir).
THEOREM VerifierFollows == Spec => []VerifierFollowsProver
PROOF
<1>1. IInv /\ BInv => VerifierFollowsProver
  <2> SUFFICES ASSUME IInv, BInv, NEW r \in Rounds, BothDerived(r),
                      \A q \in 1 .. r : \A e \in Entries(q) :
                          hashed[q][e.name] = IF e.derived_by_verifier THEN v_hashed[q][e.name]
                                              ELSE elements[e.name]
               PROVE  SameChallenges(r)
    BY DEF VerifierFollowsProver, BothDerived, SameChallenges, ChallengeOf
  <2>1. ASSUME NEW q \in 1 .. r
        PROVE  SameEntries(q, hashed[q], v_hashed[q])
    <3>1. q \in Rounds /\ q <= v_current_round
      BY ManifestAssumption DEF Rounds, BothDerived, IInv, VerifierChain, Chain
    <3> QED
      BY <3>1, HashedAlike DEF BInv
  <2> QED
    BY <2>1, SameElementsSameChallenges DEF IInv
<1> QED
  BY <1>1, Buffers, PTL

\* What mock_inputs_prior_to_challenge leaves is a transcript whose next
\* challenge is the one asked for, with every element that its derivation
\* asserts, if the manifest gives a circuit's size the four bytes it is mocked with.
THEOREM MockedIsReady ==
    ASSUME CircuitSizeFits
    PROVE  Spec => []MockReadiesChallenge
PROOF
<1>1. BInv => MockReadiesChallenge
  BY DEF BInv
<1> QED
  BY <1>1, Buffers, PTL

\* No round with challenges has two elements whose size is not declared.
OneDerived ==
    \A r \in Rounds : HasChallenges(r) =>
        \A i, j \in DOMAIN round_manifests[r].elements :
            /\ round_manifests[r].elements[i].derived_by_verifier
            /\ round_manifests[r].elements[j].derived_by_verifier
            => i = j

\* The buffers that a round hashes.
RoundParts(q, elems) ==
    [i \in DOMAIN round_manifests[q].elements |-> elems[round_manifests[q].elements[i].name]]

LEMMA RoundPartsAre ==
    ASSUME NEW q \in Rounds, NEW elems, RoundAsserts(q, elems), NEW n \in Nat \ {0},
           n = Len(round_manifests[q].elements), NEW S,
           \A name \in DOMAIN elems : elems[name] \in Seq(S)
    PROVE  /\ AreParts(RoundParts(q, elems), S)
           /\ Len(RoundParts(q, elems)) = n
           /\ \A i \in 1 .. n :
                  /\ round_manifests[q].elements[i] \in Entries(q)
                  /\ RoundParts(q, elems)[i] = elems[round_manifests[q].elements[i].name]
                  /\ \/ round_manifests[q].elements[i].derived_by_verifier
                     \/ ByteLen(RoundParts(q, elems)[i]) = round_manifests[q].elements[i].num_bytes
PROOF
<1>1. PICK entries : entries = round_manifests[q].elements
  OBVIOUS
<1>2. entries \in Seq(Entries(q))
  BY <1>1, ManifestAssumption
<1>3. DOMAIN entries = 1 .. n /\ \A i \in 1 .. n : entries[i] \in Entries(q)
  BY <1>1, <1>2, LenProperties, ElementOfSeq
<1>4. PICK seqs : seqs = RoundParts(q, elems)
  OBVIOUS
<1>5. DOMAIN seqs = 1 .. n /\ Len(seqs) = n /\ \A i \in 1 .. n : seqs[i] = elems[entries[i].name]
  BY <1>1, <1>3, <1>4 DEF RoundParts
<1>6. \A i \in 1 .. n : /\ seqs[i] \in Seq(S)
                        /\ entries[i].derived_by_verifier \/ ByteLen(seqs[i]) = entries[i].num_bytes
  BY <1>3, <1>5 DEF RoundAsserts
<1> QED
  BY <1>1, <1>3, <1>4, <1>5, <1>6 DEF AreParts

\* A round's data tells the elements that it is of.
LEMMA DataTellsEntries ==
    ASSUME OneDerived, NEW q \in Rounds, HasChallenges(q), NEW elems, NEW v_elems,
           RoundAsserts(q, elems), AreBuffers(elems),
           RoundAsserts(q, v_elems), AreBuffers(v_elems),
           DataOf(q, elems) = DataOf(q, v_elems)
    PROVE  SameEntries(q, elems, v_elems)
PROOF
<1>1. PICK entries : entries = round_manifests[q].elements
  OBVIOUS
<1>2. PICK n \in Nat : /\ n = Len(entries) /\ DOMAIN entries = 1 .. n
                       /\ Entries(q) = {entries[i] : i \in 1 .. n}
  <2>1. entries \in Seq(Entries(q))
    BY <1>1, ManifestAssumption
  <2>2. Len(entries) \in Nat /\ DOMAIN entries = 1 .. Len(entries)
    BY <2>1, LenProperties
  <2> QED
    BY <1>1, <2>2 DEF Entries, ToSet
<1>3. CASE n = 0
  BY <1>2, <1>3 DEF SameEntries
<1>4. CASE n # 0
  <2>1. PICK S1 : /\ \A c \in S1 : c.width \in Nat \ {0}
                  /\ \A name \in DOMAIN elems : elems[name] \in Seq(S1)
    BY DEF AreBuffers
  <2>2. PICK S2 : /\ \A c \in S2 : c.width \in Nat \ {0}
                  /\ \A name \in DOMAIN v_elems : v_elems[name] \in Seq(S2)
    BY DEF AreBuffers
  <2>3. PICK S : S = S1 \cup S2
    OBVIOUS
  <2>4. /\ \A c \in S : c.width \in Nat \ {0}
        /\ \A name \in DOMAIN elems : elems[name] \in Seq(S)
        /\ \A name \in DOMAIN v_elems : v_elems[name] \in Seq(S)
    BY <2>1, <2>2, <2>3, SeqMonotonic
  <2>5. PICK seqs, others : seqs = RoundParts(q, elems) /\ others = RoundParts(q, v_elems)
    OBVIOUS
  <2>a. n \in Nat \ {0} /\ n = Len(round_manifests[q].elements)
    BY <1>1, <1>2, <1>4
  <2>b. /\ AreParts(RoundParts(q, elems), S)
        /\ Len(RoundParts(q, elems)) = n
        /\ \A i \in 1 .. n :
               /\ round_manifests[q].elements[i] \in Entries(q)
               /\ RoundParts(q, elems)[i] = elems[round_manifests[q].elements[i].name]
               /\ \/ round_manifests[q].elements[i].derived_by_verifier
                  \/ ByteLen(RoundParts(q, elems)[i]) = round_manifests[q].elements[i].num_bytes
    BY ONLY <2>a, <2>4, q \in Rounds, RoundAsserts(q, elems), n \in Nat, RoundPartsAre
  <2>6. /\ AreParts(seqs, S) /\ Len(seqs) = n
        /\ \A i \in 1 .. n : /\ seqs[i] = elems[entries[i].name]
                             /\ entries[i].derived_by_verifier
                                \/ ByteLen(seqs[i]) = entries[i].num_bytes
    BY <1>1, <2>5, <2>b
  <2>7. /\ AreParts(others, S) /\ Len(others) = n
        /\ \A i \in 1 .. n : /\ others[i] = v_elems[entries[i].name]
                             /\ entries[i].derived_by_verifier
                                \/ ByteLen(others[i]) = entries[i].num_bytes
    BY <1>1, <1>2, <1>4, <2>4, <2>5, RoundPartsAre
  <2>8. FlattenSeq(seqs) = FlattenSeq(others)
    BY <2>5 DEF DataOf, RoundParts
  <2>9. PICK d \in 1 .. n : \A i \in 1 .. n : i # d => ~ entries[i].derived_by_verifier
    <3>1. \A i, j \in 1 .. n : entries[i].derived_by_verifier /\ entries[j].derived_by_verifier => i = j
      BY <1>1, <1>2 DEF OneDerived
    <3>2. 1 \in 1 .. n
      BY <1>4
    <3> QED
      BY <3>1, <3>2
  <2>10. \A i \in 1 .. n : i # d => ByteLen(seqs[i]) = ByteLen(others[i])
    BY <2>6, <2>7, <2>9
  <2>11. \A i \in 1 .. n : seqs[i] = others[i]
    <3>1. /\ Len(seqs) = Len(others) /\ d \in 1 .. Len(seqs)
          /\ \A i \in 1 .. Len(seqs) : i # d => ByteLen(seqs[i]) = ByteLen(others[i])
      BY <2>6, <2>7, <2>10
    <3>3. /\ \A c \in S : c.width \in Nat \ {0}
          /\ AreParts(seqs, S) /\ AreParts(others, S)
      BY <2>4, <2>6, <2>7
    <3>4. \A i \in 1 .. Len(seqs) : seqs[i] = others[i]
      BY ONLY <2>8, <3>1, <3>3, SameParts
    <3> QED
      BY <2>6, <3>4
  <2> QED
    BY <1>2, <2>6, <2>7, <2>11 DEF SameEntries
<1> QED
  BY <1>3, <1>4

\* Soundness of the transform: equal challenges bind the prover and the verifier
\* to equal elements, in their round and in every one before it that has
\* challenges, whatever was replaced and whenever (apply_fiat_shamir).  It takes a
\* manifest of which no round leaves two sizes open: the bytes of two elements of
\* unknown sizes can be divided between them in more than one way.
THEOREM ChallengesBind ==
    ASSUME OneDerived
    PROVE  Spec => []ChallengesBindElements
PROOF
<1>1. IInv /\ BInv => ChallengesBindElements
  <2> SUFFICES ASSUME IInv, BInv, NEW r \in Rounds, BothDerived(r), SameChallenges(r),
                      NEW q \in 1 .. r, HasChallenges(q)
               PROVE  SameEntries(q, hashed[q], v_hashed[q])
    BY DEF ChallengesBindElements, BothDerived, SameChallenges, ChallengeOf, SameEntries
  <2>1. q \in Rounds /\ q \in 1 .. current_round /\ q \in 1 .. v_current_round
    BY ManifestAssumption DEF Rounds, BothDerived, IInv, ProverChain, VerifierChain, Chain
  <2>2. DataOf(q, hashed[q]) = DataOf(q, v_hashed[q])
    BY SameChallengesSameBuffers DEF IInv
  <2>3. PICK elems, v_elems : elems = hashed[q] /\ v_elems = v_hashed[q]
    OBVIOUS
  <2>4. /\ RoundAsserts(q, elems) /\ AreBuffers(elems)
        /\ RoundAsserts(q, v_elems) /\ AreBuffers(v_elems)
    BY <2>1, <2>3 DEF BInv, HashedAsserts
  <2> QED
    BY <2>1, <2>2, <2>3, <2>4, DataTellsEntries
<1> QED
  BY <1>1, Buffers, PTL
==============================================================================
