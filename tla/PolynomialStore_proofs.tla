----------------------- MODULE PolynomialStore_proofs -----------------------
(***************************************************************************)
(* Lemmas about the operations of the store, for any set `held` of         *)
(* references outside the map: the modules that use the store cite them.   *)
(***************************************************************************)
EXTENDS PolynomialStore, TLAPS

(* The address a new cell gets is one nothing refers to.                     *)
LEMMA FreshRefIsFree ==
    ASSUME NEW held, FreeRefs(held) # {}
    PROVE  /\ FreshRef(held) \in Refs
           /\ FreshRef(held) \notin held
           /\ \A k \in Names : polynomial_map[k] # FreshRef(held)
<1>1. FreshRef(held) \in FreeRefs(held)
  BY DEF FreshRef
<1>2. QED
  BY <1>1 DEF FreeRefs

(* put keeps the map's type, and gives the name a cell of its own.           *)
LEMMA PutKeepsMap ==
    ASSUME NEW held, NEW heap, NEW key \in Names, NEW polynomial,
           MapTypeOK, NoAliasing, PutInto(heap, key, polynomial, held)
    PROVE  MapTypeOK' /\ NoAliasing'
<1> DEFINE f == FreshRef(held)
<1>1. /\ f \in Refs
      /\ \A k \in Names : polynomial_map[k] # f
  BY FreshRefIsFree DEF PutInto
<1>2. polynomial_map' = [polynomial_map EXCEPT ![key] = f]
  BY DEF PutInto
<1> HIDE DEF f
<1>3. MapTypeOK'
  BY <1>1, <1>2 DEF MapTypeOK
<1>4. NoAliasing'
  <2> SUFFICES ASSUME NEW j \in Names, NEW k \in Names,
                      polynomial_map'[j] = polynomial_map'[k],
                      polynomial_map'[j] # NoRef
               PROVE  j = k
    BY DEF NoAliasing, get, contains
  <2>1. CASE j = key \/ k = key
    BY <1>1, <1>2, <2>1 DEF MapTypeOK
  <2>2. CASE j # key /\ k # key
    BY <1>2, <2>2 DEF MapTypeOK, NoAliasing, get, contains
  <2>3. QED
    BY <2>1, <2>2
<1>5. QED
  BY <1>3, <1>4

(* put changes what the named polynomial is, and nothing else that can be    *)
(* read by name.                                                             *)
LEMMA PutContents ==
    ASSUME NEW held, NEW key \in Names, NEW polynomial,
           NEW heap, DOMAIN heap = Refs,
           MapTypeOK, PutInto(heap, key, polynomial, held)
    PROVE  Contents' = [ContentsOf(heap) EXCEPT ![key] = polynomial]
<1> DEFINE f == FreshRef(held)
<1>1. /\ f \in Refs
      /\ \A k \in Names : polynomial_map[k] # f
  BY FreshRefIsFree DEF PutInto
<1>2. /\ polynomial_map' = [polynomial_map EXCEPT ![key] = f]
      /\ cells' = Reclaim([heap EXCEPT ![f] = polynomial], polynomial_map', held)
  BY DEF PutInto
<1> HIDE DEF f
<1>3. /\ polynomial_map'[key] = f
      /\ \A k \in Names \ {key} : polynomial_map'[k] = polynomial_map[k]
  BY <1>2 DEF MapTypeOK
<1>4. cells'[f] = polynomial
  BY <1>1, <1>2, <1>3 DEF Reclaim
<1>5. \A k \in Names \ {key} :
         polynomial_map[k] # NoRef => cells'[polynomial_map[k]] = heap[polynomial_map[k]]
  BY <1>1, <1>2, <1>3 DEF Reclaim, MapTypeOK
<1>6. \A k \in Names :
         (IF polynomial_map'[k] # NoRef THEN cells'[polynomial_map'[k]] ELSE Freed)
         = IF k = key THEN polynomial
           ELSE IF polynomial_map[k] # NoRef THEN heap[polynomial_map[k]] ELSE Freed
  BY <1>1, <1>3, <1>4, <1>5, StoreAssumption
<1>7. Contents' = [k \in Names |->
         IF polynomial_map'[k] # NoRef THEN cells'[polynomial_map'[k]] ELSE Freed]
  BY DEF Contents, ContentsOf, contains, get
<1>8. [ContentsOf(heap) EXCEPT ![key] = polynomial] = [k \in Names |->
         IF k = key THEN polynomial
         ELSE IF polynomial_map[k] # NoRef THEN heap[polynomial_map[k]] ELSE Freed]
  BY DEF ContentsOf, contains, get
<1>9. QED
  BY <1>6, <1>7, <1>8

(* put frees or changes no cell that a holder refers to.                     *)
LEMMA PutKeepsHeldCells ==
    ASSUME NEW held, NEW key \in Names, NEW polynomial,
           NEW heap, DOMAIN heap = Refs, PutInto(heap, key, polynomial, held),
           NEW r \in held, r \in Refs
    PROVE  cells'[r] = heap[r]
<1>1. FreshRef(held) # r
  BY FreshRefIsFree DEF PutInto
<1>2. QED
  BY <1>1 DEF PutInto, Reclaim

(* remove keeps the map's type and leaves no two names on one cell.          *)
LEMMA RemoveKeepsMap ==
    ASSUME NEW held, NEW key \in Names,
           MapTypeOK, NoAliasing, remove(key, held)
    PROVE  MapTypeOK' /\ NoAliasing'
<1>1. polynomial_map' = [polynomial_map EXCEPT ![key] = NoRef]
  BY DEF remove
<1>2. MapTypeOK'
  BY <1>1 DEF MapTypeOK
<1>3. NoAliasing'
  BY <1>1 DEF NoAliasing, get, contains, MapTypeOK
<1>4. QED
  BY <1>2, <1>3

(* remove erases the name and nothing else that can be read by name.         *)
LEMMA RemoveContents ==
    ASSUME NEW held, NEW key \in Names, MapTypeOK, remove(key, held)
    PROVE  Contents' = [Contents EXCEPT ![key] = Freed]
<1>1. /\ polynomial_map' = [polynomial_map EXCEPT ![key] = NoRef]
      /\ cells' = Reclaim(cells, polynomial_map', held)
  BY DEF remove
<1>2. /\ polynomial_map'[key] = NoRef
      /\ \A k \in Names \ {key} : polynomial_map'[k] = polynomial_map[k]
  BY <1>1 DEF MapTypeOK
<1>3. \A k \in Names \ {key} :
         polynomial_map[k] # NoRef => cells'[polynomial_map[k]] = cells[polynomial_map[k]]
  BY <1>1, <1>2 DEF Reclaim, MapTypeOK
<1>4. \A k \in Names :
         (IF polynomial_map'[k] # NoRef THEN cells'[polynomial_map'[k]] ELSE Freed)
         = IF k = key THEN Freed
           ELSE IF polynomial_map[k] # NoRef THEN cells[polynomial_map[k]] ELSE Freed
  BY <1>2, <1>3
<1>5. Contents' = [k \in Names |->
         IF polynomial_map'[k] # NoRef THEN cells'[polynomial_map'[k]] ELSE Freed]
  BY DEF Contents, ContentsOf, contains, get
<1>6. [Contents EXCEPT ![key] = Freed] = [k \in Names |->
         IF k = key THEN Freed
         ELSE IF polynomial_map[k] # NoRef THEN cells[polynomial_map[k]] ELSE Freed]
  BY DEF Contents, ContentsOf, contains, get
<1>7. QED
  BY <1>4, <1>5, <1>6

(* A write through a reference changes the one name that maps to it, if any: *)
(* this is what NoAliasing is for.                                           *)
LEMMA WriteContents ==
    ASSUME NEW r \in Refs, NEW polynomial,
           MapTypeOK, NoAliasing, DOMAIN cells = Refs,
           WriteThrough(r, polynomial), UNCHANGED polynomial_map
    PROVE  \/ Contents' = Contents
           \/ \E k \in Names : Contents' = [Contents EXCEPT ![k] = polynomial]
<1>1. cells' = [cells EXCEPT ![r] = polynomial]
  BY DEF WriteThrough
<1>2. Contents' = [k \in Names |->
         IF polynomial_map[k] # NoRef THEN cells'[polynomial_map[k]] ELSE Freed]
  BY DEF Contents, ContentsOf, contains, get
<1>3. CASE \E k \in Names : polynomial_map[k] = r
  <2>1. PICK k \in Names : polynomial_map[k] = r
    BY <1>3
  <2>2. \A j \in Names \ {k} : polynomial_map[j] # r
    BY <2>1, StoreAssumption DEF NoAliasing, get, contains
  <2>3. \A j \in Names :
           (IF polynomial_map[j] # NoRef THEN cells'[polynomial_map[j]] ELSE Freed)
           = IF j = k THEN polynomial
             ELSE IF polynomial_map[j] # NoRef THEN cells[polynomial_map[j]] ELSE Freed
    BY <1>1, <2>1, <2>2, StoreAssumption DEF MapTypeOK
  <2>4. Contents' = [Contents EXCEPT ![k] = polynomial]
    BY <1>2, <2>3 DEF Contents, ContentsOf, contains, get
  <2>5. QED
    BY <2>4
<1>4. CASE \A k \in Names : polynomial_map[k] # r
  <2>1. \A j \in Names :
           (IF polynomial_map[j] # NoRef THEN cells'[polynomial_map[j]] ELSE Freed)
           = IF polynomial_map[j] # NoRef THEN cells[polynomial_map[j]] ELSE Freed
    BY <1>1, <1>4 DEF MapTypeOK
  <2>2. QED
    BY <1>2, <2>1 DEF Contents, ContentsOf, contains, get
<1>5. QED
  BY <1>3, <1>4

(* Dropping references changes nothing that can be read by name.             *)
LEMMA ReclaimContents ==
    ASSUME NEW held, MapTypeOK, UNCHANGED polynomial_map,
           cells' = Reclaim(cells, polynomial_map, held)
    PROVE  Contents' = Contents
<1>1. \A k \in Names :
         polynomial_map[k] # NoRef => cells'[polynomial_map[k]] = cells[polynomial_map[k]]
  BY DEF Reclaim, MapTypeOK
<1>2. \A k \in Names :
         (IF polynomial_map[k] # NoRef THEN cells'[polynomial_map[k]] ELSE Freed)
         = IF polynomial_map[k] # NoRef THEN cells[polynomial_map[k]] ELSE Freed
  BY <1>1
<1>3. QED
  BY <1>2 DEF Contents, ContentsOf, contains, get
==============================================================================
