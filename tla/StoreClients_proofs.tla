------------------------- MODULE StoreClients_proofs -------------------------
(***************************************************************************)
(* Theorems about StoreClients, for all sets of names, polynomials, cells  *)
(* and handles.  TypeOK and NoAliasing are inductive together: that a      *)
(* write reaches one name at most needs NoAliasing, and NoAliasing needs   *)
(* the new cell of put to be one that no name maps to.                     *)
(***************************************************************************)
EXTENDS StoreClients, PolynomialStore_proofs

IInv == TypeOK /\ NoAliasing

LEMMA InitIInv == Init => IInv
  BY DEF Init, StoreInit, IInv, TypeOK, MapTypeOK, NoAliasing, contains, get

(* Where the cells of names and handles can be after a store by name.        *)
LEMMA PutTypeOK ==
    ASSUME NEW key \in Names, NEW polynomial \in Polynomials,
           IInv, put(key, polynomial, HandleRefs), UNCHANGED handle
    PROVE  IInv'
<1> DEFINE f == FreshRef(HandleRefs)
<1>1. /\ TypeOK /\ MapTypeOK /\ NoAliasing
      /\ cells \in [Refs -> Polynomials \cup {Freed}] /\ DOMAIN cells = Refs
  BY DEF IInv, TypeOK
<1>2. MapTypeOK' /\ NoAliasing'
  BY <1>1, PutKeepsMap DEF put
<1>3. /\ f \in Refs
      /\ \A k \in Names : polynomial_map[k] # f
      /\ \A h \in Handles : handle[h] # f
  BY FreshRefIsFree DEF put, PutInto, HandleRefs
<1>4. /\ polynomial_map' = [polynomial_map EXCEPT ![key] = f]
      /\ cells' = Reclaim([cells EXCEPT ![f] = polynomial], polynomial_map', HandleRefs)
  BY DEF put, PutInto
<1> HIDE DEF f
<1>5. cells' \in [Refs -> Polynomials \cup {Freed}]
  BY <1>1, <1>3, <1>4 DEF Reclaim
<1>6. \A k \in Names : contains(k)' => Stored(k)' \in Polynomials
  <2> SUFFICES ASSUME NEW k \in Names, polynomial_map'[k] # NoRef
               PROVE  cells'[polynomial_map'[k]] \in Polynomials
    BY DEF contains, Stored, get
  <2>1. CASE k = key
    BY <1>1, <1>3, <1>4, <2>1 DEF Reclaim, MapTypeOK
  <2>2. CASE k # key
    <3>1. polynomial_map'[k] = polynomial_map[k] /\ polynomial_map[k] \in Refs
      BY <1>1, <1>4, <2>2 DEF MapTypeOK
    <3>2. cells'[polynomial_map[k]] = cells[polynomial_map[k]]
      BY <1>1, <1>3, <1>4, <3>1 DEF Reclaim
    <3>3. QED
      BY <1>1, <3>1, <3>2 DEF TypeOK, contains, Stored, get
  <2>3. QED
    BY <2>1, <2>2
<1>7. \A h \in Handles : handle'[h] # NoRef => cells'[handle'[h]] \in Polynomials
  <2> SUFFICES ASSUME NEW h \in Handles, handle[h] # NoRef
               PROVE  cells'[handle[h]] \in Polynomials
    OBVIOUS
  <2>1. handle[h] \in HandleRefs /\ handle[h] \in Refs
    BY <1>1 DEF TypeOK, HandleRefs
  <2>2. PutInto(cells, key, polynomial, HandleRefs)
    BY DEF put
  <2>3. cells'[handle[h]] = cells[handle[h]]
    BY <1>1, <2>1, <2>2, PutKeepsHeldCells
  <2>4. QED
    BY <1>1, <2>3 DEF TypeOK
<1>8. QED
  BY <1>1, <1>2, <1>5, <1>6, <1>7 DEF IInv, TypeOK

LEMMA RemoveTypeOK ==
    ASSUME NEW key \in Names, IInv, remove(key, HandleRefs), UNCHANGED handle
    PROVE  IInv'
<1>1. /\ TypeOK /\ MapTypeOK /\ NoAliasing
      /\ cells \in [Refs -> Polynomials \cup {Freed}] /\ DOMAIN cells = Refs
  BY DEF IInv, TypeOK
<1>2. MapTypeOK' /\ NoAliasing'
  BY <1>1, RemoveKeepsMap
<1>3. /\ polynomial_map' = [polynomial_map EXCEPT ![key] = NoRef]
      /\ cells' = Reclaim(cells, polynomial_map', HandleRefs)
  BY DEF remove
<1>4. cells' \in [Refs -> Polynomials \cup {Freed}]
  BY <1>1, <1>3 DEF Reclaim
<1>5. \A k \in Names : contains(k)' => Stored(k)' \in Polynomials
  <2> SUFFICES ASSUME NEW k \in Names, polynomial_map'[k] # NoRef
               PROVE  cells'[polynomial_map'[k]] \in Polynomials
    BY DEF contains, Stored, get
  <2>1. polynomial_map'[k] = polynomial_map[k] /\ polynomial_map[k] \in Refs
    BY <1>1, <1>3 DEF MapTypeOK
  <2>2. cells'[polynomial_map[k]] = cells[polynomial_map[k]]
    BY <1>3, <2>1 DEF Reclaim
  <2>3. QED
    BY <1>1, <2>1, <2>2 DEF TypeOK, contains, Stored, get
<1>6. \A h \in Handles : handle'[h] # NoRef => cells'[handle'[h]] \in Polynomials
  <2> SUFFICES ASSUME NEW h \in Handles, handle[h] # NoRef
               PROVE  cells'[handle[h]] \in Polynomials
    OBVIOUS
  <2>1. handle[h] \in HandleRefs /\ handle[h] \in Refs
    BY <1>1 DEF TypeOK, HandleRefs
  <2>2. cells'[handle[h]] = cells[handle[h]]
    BY <1>3, <2>1 DEF Reclaim
  <2>3. QED
    BY <1>1, <2>2 DEF TypeOK
<1>7. QED
  BY <1>1, <1>2, <1>4, <1>5, <1>6 DEF IInv, TypeOK

LEMMA NextIInv == IInv /\ [Next]_vars => IInv'
<1> SUFFICES ASSUME IInv, [Next]_vars
             PROVE  IInv'
  OBVIOUS
<1>1. ASSUME NEW key \in Names, NEW polynomial \in Polynomials,
             CallPut(key, polynomial)
      PROVE  IInv'
  BY <1>1, PutTypeOK DEF CallPut
<1>2. ASSUME NEW key \in Names, NEW polynomial \in Polynomials,
             CallInsert(key, polynomial)
      PROVE  IInv'
  BY <1>2, PutTypeOK DEF CallInsert, insert
<1>3. ASSUME NEW key \in Names, NEW h \in Handles, CallGet(key, h)
      PROVE  IInv'
  <2>1. /\ polynomial_map' = polynomial_map /\ cells' = cells
        /\ handle' = [handle EXCEPT ![h] = polynomial_map[key]]
    BY <1>3 DEF CallGet, storeVars, get
  <2>2. \A g \in Handles : handle'[g] # NoRef => cells'[handle'[g]] \in Polynomials
    BY <2>1 DEF IInv, TypeOK, contains, Stored, get
  <2>3. QED
    BY <2>1, <2>2
    DEF IInv, TypeOK, MapTypeOK, NoAliasing, contains, Stored, get
<1>4. ASSUME NEW key \in Names, CallRemove(key)
      PROVE  IInv'
  <2>1. CASE contains(key)
    BY <1>4, <2>1, RemoveTypeOK DEF CallRemove
  <2>2. CASE ~contains(key)
    <3>1. UNCHANGED <<polynomial_map, cells, handle>>
      BY <1>4, <2>2 DEF CallRemove, storeVars
    <3>2. QED
      BY <3>1 DEF IInv, TypeOK, MapTypeOK, NoAliasing, contains, Stored, get
  <2>3. QED
    BY <2>1, <2>2
<1>5. ASSUME NEW h \in Handles, NEW polynomial \in Polynomials,
             Write(h, polynomial)
      PROVE  IInv'
  BY <1>5 DEF Write, WriteThrough, IInv, TypeOK, MapTypeOK, NoAliasing,
              contains, Stored, get
<1>6. ASSUME NEW h \in Handles, Drop(h)
      PROVE  IInv'
  <2>1. /\ polynomial_map' = polynomial_map
        /\ handle' = [handle EXCEPT ![h] = NoRef]
        /\ cells' = Reclaim(cells, polynomial_map, {handle'[g] : g \in Handles})
    BY <1>6 DEF Drop
  <2>2. \A k \in Names : polynomial_map[k] # NoRef =>
            cells'[polynomial_map[k]] = cells[polynomial_map[k]]
    BY <2>1 DEF Reclaim, IInv, TypeOK, MapTypeOK
  <2>3. \A g \in Handles : handle'[g] # NoRef =>
            /\ handle'[g] = handle[g]
            /\ cells'[handle[g]] = cells[handle[g]]
    BY <2>1 DEF Reclaim, IInv, TypeOK
  <2>4. cells' \in [Refs -> Polynomials \cup {Freed}]
    BY <2>1 DEF Reclaim, IInv, TypeOK
  <2>5. handle' \in [Handles -> Refs \cup {NoRef}]
    BY <2>1 DEF IInv, TypeOK
  <2>6. QED
    BY <2>1, <2>2, <2>3, <2>4, <2>5
    DEF IInv, TypeOK, MapTypeOK, NoAliasing, contains, Stored, get
<1>7. CASE UNCHANGED vars
  BY <1>7 DEF vars, IInv, TypeOK, MapTypeOK, NoAliasing, contains, Stored, get
<1>8. QED
  BY <1>1, <1>2, <1>3, <1>4, <1>5, <1>6, <1>7 DEF Next

LEMMA Invariance == Spec => []IInv
  BY InitIInv, NextIInv, PTL DEF Spec

(* No cell is freed while a name or a handle refers to it.                   *)
THEOREM TypeCorrect == Spec => []TypeOK
<1>1. IInv => TypeOK
  BY DEF IInv
<1>2. QED
  BY <1>1, Invariance, PTL

(* put never gives a name a cell that another name has, however references   *)
(* were kept across puts and removes.                                        *)
THEOREM NamesNeverShare == Spec => []NoAliasing
<1>1. IInv => NoAliasing
  BY DEF IInv
<1>2. QED
  BY <1>1, Invariance, PTL

(* Every call is a step of the map of names to polynomials, or none.         *)
LEMMA StepRefinement == IInv /\ [Next]_vars => [Map!Next]_Contents
<1> SUFFICES ASSUME IInv, [Next]_vars
             PROVE  Map!Next \/ UNCHANGED Contents
  OBVIOUS
<1>a. /\ MapTypeOK /\ NoAliasing
      /\ cells \in [Refs -> Polynomials \cup {Freed}] /\ DOMAIN cells = Refs
  BY DEF IInv, TypeOK
<1>b. ASSUME NEW k \in Names, NEW p \in Polynomials,
             Contents' = [Contents EXCEPT ![k] = p]
      PROVE  Map!Next
  BY <1>b DEF Map!Next, Map!Assign
<1>1. ASSUME NEW key \in Names, NEW polynomial \in Polynomials,
             put(key, polynomial, HandleRefs)
      PROVE  Map!Next
  <2>1. Contents' = [Contents EXCEPT ![key] = polynomial]
    BY <1>a, <1>1, PutContents DEF put, Contents
  <2>2. QED
    BY <1>b, <2>1
<1>2. ASSUME NEW key \in Names, NEW h \in Handles, CallGet(key, h)
      PROVE  UNCHANGED Contents
  BY <1>2 DEF CallGet, storeVars, Contents, ContentsOf, contains, get
<1>3. ASSUME NEW key \in Names, CallRemove(key)
      PROVE  Map!Next \/ UNCHANGED Contents
  <2>1. CASE contains(key)
    <3>1. Contents' = [Contents EXCEPT ![key] = Freed]
      BY <1>a, <1>3, <2>1, RemoveContents DEF CallRemove
    <3>2. Contents[key] # Freed
      BY <2>1, ClientsAssumption DEF IInv, TypeOK, Contents, ContentsOf, Stored, get
    <3>3. QED
      BY <3>1, <3>2 DEF Map!Next, Map!Erase
  <2>2. CASE ~contains(key)
    BY <1>3, <2>2 DEF CallRemove, storeVars, Contents, ContentsOf, contains, get
  <2>3. QED
    BY <2>1, <2>2
<1>4. ASSUME NEW h \in Handles, NEW polynomial \in Polynomials,
             Write(h, polynomial)
      PROVE  Map!Next \/ UNCHANGED Contents
  <2>1. handle[h] \in Refs
    BY <1>4 DEF Write, IInv, TypeOK
  <2>2. WriteThrough(handle[h], polynomial) /\ UNCHANGED polynomial_map
    BY <1>4 DEF Write
  <2>3. QED
    BY <1>a, <1>b, <2>1, <2>2, WriteContents
<1>5. ASSUME NEW h \in Handles, Drop(h)
      PROVE  UNCHANGED Contents
  BY <1>a, <1>5, ReclaimContents DEF Drop
<1>6. CASE UNCHANGED vars
  BY <1>6 DEF vars, Contents, ContentsOf, contains, get
<1>7. QED
  BY <1>1, <1>2, <1>3, <1>4, <1>5, <1>6 DEF Next, CallPut, CallInsert, insert

(* The store implements the map: what is read under a name is what was last  *)
(* put there, or written there through a reference of that very entry.       *)
THEOREM StoreImplementsMap == Spec => ImplementsMap
<1>1. Init => Map!Init
  BY DEF Init, StoreInit, Map!Init, Contents, ContentsOf, contains, get
<1>2. QED
  BY <1>1, Invariance, StepRefinement, PTL DEF Spec, ImplementsMap, Map!Spec

(* A remove that fails with the entry present loses the name only: since no  *)
(* other name shares the cell (NoAliasing), what kept the Rc from unwrapping *)
(* is a handle, and dropping the entry left that handle's cell as it was.    *)
LEMMA StepOfFailedRemove ==
    ASSUME IInv, Next, NEW k \in Names,
           contains(k), outcome' = Outcome("remove", k, FALSE)
    PROVE  \E h \in Handles : /\ handle'[h] = get(k)
                              /\ cells'[handle'[h]] = Stored(k)
<1>1. PICK key \in Names : CallRemove(key)
  BY DEF Next, CallPut, CallInsert, CallGet, Write, Drop, Outcome
<1>2. key = k /\ ~Unwraps(k, HandleRefs)
  BY <1>1 DEF CallRemove, Outcome
<1>3. /\ cells' = Reclaim(cells, polynomial_map', HandleRefs)
      /\ handle' = handle
  BY <1>1, <1>2 DEF CallRemove, remove
<1>4. get(k) \in HandleRefs
  BY <1>2 DEF Unwraps, IInv, NoAliasing
<1>5. PICK h \in Handles : handle[h] = get(k)
  BY <1>4 DEF HandleRefs
<1>6. get(k) \in Refs
  BY DEF IInv, TypeOK, MapTypeOK, contains, get
<1>7. cells'[get(k)] = cells[get(k)]
  BY <1>3, <1>4, <1>6 DEF Reclaim
<1>8. QED
  BY <1>3, <1>5, <1>7 DEF Stored

(* An Err from remove never destroys a polynomial: some handle still reads   *)
(* what the name stood for.                                                  *)
THEOREM FailedRemoveLosesTheNameOnly == Spec => FailedRemoveKeepsPolynomialAlive
<1>1. ASSUME IInv, Next
      PROVE  \A k \in Names :
                 contains(k) /\ outcome' = Outcome("remove", k, FALSE)
                 => \E h \in Handles : /\ handle'[h] = get(k)
                                       /\ cells'[handle'[h]] = Stored(k)
  BY <1>1, StepOfFailedRemove
<1>2. QED
  BY <1>1, Invariance, PTL DEF Spec, FailedRemoveKeepsPolynomialAlive
==============================================================================
