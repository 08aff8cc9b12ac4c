--------------------------- MODULE PolynomialStore ---------------------------
(***************************************************************************)
(* proof_system/polynomial_store.rs: the prover's cache of polynomials, a  *)
(* HashMap<String, Rc<RefCell<Polynomial>>>.                               *)
(*                                                                         *)
(* A polynomial lives in a reference-counted cell.  The map holds one      *)
(* reference to the cell of each name; `get` clones that reference, so a   *)
(* holder (a local variable, an item of the work queue, a field of the     *)
(* proving key) shares the cell with the map and may write through it.  A  *)
(* cell whose last reference is dropped is freed, and its address may be   *)
(* used again.                                                             *)
(*                                                                         *)
(* The operations take `held`, the references that live outside the map;   *)
(* the modules that use the store say who holds them.                      *)
(***************************************************************************)
EXTENDS FiniteSetsExt

CONSTANTS
    Names,       \* the string IDs of polynomials
    Refs,        \* addresses of cells; bounds how many are alive at once
    NoRef,       \* the reference of a name without an entry
    Freed        \* the content of a cell that is not allocated

ASSUME StoreAssumption == NoRef \notin Refs

VARIABLES
    polynomial_map, \* the reference each name maps to, or NoRef
    cells           \* the content of every cell

storeVars == <<polynomial_map, cells>>

-----------------------------------------------------------------------------
(* Reference counting.                                                       *)

\* The addresses Rc::new may return: those nothing refers to.
FreeRefs(held) == {r \in Refs \ held : \A k \in Names : polynomial_map[k] # r}

FreshRef(held) == CHOOSE r \in FreeRefs(held) : TRUE

\* Dropping references frees the cells that no map entry and no holder names.
Reclaim(heap, map, held) ==
    [r \in Refs |-> IF r \in held \/ \E k \in Names : map[k] = r
                    THEN heap[r] ELSE Freed]

-----------------------------------------------------------------------------
(* The operations.                                                           *)

StoreInit ==
    /\ polynomial_map = [k \in Names |-> NoRef]
    /\ cells = [r \in Refs |-> Freed]

contains(key) == polynomial_map[key] # NoRef

\* get: a clone of the reference, NoRef standing for Err.
get(key) == polynomial_map[key]

\* The polynomial stored under a name.
Stored(key) == cells[get(key)]

\* put: the name gets a new cell.  The old cell, if other references to it
\* exist, lives on with them.  `heap` is the cells after the writes the caller
\* made on the way.
PutInto(heap, key, polynomial, held) ==
    /\ FreeRefs(held) # {}
    /\ polynomial_map' = [polynomial_map EXCEPT ![key] = FreshRef(held)]
    /\ cells' = Reclaim([heap EXCEPT ![FreshRef(held)] = polynomial],
                        polynomial_map', held)

\* Mutant of put: a polynomial equal to a stored one gets a clone of its Rc.
PutSharingEquals(key, polynomial, held) ==
    LET Equals == {k \in Names : contains(k) /\ Stored(k) = polynomial}
    IN  IF Equals = {} THEN PutInto(cells, key, polynomial, held)
        ELSE /\ polynomial_map' = [polynomial_map EXCEPT
                                     ![key] = get(CHOOSE k \in Equals : TRUE)]
             /\ cells' = Reclaim(cells, polynomial_map', held)

put(key, polynomial, held) == PutInto(cells, key, polynomial, held)

\* insert does what put does, from a borrowed name.
insert(key, polynomial, held) == put(key, polynomial, held)

\* Rc::try_unwrap gives the polynomial away on the last reference only.
Unwraps(key, held) ==
    /\ contains(key)
    /\ get(key) \notin held
    /\ \A k \in Names \ {key} : get(k) # get(key)

\* Mutant of remove: the polynomial is moved out of its cell unconditionally.
RemoveEmptyingTheCell(key, held) ==
    /\ polynomial_map' = [polynomial_map EXCEPT ![key] = NoRef]
    /\ cells' = Reclaim([cells EXCEPT ![get(key)] = Freed], polynomial_map', held)

\* remove takes the entry out of the map before it tries to unwrap.
remove(key, held) ==
    /\ polynomial_map' = [polynomial_map EXCEPT ![key] = NoRef]
    /\ cells' = Reclaim(cells, polynomial_map', held)

\* get_size_in_bytes, in units of size_of::<Fr>(): the sizes the polynomials
\* report, added over the entries of the map.
get_size_in_bytes ==
    MapThenSumSet(LAMBDA k : Stored(k).size, {k \in Names : contains(k)})

\* A holder writes through its reference (RefCell::borrow_mut).
WriteThrough(r, polynomial) == cells' = [cells EXCEPT ![r] = polynomial]

-----------------------------------------------------------------------------
(* What every user of the store relies on.                                   *)

MapTypeOK == polynomial_map \in [Names -> Refs \cup {NoRef}]

\* Two names never share a cell, whatever references were taken, written
\* through or kept while the map changed under them (put's new Rc).
NoAliasing ==
    \A j, k \in Names : get(j) = get(k) /\ contains(j) => j = k

\* The polynomials that can be read by name.
ContentsOf(heap) ==
    [k \in Names |-> IF contains(k) THEN heap[get(k)] ELSE Freed]

Contents == ContentsOf(cells)
==============================================================================
