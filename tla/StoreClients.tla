---------------------------- MODULE StoreClients ----------------------------
(***************************************************************************)
(* A PolynomialStore and the code that calls it.  Callers put, insert,     *)
(* remove, and keep the references `get` returned in handles, writing      *)
(* through them whenever they like, in any order.                          *)
(***************************************************************************)
EXTENDS PolynomialStore

CONSTANTS
    Polynomials, \* the polynomials callers store
    Handles      \* the variables of the callers that can hold a reference

ASSUME ClientsAssumption == Freed \notin Polynomials

VARIABLES
    handle,      \* the reference each handle holds, or NoRef
    outcome      \* what the last call was, and whether it returned Ok

vars == <<polynomial_map, cells, handle, outcome>>

HandleRefs == {handle[h] : h \in Handles}

Outcome(op, key, ok) == [op |-> op, key |-> key, ok |-> ok]

Init ==
    /\ StoreInit
    /\ handle = [h \in Handles |-> NoRef]
    /\ outcome = Outcome("new", NoRef, TRUE)

CallPut(key, polynomial) ==
    /\ put(key, polynomial, HandleRefs)
    /\ outcome' = Outcome("put", key, TRUE)
    /\ UNCHANGED handle

CallInsert(key, polynomial) ==
    /\ insert(key, polynomial, HandleRefs)
    /\ outcome' = Outcome("insert", key, TRUE)
    /\ UNCHANGED handle

\* The result of get is kept in an empty handle; an Err leaves it empty.
CallGet(key, h) ==
    /\ handle[h] = NoRef
    /\ handle' = [handle EXCEPT ![h] = get(key)]
    /\ outcome' = Outcome("get", key, contains(key))
    /\ UNCHANGED storeVars

CallRemove(key) ==
    /\ IF contains(key) THEN remove(key, HandleRefs) ELSE UNCHANGED storeVars
    /\ outcome' = Outcome("remove", key, Unwraps(key, HandleRefs))
    /\ UNCHANGED handle

\* A caller updates the polynomial its handle shares with the map.
Write(h, polynomial) ==
    /\ handle[h] # NoRef
    /\ WriteThrough(handle[h], polynomial)
    /\ outcome' = Outcome("write", NoRef, TRUE)
    /\ UNCHANGED <<polynomial_map, handle>>

\* A handle goes out of scope.
Drop(h) ==
    /\ handle[h] # NoRef
    /\ handle' = [handle EXCEPT ![h] = NoRef]
    /\ cells' = Reclaim(cells, polynomial_map, {handle'[g] : g \in Handles})
    /\ outcome' = Outcome("drop", NoRef, TRUE)
    /\ UNCHANGED polynomial_map

Next ==
    \/ \E key \in Names, polynomial \in Polynomials : CallPut(key, polynomial)
    \/ \E key \in Names, polynomial \in Polynomials : CallInsert(key, polynomial)
    \/ \E key \in Names, h \in Handles : CallGet(key, h)
    \/ \E key \in Names : CallRemove(key)
    \/ \E h \in Handles, polynomial \in Polynomials : Write(h, polynomial)
    \/ \E h \in Handles : Drop(h)

Spec == Init /\ [][Next]_vars

-----------------------------------------------------------------------------
(* Properties.                                                               *)

\* Every variable has its type, and every reference, in the map or in a
\* handle, leads to a polynomial: no cell is freed under its holders.
TypeOK ==
    /\ MapTypeOK
    /\ cells \in [Refs -> Polynomials \cup {Freed}]
    /\ handle \in [Handles -> Refs \cup {NoRef}]
    /\ \A k \in Names : contains(k) => Stored(k) \in Polynomials
    /\ \A h \in Handles : handle[h] # NoRef => cells[handle[h]] \in Polynomials

Map == INSTANCE PolynomialMap WITH contents <- Contents, Absent <- Freed

\* The store implements the map of names to polynomials: no call, and no write
\* through a reference however old, changes what two names hold.
ImplementsMap == Map!Spec

\* remove takes the entry out first and unwraps second (lines 59-63); when it
\* returns Err for a name that was present, the polynomial has left the map but
\* some handle still holds it, unchanged: only the owner by name has lost it.
FailedRemoveKeepsPolynomialAlive ==
    [][\A k \in Names :
          contains(k) /\ outcome' = Outcome("remove", k, FALSE)
          => \E h \in Handles : /\ handle'[h] = get(k)
                                /\ cells'[handle'[h]] = Stored(k)]_vars
==============================================================================
