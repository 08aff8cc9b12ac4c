---------------------------- MODULE PolynomialMap ----------------------------
(***************************************************************************)
(* What a polynomial store promises its callers: a map from names to       *)
(* polynomials in which one call, or one write through a reference the     *)
(* store gave out, changes the polynomial of at most one name.             *)
(***************************************************************************)

CONSTANTS
    Names,       \* the string IDs of polynomials
    Polynomials, \* the polynomials a name can hold
    Absent       \* what a name that holds nothing maps to

VARIABLE contents

Init == contents = [k \in Names |-> Absent]

\* A polynomial is stored under a name, or the stored one is updated in place.
Assign(k, p) == contents' = [contents EXCEPT ![k] = p]

\* A name is erased.
Erase(k) ==
    /\ contents[k] # Absent
    /\ contents' = [contents EXCEPT ![k] = Absent]

Next ==
    \E k \in Names :
        \/ \E p \in Polynomials : Assign(k, p)
        \/ Erase(k)

Spec == Init /\ [][Next]_contents
==============================================================================
