--------------------------- MODULE MCStoreClients ---------------------------
(* Instance of StoreClients for TLC: two polynomials that differ in length,   *)
(* and as many cells as two names, two handles and one new cell can need.     *)
EXTENDS StoreClients, Naturals

MCPolynomials == {[size |-> 1, coefficients |-> <<1>>],
                  [size |-> 2, coefficients |-> <<0, 1>>]}
MCRefs == 1 .. 5
==============================================================================
