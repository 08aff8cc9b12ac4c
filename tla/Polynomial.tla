----------------------------- MODULE Polynomial -----------------------------
(***************************************************************************)
(* polynomials/polynomial.rs: a vector of coefficients, and the size the   *)
(* polynomial was made with, which is what size() reports.                 *)
(***************************************************************************)
EXTENDS Integers

CONSTANT Zero \* the additive identity of the field

IsPolynomial(p) == DOMAIN p = {"size", "coefficients"}

new_polynomial(size) ==
    [size |-> size, coefficients |-> [i \in 0 .. size - 1 |-> Zero]]

\* resize changes the vector and leaves the size as it was.
resize(p, new_len) ==
    [p EXCEPT !.coefficients =
        [i \in 0 .. new_len - 1 |-> IF i \in DOMAIN @ THEN @[i] ELSE Zero]]
==============================================================================
