---------------------------- MODULE MCArithmetic ----------------------------
(* Callers of the arithmetic over the toy field, with two threads.            *)
EXTENDS ArithmeticCalls, ToyField

MCfield_pow(x, k) == IF k = 0 THEN 1 ELSE Powers[x, 1 + ((k - 1) % 16)]
MCHasRoot(order) == order \in {1, 2, 4, 8, 16}
MCget_root_of_unity(order) == Powers[Generator, 16 \div order]

\* Transforms are linear: arrays with one element each, and one with them all;
\* and one that a reversal leaves as it is.
MCInputs(n) ==
    {[i \in 0 .. n - 1 |-> IF i = j THEN 6 ELSE 0] : j \in 0 .. n - 1}
    \cup {[i \in 0 .. n - 1 |-> (3 * i * i + 2) % Modulus], [i \in 0 .. n - 1 |-> 4]}

MCExtensions == {<<2, 2>>, <<2, 4>>, <<2, 8>>, <<4, 4>>, <<4, 8>>, <<8, 8>>}
MCPolynomials ==
    {[size |-> n, coefficients |-> [i \in 0 .. n - 1 |-> 2 * i + n]] : n \in 1 .. 3}
==============================================================================
