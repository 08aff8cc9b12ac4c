----------------------------- MODULE MCCircuit -----------------------------
(* Circuits of up to three variables over the integers modulo 41, which have  *)
(* a root of unity of order 8 (27) and as many cosets as there are generators.*)
EXTENDS Circuit

P == 41
MCadd(x, y) == (x + y) % P
MCsub(x, y) == (x - y) % P
MCmul(x, y) == (x * y) % P
\* The powers of 6, a generator of the multiplicative group.
Powers == <<1, 6, 36, 11, 25, 27, 39, 29, 10, 19, 32, 28, 4, 24, 21, 3, 18, 26, 33, 34,
            40, 35, 5, 30, 16, 14, 2, 12, 31, 22, 9, 13, 37, 17, 20, 38, 23, 15, 8, 7>>
PowerOf(k) == Powers[1 + (k % 40)]
Logarithm == [x \in 1 .. P - 1 |-> CHOOSE k \in 0 .. 39 : PowerOf(k) = x]
MCpow(x, k) == IF k = 0 THEN 1 ELSE IF x = 0 THEN 0 ELSE PowerOf(Logarithm[x] * k)
MCinverse(x) == PowerOf(40 - Logarithm[x])
MCHasRoot(order) == order \in {1, 2, 4, 8}
MCget_root_of_unity(order) == PowerOf(40 \div order)

MCcoset_generator(i) == PowerOf(i + 1)

MCGates == {<<0, 1, 2>>, <<2, 0, 0>>}
MCChallenges == {<<3, 11>>, <<40, 7>>}
Query(alpha, z, num_roots, idpolys, wrong_by) ==
    [alpha |-> alpha, z |-> z, num_roots |-> num_roots, idpolys |-> idpolys,
     wrong_by |-> wrong_by]
\* At the point 1 the verifier divides by zero.
MCQueries == {Query(6, 10, 4, FALSE, 0), Query(9, 31, 3, TRUE, 0), Query(2, 33, 0, TRUE, 5),
              Query(6, 1, 4, FALSE, 0)}
=============================================================================
