------------------------------ MODULE Circuit ------------------------------
(***************************************************************************)
(* From a circuit to the verifier's check of its permutation: a composer   *)
(* (composer_base.rs) is filled, compiled to the permutation polynomials   *)
(* (permutation.rs), and a proof's evaluations go to the verifier's widget *)
(* (permutation_widget.rs).                                                *)
(*                                                                         *)
(* The source has no composer that compiles yet, and the prover's widget   *)
(* is todo!: the copy cycles and mappings are those that the comment of    *)
(* composer_base.rs works out by example (480-596).                        *)
(***************************************************************************)
EXTENDS Composer, PermutationWidget

CONSTANTS
    NUM_RESERVED_GATES,
    Values,        \* of variables
    Gates,         \* the variables of a gate's wires
    MaxVariables, MaxPublicInputs, MaxGates, \* bounds on a circuit
    Challenges,    \* pairs of beta and gamma
    Queries        \* the rest of a verification: see Verify

\* The two markers are no indices: u32::MAX - 1 and u32::MAX - 2.
ASSUME MarkersAssumption ==
    /\ MaxVariables \in Nat
    /\ {REAL_VARIABLE, FIRST_VARIABLE_IN_CLASS} \cap (0 .. MaxVariables - 1) = {}

VARIABLES
    phase,    \* "building", "panicked", "compiled", "proved" or "verified"
    classes,  \* the variables that were asserted to be equal, as a partition
    compiled, \* the domain, the polynomials of each column, the wires' values
    proof,    \* beta, gamma and the grand product
    verdict   \* the challenges and evaluations, and what the widget adds

vars == <<composerVars, phase, classes, compiled, proof, verdict>>

None == <<>>

Init ==
    /\ ComposerInit
    /\ phase = "building"
    /\ classes = {}
    /\ compiled = None
    /\ proof = None
    /\ verdict = None

Builds ==
    /\ phase = "building"
    /\ UNCHANGED <<compiled, proof, verdict>>
NextIndex == Cardinality(DOMAIN variables)

CallAddVariable(value) ==
    /\ Builds
    /\ NextIndex < MaxVariables
    /\ add_variable(value)
    /\ classes' = classes \cup {{NextIndex}}
    /\ UNCHANGED phase

CallAddPublicVariable(value) ==
    /\ Builds
    /\ NextIndex < MaxVariables
    /\ get_num_public_inputs < MaxPublicInputs
    /\ add_public_variable(value)
    /\ classes' = classes \cup {{NextIndex}}
    /\ UNCHANGED phase

CallSetPublicInput(index) ==
    /\ Builds
    /\ get_num_public_inputs < MaxPublicInputs
    /\ set_public_input(index)
    /\ phase' = IF does_not_exist(index) THEN "building" ELSE "panicked"
    /\ UNCHANGED classes

CallAssertEqual(a, b) ==
    /\ Builds
    /\ assert_equal(a, b)
    /\ LET merged == {class \in classes : a \in class \/ b \in class}
       IN  classes' = (classes \ merged) \cup {UNION merged}
    /\ UNCHANGED phase

CallCreateGate(indices) ==
    /\ Builds
    /\ Len(wires) < MaxGates
    /\ create_gate(indices)
    /\ UNCHANGED <<phase, classes>>

-----------------------------------------------------------------------------
(* The copy cycles, and the polynomials made of them.                        *)

Columns == 0 .. program_width - 1
\* A composer has a gate from the start, for the variable zero.
circuit_size == get_circuit_subgroup_size(
                    get_num_public_inputs + Len(wires) + NUM_RESERVED_GATES)
CircuitSizes == \* of circuits within the bounds
    {get_circuit_subgroup_size(public + gates + NUM_RESERVED_GATES) :
        public \in 0 .. MaxPublicInputs, gates \in 1 .. MaxGates}
Domains == [size \in CircuitSizes |-> new_domain(size)]

Node(row, column) == [row |-> row, column |-> column]

\* The first rows are the public inputs', whose first two wires are copies.
copy_nodes ==
    {Node(i - 1, column) : i \in DOMAIN public_inputs, column \in 0 .. 1}
    \cup {Node(get_num_public_inputs + j - 1, column) : j \in DOMAIN wires, column \in Columns}

VariableOf(node) ==
    IF node.row < get_num_public_inputs THEN public_inputs[node.row + 1]
    ELSE wires[node.row - get_num_public_inputs + 1][node.column + 1]

\* The wires with the same real variable, which are in the order of the rows.
wire_copy_cycle(real) ==
    {node \in copy_nodes : real_variable_index[VariableOf(node)] = real}
CycleOf(node) == wire_copy_cycle(real_variable_index[VariableOf(node)])

Before(node, other) ==
    \/ node.row < other.row
    \/ node.row = other.row /\ node.column < other.column
FirstOf(nodes) == CHOOSE node \in nodes : \A other \in nodes : other = node \/ Before(node, other)
LaterThan(node) == {other \in CycleOf(node) : Before(node, other)}
NextInCycle(node) == FirstOf(IF LaterThan(node) = {} THEN CycleOf(node) ELSE LaterThan(node))

Element(node) == SubgroupElement(node.row, node.column)
TagElement(node) ==
    [SubgroupElement(real_variable_tags[real_variable_index[VariableOf(node)]], node.column)
        EXCEPT !.is_tag = TRUE]

\* A wire maps to the next in its cycle, the last to the first or to a tag;
\* the first wire of a public input maps out of the permutation.
SigmaElement(node, with_tags) ==
    IF node \notin copy_nodes THEN Element(node)
    ELSE IF node.row < get_num_public_inputs /\ node.column = 0
         THEN [Element(node) EXCEPT !.is_public_input = TRUE]
    ELSE IF with_tags /\ LaterThan(node) = {} THEN TagElement(node)
    ELSE Element(NextInCycle(node))

IdElement(node, with_tags) ==
    IF with_tags /\ node \in copy_nodes /\ FirstOf(CycleOf(node)) = node
    THEN TagElement(node) ELSE Element(node)

Sigma(column, with_tags) ==
    [i \in 1 .. circuit_size |-> SigmaElement(Node(i - 1, column), with_tags)]
Id(column, with_tags) ==
    [i \in 1 .. circuit_size |-> IdElement(Node(i - 1, column), with_tags)]
Packed(permutation) ==
    [i \in DOMAIN permutation |->
        permutation[i].subgroup_index + permutation[i].column_index * 2^column_shift]

Plain(permutation) ==
    \A i \in DOMAIN permutation : ~ permutation[i].is_public_input /\ ~ permutation[i].is_tag
PermutationPolynomial(permutation) ==
    LET output == new_polynomial(circuit_size)
        small_domain == Domains[circuit_size]
    IN  IF Plain(permutation)
        THEN compute_permutation_lagrange_base_single(output, Packed(permutation), small_domain)
        ELSE compute_permutation_lagrange_base_single_helper(output, permutation, small_domain)

WireValue(node) ==
    IF node \in copy_nodes THEN get_variable(VariableOf(node)) ELSE Zero

CompilePanics(with_tags) ==
    \E column \in Columns : \E permutation \in {Sigma(column, with_tags), Id(column, with_tags)} :
        PermutationPanics(new_polynomial(circuit_size), permutation, Domains[circuit_size])

Compiled(with_tags) ==
    [size |-> circuit_size, with_tags |-> with_tags,
     sigma |-> [c \in Columns |-> PermutationPolynomial(Sigma(c, with_tags)).coefficients],
     id |-> [c \in Columns |-> PermutationPolynomial(Id(c, with_tags)).coefficients],
     w |-> [c \in Columns |-> [i \in 0 .. circuit_size - 1 |-> WireValue(Node(i, c))]]]

Compile(with_tags) ==
    LET panics == CompilePanics(with_tags)
    IN  /\ phase = "building"
        /\ wires # <<>>
        /\ phase' = IF panics THEN "panicked" ELSE "compiled"
        /\ compiled' = IF panics THEN None ELSE Compiled(with_tags)
        /\ UNCHANGED <<composerVars, classes, proof, verdict>>

-----------------------------------------------------------------------------
(* A proof and its verification.                                             *)

\* The product over a row's columns, with identities or permutations.
RowProduct(circuit, polynomials, i, beta, gamma) ==
    field_product([c \in Columns |->
        PermutationTerm(circuit.w[c][i], polynomials[c][i], [beta |-> beta, gamma |-> gamma])])
Numerator(circuit, i, beta, gamma) == RowProduct(circuit, circuit.id, i, beta, gamma)
Denominator(circuit, i, beta, gamma) == RowProduct(circuit, circuit.sigma, i, beta, gamma)

GrandProduct(circuit, beta, gamma) ==
    LET ratios == [j \in 0 .. circuit.size - 1 |->
                      field_mul(Numerator(circuit, j, beta, gamma),
                                field_inverse(Denominator(circuit, j, beta, gamma)))]
    IN  [i \in 0 .. circuit.size |-> field_product([j \in 0 .. i - 1 |-> ratios[j]])]

\* A prover can make it unless a denominator is zero.
Prove(beta, gamma) ==
    /\ phase = "compiled"
    /\ \A i \in 0 .. compiled.size - 1 : Denominator(compiled, i, beta, gamma) # Zero
    /\ phase' = "proved"
    /\ proof' = [beta |-> beta, gamma |-> gamma, z |-> GrandProduct(compiled, beta, gamma)]
    /\ UNCHANGED <<composerVars, classes, compiled, verdict>>

\* L_i at x by its definition, i from 1.
L(size, i, x) ==
    LET root(j) == field_pow(Domains[size].root, j)
    IN  field_product([j \in (0 .. size - 1) \ {i - 1} |->
            field_mul(field_sub(x, root(j)), field_inverse(field_sub(root(i - 1), root(j))))])
\* The value at x of the polynomial with these values on the subgroup.
EvaluatedAt(size, values, x) ==
    field_sum([i \in 0 .. size - 1 |-> field_mul(values[i], L(size, i + 1, x))])

\* A query is alpha, a point, how many roots are cut out of the vanishing
\* polynomial, whether identities are read, and by how much z_perm is wrong.
KeyFor(circuit, query) ==
    [domain |-> Domains[circuit.size], z_pow_n |-> field_pow(query.z, circuit.size),
     num_roots |-> query.num_roots]
ChallengesFor(claim, query) ==
    [alpha |-> query.alpha, beta |-> claim.beta, gamma |-> claim.gamma, z |-> query.z]
ReadFor(circuit, claim, inputs, query) ==
    LET size == circuit.size
        Evaluations(polynomials) ==
            [i \in 1 .. program_width |-> EvaluatedAt(size, polynomials[i - 1], query.z)]
    IN  [w |-> Evaluations(circuit.w), sigma |-> Evaluations(circuit.sigma),
         id |-> Evaluations(circuit.id),
         z_perm |-> field_add(EvaluatedAt(size, claim.z, query.z), query.wrong_by),
         z_perm_omega |-> EvaluatedAt(size, claim.z, field_mul(query.z, Domains[size].root)),
         public_inputs |-> inputs]

Verify(query) ==
    LET key == KeyFor(compiled, query)
        c == ChallengesFor(proof, query)
        read == ReadFor(compiled, proof, get_public_inputs, query)
        panics == ContributionPanics(key, c, read)
    IN  /\ phase = "proved"
        /\ query.idpolys \/ ~ compiled.with_tags
        /\ phase' = IF panics THEN "panicked" ELSE "verified"
        /\ verdict' = IF panics THEN None
                      ELSE [query |-> query, read |-> read, c |-> c,
                            value |-> compute_quotient_evaluation_contribution(
                                          key, c, read, query.idpolys),
                            next_alpha |-> next_alpha(query.alpha)]
        /\ UNCHANGED <<composerVars, classes, compiled, proof>>

Next ==
    \/ \E value \in Values : CallAddVariable(value) \/ CallAddPublicVariable(value)
    \/ \E a \in DOMAIN variables : CallSetPublicInput(a)
    \/ \E a, b \in DOMAIN variables : CallAssertEqual(a, b)
    \/ \E indices \in Gates : CallCreateGate(indices)
    \/ \E with_tags \in BOOLEAN : Compile(with_tags)
    \/ \E challenges \in Challenges : Prove(challenges[1], challenges[2])
    \/ \E query \in Queries : Verify(query)

Spec == Init /\ [][Next]_vars

-----------------------------------------------------------------------------
(* Properties.                                                               *)

\* The lists of a composer are those of its variables, and no variable is
\* twice among its public inputs, after a refused set_public_input neither.
TypeOK ==
    LET indices == 0 .. NextIndex - 1
    IN  /\ DOMAIN variables = indices
        /\ real_variable_index \in [indices -> indices]
        /\ next_var_index \in [indices -> indices \cup {REAL_VARIABLE}]
        /\ prev_var_index \in [indices -> indices \cup {FIRST_VARIABLE_IN_CLASS}]
        /\ \A i, j \in indices : next_var_index[i] = j <=> prev_var_index[j] = i
        /\ ToSet(public_inputs) \subseteq indices
        /\ \A i, j \in DOMAIN public_inputs : public_inputs[i] = public_inputs[j] => i = j

\* However classes were linked, two variables have the same real variable if and
\* only if they were asserted to be equal, directly or not, and the real variable
\* is the one of them with no next (get_first_variable_in_class,
\* update_real_variable_indices).
ClassesAreThoseAsserted ==
    \A class \in classes : \E real \in class :
        /\ next_var_index[real] = REAL_VARIABLE
        /\ \A a \in DOMAIN variables : real_variable_index[a] = real <=> a \in class

\* The grand product of a circuit's permutation ends, from its last row on, at
\* the factor that the verifier computes of the public inputs alone
\* (compute_permutation_lagrange_base_single, compute_public_input_delta): with
\* public inputs of one class, with tags, and when asserted values differ.
DeltaRebalances ==
    phase = "proved" =>
        LET rows == get_num_public_inputs + Len(wires)
            root == Domains[compiled.size].root
        IN  ~ DeltaPanics(get_public_inputs, proof.beta, proof.gamma, root) =>
            \A i \in rows .. compiled.size :
                proof.z[i] = compute_public_input_delta(get_public_inputs, proof.beta,
                                                        proof.gamma, root)

\* The five parts, put together over two functions' worth of sign and order, are
\* the identity that the comment at permutation_widget.rs:100 gives, whatever
\* was claimed: with the real factor of the public inputs, and L_1 and L_{n-k}
\* as they are defined.
VerifierComputesTheIdentity ==
    phase = "verified" =>
        LET c == verdict.c
            read == verdict.read
            size == compiled.size
            Product(s) == field_product([i \in 1 .. program_width |->
                                            PermutationTerm(read.w[i], s[i], c)])
            copies == field_sub(field_mul(Product(read.id), read.z_perm),
                                field_mul(Product(read.sigma), read.z_perm_omega))
            end == field_mul(field_sub(read.z_perm_omega, proof.z[size]),
                             L(size, size - verdict.query.num_roots, c.z))
            start == field_mul(field_sub(read.z_perm, One), L(size, 1, c.z))
        IN  /\ verdict.value =
                   field_mul(c.alpha, field_add(copies, field_mul(c.alpha,
                       field_add(end, field_mul(c.alpha, start)))))
            /\ verdict.next_alpha = append_scalar_multiplication_inputs(c.alpha, c.alpha)
=============================================================================
