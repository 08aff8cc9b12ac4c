------------------------------ MODULE Composer ------------------------------
(***************************************************************************)
(* plonk/composer/composer_base.rs: the variables of a circuit, which of   *)
(* them must be equal, which are public, and the wires of its gates.       *)
(*                                                                         *)
(* Variables that must be equal form a class, a doubly linked list whose   *)
(* last member is the "real" variable: the value of each is that of the    *)
(* real one.  The source has the lists and what walks them; assert_equal,  *)
(* which links them, and the gates are those of the composers that are to  *)
(* use this base (its comments show what they make of it).                 *)
(***************************************************************************)
EXTENDS Integers, SequencesExt, TLC

CONSTANTS
    REAL_VARIABLE,           \* in next_var_index: the last of its class
    FIRST_VARIABLE_IN_CLASS, \* in prev_var_index: the first of its class
    DUMMY_TAG

VARIABLES
    variables,           \* index -> value
    next_var_index,
    prev_var_index,
    real_variable_index,
    real_variable_tags,
    public_inputs,       \* indices of variables, in order
    wires,               \* the variables of each gate's wires: w_l, w_r, w_o
    failed

composerVars == <<variables, next_var_index, prev_var_index, real_variable_index,
                  real_variable_tags, public_inputs, wires, failed>>
classVars == <<next_var_index, prev_var_index, real_variable_index, real_variable_tags>>

ComposerInit ==
    /\ variables = <<>>
    /\ next_var_index = <<>>
    /\ prev_var_index = <<>>
    /\ real_variable_index = <<>>
    /\ real_variable_tags = <<>>
    /\ public_inputs = <<>>
    /\ wires = <<>>
    /\ failed = FALSE

is_valid_variable(index) == index \in DOMAIN variables
assert_valid_variables(indices) == \A i \in DOMAIN indices : is_valid_variable(indices[i])

-----------------------------------------------------------------------------
(* Classes of variables.                                                     *)

get_variable(index) == variables[real_variable_index[index]]

\* What a walk from a variable along the links of a list visits.
Visited(links, index) ==
    {i \in DOMAIN links :
        \A S \in SUBSET DOMAIN links :
            index \in S /\ (\A j \in S : links[j] \in DOMAIN links => links[j] \in S)
            => i \in S}

get_first_variable_in_class(index) ==
    CHOOSE i \in Visited(prev_var_index, index) :
        prev_var_index[i] = FIRST_VARIABLE_IN_CLASS

\* Mutant of update_real_variable_indices: the loop ends at once.
UpdatesGiven(index, new_real_index) ==
    [real_variable_index EXCEPT ![index] = new_real_index]

\* From a variable to the end of its class.
update_real_variable_indices(index, new_real_index) ==
    [i \in DOMAIN real_variable_index |->
        IF i \in Visited(next_var_index, index) THEN new_real_index
        ELSE real_variable_index[i]]

\* A list, with a value at the next index.
Pushed(list, index, value) ==
    [i \in DOMAIN list \cup {index} |-> IF i = index THEN value ELSE list[i]]

\* A class of its own for each new variable.
AddVariable(in_value) ==
    LET index == Cardinality(DOMAIN variables)
    IN  /\ variables' = Pushed(variables, index, in_value)
        /\ next_var_index' = Pushed(next_var_index, index, REAL_VARIABLE)
        /\ prev_var_index' = Pushed(prev_var_index, index, FIRST_VARIABLE_IN_CLASS)
        /\ real_variable_index' = Pushed(real_variable_index, index, index)
        /\ real_variable_tags' = Pushed(real_variable_tags, index, DUMMY_TAG)
        /\ UNCHANGED <<wires, failed>>

add_variable(in_value) == AddVariable(in_value) /\ UNCHANGED public_inputs

\* The class of b is put before that of a, unless they are one already; that
\* the values differ is remembered and changes nothing.
assert_equal(a, b) ==
    LET a_real == real_variable_index[a]
        b_real == real_variable_index[b]
        a_first == get_first_variable_in_class(a)
    IN  /\ assert_valid_variables(<<a, b>>)
        /\ failed' = (failed \/ get_variable(a) # get_variable(b))
        /\ IF a_real = b_real THEN UNCHANGED classVars
           ELSE /\ real_variable_index' =
                       update_real_variable_indices(get_first_variable_in_class(b), a_real)
                /\ next_var_index' = [next_var_index EXCEPT ![b_real] = a_first]
                /\ prev_var_index' = [prev_var_index EXCEPT ![a_first] = b_real]
                /\ real_variable_tags' =
                       [real_variable_tags EXCEPT ![a_real] =
                           IF @ = DUMMY_TAG THEN real_variable_tags[b_real] ELSE @]
        /\ UNCHANGED <<variables, public_inputs, wires>>

-----------------------------------------------------------------------------
(* Public inputs and gates.                                                  *)

get_num_public_inputs == Len(public_inputs)
get_public_input(i) == get_variable(public_inputs[i])
get_public_inputs == [i \in 1 .. get_num_public_inputs |-> get_public_input(i)]

add_public_variable(in_value) ==
    /\ AddVariable(in_value)
    /\ public_inputs' = Append(public_inputs, Cardinality(DOMAIN variables))

does_not_exist(witness_index) == witness_index \notin ToSet(public_inputs)

\* Mutant of set_public_input: the index is pushed whether it is there or not.
PushedBeforeTest(witness_index) ==
    /\ public_inputs' = Append(public_inputs, witness_index)
    /\ UNCHANGED <<variables, classVars, wires, failed>>

\* A panic follows, after nothing was pushed, if the input was public already.
set_public_input(witness_index) ==
    /\ public_inputs' = IF does_not_exist(witness_index)
                        THEN Append(public_inputs, witness_index) ELSE public_inputs
    /\ UNCHANGED <<variables, classVars, wires, failed>>

create_gate(indices) ==
    /\ assert_valid_variables(indices)
    /\ wires' = Append(wires, indices)
    /\ UNCHANGED <<variables, classVars, public_inputs, failed>>

\* The next power of two.
get_circuit_subgroup_size(num_gates) ==
    2^(CHOOSE k \in 0 .. 31 : 2^k >= num_gates /\ (k = 0 \/ 2^(k - 1) < num_gates))
=============================================================================
