CONSTANTS
    Zero = 0
    One = 1
    field_add <- MCadd
    field_sub <- MCsub
    field_mul <- MCmul
    field_inverse <- MCinverse
    field_pow <- MCpow
    HasRoot <- MCHasRoot
    get_root_of_unity <- MCget_root_of_unity
    generator = 6
    available_parallelism = 1
    REAL_VARIABLE = REAL_VARIABLE
    FIRST_VARIABLE_IN_CLASS = FIRST_VARIABLE_IN_CLASS
    DUMMY_TAG = 0
    coset_generator <- MCcoset_generator
    external_coset_generator = 11
    tag_coset_generator = 25
    index_bits = 5
    column_shift = 6
    program_width = 3
    NUM_RESERVED_GATES = 4
    Values = {2, 7}
    Gates <- MCGates
    MaxVariables = 3
    MaxPublicInputs = 2
    MaxGates = 1
    Challenges <- MCChallenges
    Queries <- MCQueries
SPECIFICATION Spec
CHECK_DEADLOCK FALSE
INVARIANTS
    TypeOK
    ClassesAreThoseAsserted
    DeltaRebalances
    VerifierComputesTheIdentity
