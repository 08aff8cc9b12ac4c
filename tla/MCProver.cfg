CONSTANTS
    Names <- MCNames
    Refs <- MCRefs
    NoRef = NoRef
    Freed <- MCFreed
    Zero = 0
    round_manifests <- MCround_manifests
    challenges_per_hash = 1
    FrWidth = 1
    G1Width = 2
    circuit_size = 8
    monomial_size = 9
    Implemented <- MCImplemented
    ifft <- MCifft
    coset_fft_with_generator_shift <- MCcoset_fft_with_generator_shift
    coset_fft_inplace <- MCcoset_fft_inplace
    pippenger_unsafe <- MCpippenger_unsafe
    field_element_to_usize <- MCfield_element_to_usize
    root_pow <- MCroot_pow
    program_width = 3
    num_public_inputs = 4
    quotient_polynomial_parts <- MCParts
    witness <- MCwitness
    WireDraws <- MCWireDraws
    QuotientDraws <- MCQuotientDraws
    Numerators <- MCNumerators
    WidgetRounds <- MCWidgetRounds
    OpeningElements <- MCOpeningElements
    transform_slices <- MCtransform_slices
    lagrange_1 <- MClagrange_1
    field_add <- Plus
    field_sub <- Minus
    MaxProvers = 2
SPECIFICATION Spec
INVARIANTS
    TypeOK
    CommittedWiresAreBlinded
    PublicInputsAreTheWitness
    QuotientCommitmentsAreComplete
    NothingQueuedIsDropped
    LastChallengeBindsTheProof
PROPERTIES
    FirstProofKeepsQuotient
