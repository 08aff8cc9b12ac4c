CONSTANTS
    Names <- MCNames
    Refs <- MCRefs
    NoRef = NoRef
    Freed <- MCFreed
    Zero = 0
    round_manifests = round_manifests
    challenges_per_hash = 1
    FrWidth = 1
    G1Width = 2
    circuit_size = 4
    monomial_size = 4
    Implemented <- MCImplemented
    ifft <- MCifft
    coset_fft_with_generator_shift <- MCcoset_fft_with_generator_shift
    coset_fft_inplace <- MCcoset_fft_inplace
    pippenger_unsafe <- MCpippenger_unsafe
    field_element_to_usize <- MCfield_element_to_usize
    Wires <- MCWires
    Witnesses <- MCWitnesses
    Updates <- MCUpdates
    Cosets = {0, 3}
    Scalars = {4, 5}
    root_pow <- MCroot_pow
    NoHandle = NoHandle
    MaxStored = 3
    MaxQueued = 3
SPECIFICATION Spec
INVARIANTS
    TypeOK
    NoAliasing
    
PROPERTIES
    
    ProcessingEnds
