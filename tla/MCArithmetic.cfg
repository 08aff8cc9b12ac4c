CONSTANTS
    Zero = 0
    One = 1
    field_add <- Plus
    field_sub <- Minus
    field_mul <- Times
    field_inverse <- InverseOf
    field_pow <- MCfield_pow
    HasRoot <- MCHasRoot
    get_root_of_unity <- MCget_root_of_unity
    generator = 3
    available_parallelism = 3
    Sizes = {2, 4, 8, 16}
    Inputs <- MCInputs
    Scalars = {0, 1, 2, 5}
    InterpolatedValues = {1, 3}
    Extensions <- MCExtensions
    Polynomials <- MCPolynomials
    MaxOperators = 4
SPECIFICATION Spec
INVARIANTS
    TypeOK
    RoundsTransformBlocks
    SerialFftTransformsSymmetric
    PartialFftSplits
    EvaluateIsTheValue
    LagrangeRightAtMultiples
    ProductIsOfItsFactors
    InterpolatesOnePoint
    OperatorsAgree
