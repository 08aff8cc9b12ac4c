CONSTANTS
    Names = {w_1, w_2}
    Polynomials <- MCPolynomials
    Refs <- MCRefs
    Handles = {h1, h2}
    NoRef = NoRef
    Freed = Freed
SPECIFICATION Spec
INVARIANTS
    TypeOK
    NoAliasing
PROPERTIES
    ImplementsMap
    FailedRemoveKeepsPolynomialAlive
