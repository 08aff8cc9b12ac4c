CONSTANTS
    round_manifests <- MCround_manifests
    challenges_per_hash = 2
    FrWidth = 2
    G1Width = 4
    Kind <- MCKind
    Values <- MCValues
    NoMock = NoMock
    MaxReplacements = 1
SPECIFICATION Spec
CHECK_DEADLOCK FALSE
INVARIANTS
    TypeOK
    ChallengesBindElements
    ProofReloads
    VerifierFollowsProver
    MockReadiesChallenge
