SPECIFICATION SpecP
CONSTANTS
    Tool = {p1, p2}
    Credential = {k1, k2, k3, k4, k5}
    NoCred = NoCred
    Window = 3
    Grace = 2
    Stall = 1
    MaxTime = 7
SYMMETRY Symmetry
INVARIANTS
    TypeOKP
    LeasePromise
    RemainingBounded
    RegistryWhole
    RefusedOnlyAfterChange
PROPERTIES
    DenialBetweenWritesIsLate
