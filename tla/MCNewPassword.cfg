SPECIFICATION SpecP
CONSTANTS
    Tool = {p1}
    Credential = {k1, k2, k3}
    NoCred = NoCred
    Window = 2
    Grace = 2
    Stall = 0
    MaxTime = 4
INVARIANTS
    NewPasswordEffective
