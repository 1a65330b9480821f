SPECIFICATION Spec
CONSTANTS
    Client = {c1, c2}
    Nonce = {n1, n2, n3, n4, n5}
    NoNonce = NoNonce
    TTL = 1
    RetryInterval = 2
    Window = 2
    TamperModulus = 2
    MaxTime = 4
SYMMETRY Symmetry
INVARIANTS
    TypeOK
    NonceSingleUse
    RefusalHasReason
    LoadersSpaced
PROPERTIES
    ImplementsChallenge
