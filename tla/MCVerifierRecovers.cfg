SPECIFICATION FairSpec
CONSTANTS
    Client = {c1, c2}
    Nonce = {n1}
    NoNonce = NoNonce
    TTL = 0
    RetryInterval = 1
    Window = 1
    TamperModulus = 2
    MaxTime = 3
PROPERTIES
    VerifierRecovers
