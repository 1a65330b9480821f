SPECIFICATION Spec
CONSTANTS
    Thread = {t1, t2, t3}
    Window = 5
    Grace = 2
    Stall = 2
    MaxTime = 9
SYMMETRY Symmetry
INVARIANTS
    TypeOK
    FlagMatchesExpiry
    LeaseHonoured
    ExpiryJustified
PROPERTIES
    SiblingsAgree
    ExtensionIsPrompt
    ImplementsLease
