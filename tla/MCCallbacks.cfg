SPECIFICATION SpecC
CONSTANTS
    Thread = {t1, t2}
    Char <- MCChar
    Name <- MCName
    CurrentControlSet <- Link
    ControlSet <- Target
    gProtectedPrefixes <- Prefixes
    gProtectedSuffixes <- Suffixes
    gBlocked <- Blocked
    ProtectedImages <- Images
    Wildcards <- Patterns
    Requests <- MCRequests
    NoRequest = NoRequest
    Window = 3
    Grace = 2
    Stall = 1
    MaxTime = 5
    TamperModulus = 2
SYMMETRY Symmetry
INVARIANTS
    TypeOKC
    VerdictFresh
    GuardedNeedsWindow
    OnlyGuardedDenied
    StatusCoherent
