SPECIFICATION FairSpec
CONSTANTS
    MaxDrifts = 1
    MaxScripts = 1
    MaxFaults = 1
INVARIANTS
    TypeOK
    OnePassHeals
PROPERTIES
    PresentStaysWhole
    FilesFollowBackups
    PolicyReturns
