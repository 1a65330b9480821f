SPECIFICATION Spec
CONSTANTS
    MaxDrifts = 0
    MaxScripts = 1
    MaxFaults = 0
INVARIANTS
    UninstallRemovesPolicy
