SPECIFICATION FairSpec
CONSTANTS
    MaxFilters = 64
    MaxFaults = 3
    Flows <- MCFlows
INVARIANTS
    TypeOK
    AllOrNothing
    DefendersBehindFilter
    NetworkWhole
PROPERTIES
    DriverComesUp
