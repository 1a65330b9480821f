SPECIFICATION FairSpec
CONSTANTS
    Ifaces = 2
    MaxDrifts = 2
    MaxFaults = 2
INVARIANTS
    TypeOK
    
PROPERTIES
    ShutdownCompletes
    HeartbeatsContinue
    
    InterfacesFiltered
CHECK_DEADLOCK FALSE
