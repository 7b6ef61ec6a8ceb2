\* Three runs of Setup, one of which may remove the old setup; two crashes.
SPECIFICATION FairSpec
CONSTANTS
    MaxRuns = 3
    MaxCrashes = 2
    Users = {"u"}
    UserRoles = {"", "device", "viewer", "operator", "manager", "admin", "unknown"}
    Services = {"directory"}
    MaxEvents = 4
INVARIANTS
    CaPairMatches
    
    
    OnlyDocumented
    
PROPERTIES
    CaIsStable
    
CHECK_DEADLOCK FALSE
