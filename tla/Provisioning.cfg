\* Requests, answers of the auth service and timeouts for one device.
SPECIFICATION FairSpec
CONSTANTS
    Devices = {d1}
    PubKeys = {k1}
    MACs = {m1}
    None = none
    MaxCalls = 2
INVARIANTS
    RegisteredWasApproved
    AnsweredIsRegistered
    PendingIsUndecided

    
