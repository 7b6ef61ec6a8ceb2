\* Two clients that write and read their records over a restart.
SPECIFICATION StateFairSpec
CONSTANTS
    Threads = {rpc}
    Rpc = rpc
    BucketIDs = {s1, s2}
    Keys = {k1, k2}
    EmptyKey = k0
    Values = {v1, v2}
    Garbage = garbage
    None = None
    MaxRestarts = 1

    
PROPERTY StopEnds
