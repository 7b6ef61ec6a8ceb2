\* Goroutines that read, write batches and hold cursors while the store is closed.
SPECIFICATION FairSpec
CONSTANTS
    Threads = {t1, t2}
    BucketIDs = {b1}
    Keys = {k1, k2}
    EmptyKey = k0
    Values = {v1}
    Garbage = garbage
    None = None
PROPERTIES
    BatchIsAtomic
    CloseEnds
