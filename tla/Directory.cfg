\* Iteration and GetTDs beside events, requests and the background loop, by a
\* client that may never release its cursors.  A cursor that was not used for a tick
\* has expired.
SPECIFICATION DirFairSpec
CONSTANTS
    Clients = {c1}
    MaxCursors = 2
    Lifespan = 0
    Period = 1
    NumThings = 2
    Limit = 2
    MaxLists = 1
    MaxWrites = 2
    None = None
INVARIANTS
    EachOnce
    NoLeak
    KeyMeansCursor
PROPERTIES
    EventIsStored
    AbandonedIsReleased
