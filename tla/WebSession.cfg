CONSTANTS
    Reqs = {r1, r2}
    Tabs = {t1}
    MaxConns = 2
    MaxInputs = 1
    MaxSends = 2

SPECIFICATION Spec

SYMMETRY Symmetry

INVARIANTS
    CloseNeverPanics
    
    

CHECK_DEADLOCK FALSE
