\* All histories of up to four entries, iterated in any way.
SPECIFICATION IterSpec
CONSTANTS
    Names = {a, b}
    NoFilter = any
    MaxEntries = 4
    BatchLimit = 2
SYMMETRY Symmetry
INVARIANTS
    MissesNone
    EndMeansAll
