SPECIFICATION ReadSpec
CONSTANTS
    NumAdapters = 2
    Length <- MCLength
    Offsets = {0, 1}
    Sizes = {1, 2}
    MaxRanges = 2
    Threads = {t1, t2}
SYMMETRY MCSymmetry
INVARIANTS
    ReadTypeOK
    ReadExact
PROPERTIES
    HitsRepeat
