SPECIFICATION MetaSpec
CONSTANTS
    NumAdapters = 2
    Meta = m
    Threads = {m, r1, r2}
    Length <- MCLengths
    Honours = {1}
    Tells = {1}
    Lossy = {2}
    Sizes = {2, 3}
    Word = 16
SYMMETRY MCSym
INVARIANTS
    MetaTypeOK
    GotInPlace
    WholeFile
    AskedWithinSource
    KernelSizeReal
