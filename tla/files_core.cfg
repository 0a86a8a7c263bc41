SPECIFICATION FilesSpec
CONSTANTS
    root = root
    f = f
    Nodes <- MCNodes
    Root = root
    Children <- MCChildren
    Threads = {t1, t2}
    NoNode = NoNode
    Workers = {w1, w2}
    MaxFh = 3
SYMMETRY MCSymmetry
INVARIANTS
    FilesTypeOK
    HandlesMatch
    ReadsOwnFile
