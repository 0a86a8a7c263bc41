SPECIFICATION Spec
CONSTANTS
    root = root
    d = d
    f = f
    Nodes <- MCNodes
    Root = root
    Children <- MCFlatChildren
    Threads = {t1, t2}
    NoNode = NoNode
INVARIANTS
    KnownIDResolves
