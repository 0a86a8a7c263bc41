SPECIFICATION Spec
CONSTANTS
    a = a
    b = b
    c = c
    empty = empty
    Names = {a, b, c}
    EmptyName = empty
    Threads = {t1, t2, t3}
    Reqs <- MCMixedReqs
    MaxIno = 7
    MaxCalls = 3
    MaxDepth = 3
CHECK_DEADLOCK FALSE
SYMMETRY MCSymmetry
INVARIANTS
    TypeOK
    Forest
    ParentAgrees
    DeletedUnlinked
