SPECIFICATION FairLocksSpec
CONSTANTS
    p1 = p1
    p2 = p2
    p3 = p3
    Procs = {p1, p2, p3}
    NoProc = NoProc
    MaxNode = 3
    Above <- MCChain
    Mixes <- MCMixes
CHECK_DEADLOCK FALSE
INVARIANTS
    LocksTypeOK
    NoWaitCycle
    NothingLeftLocked
PROPERTIES
    HandlersReturn
