SPECIFICATION FairStreamSpec
CONSTANTS
    Nodes = {a, b}
    First = {a}
    Readers = {r1, r2}
    NoNode = NoNode
    MaxRoom = 2
    MaxFh = 3
CHECK_DEADLOCK FALSE
INVARIANTS
    StreamTypeOK
    NothingMissed
    HandlesOwned
    RepeatsNeedSkips
PROPERTIES
    ListingEnds
