SPECIFICATION LoaderSpec
CONSTANTS
    a = a
    b = b
    c = c
    empty = empty
    Names = {a, b, c}
    EmptyName = empty
    Main = main
    Threads = {main}
    Reqs <- MCReqs
    NodesFiles <- MCNodesFiles
    Broken = Broken
    Unreadable = Unreadable
    Verbosities = {0, 6}
    ConfigFiles <- MCConfigFiles
    MaxIno = 13
    MaxCalls = 4
    MaxDepth = 3
CHECK_DEADLOCK FALSE
INVARIANTS
    ReturnedIsThere
    PathLeadsBack
    EntriesLoaded
PROPERTIES
    KeepsPromise
