SPECIFICATION FairSpec
CONSTANTS
    root = root
    d = d
    f = f
    Nodes <- MCNodes
    Root = root
    Children <- MCChainChildren
    Threads = {t1, t2}
    NoNode = NoNode
INVARIANTS
    TypeOK
    RegistrySound
    IDsUnique
    LostOnlyByForget
PROPERTIES
    IDsKeepMeaning
    AssignedGetsRegistered
