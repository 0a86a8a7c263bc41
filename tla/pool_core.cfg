SPECIFICATION PoolSpec
CONSTANTS
    NumAdapters = 2
    MaxRetries = 2
    Threads = {t1, t2}
SYMMETRY ThreadSymmetry
INVARIANT PoolTypeOK
INVARIANT OkHasServer
INVARIANT ListOrdered
PROPERTY KeepsFailover
