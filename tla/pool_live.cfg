SPECIFICATION FairPoolSpec
CONSTANTS
    NumAdapters = 2
    MaxRetries = 2
    Threads = {t1, t2}
PROPERTY PrimaryRecovery
