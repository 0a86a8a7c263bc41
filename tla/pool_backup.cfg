SPECIFICATION FairPoolSpec
CONSTANTS
    NumAdapters = 2
    MaxRetries = 3
    Threads = {t1}
PROPERTY BackupRecovery
