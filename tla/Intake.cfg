SPECIFICATION FairSpec
CONSTANTS
    t1 = t1
    t2 = t2
    Threads = {t1, t2}
    Nobody = Nobody
    Undecided = {1}
    MaxRecords = 3
    BatchSize = 2
    BufferSize = 2
    Concurrency = 2
    MaxPosts = 2
    MaxEvents = 2
    PoolSize = 2
    MaxCrashes = 1
INVARIANTS TypeOK EveryRecordAccounted ExactlyOnceUnlessUnheard
CHECK_DEADLOCK FALSE
PROPERTIES ImplementsSampleLog EverythingEnds
