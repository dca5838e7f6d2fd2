SPECIFICATION FairSpec
CONSTANTS
    Items = {w1, w2, w3}
    LimitActive = 2
    MaxJobs = 3
INVARIANTS QueueTypeOK NoUseAfterFree FlushFinishesAll
PROPERTIES ServesInOrder EveryItemFreed
