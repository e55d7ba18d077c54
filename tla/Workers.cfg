SPECIFICATION FairSpec
CONSTANT MaxThreads = 5
INVARIANTS
    TypeOK
    MergeAlone
    SyncAssertions
PROPERTIES
    ImplementsForkJoin
    FramesEnd
