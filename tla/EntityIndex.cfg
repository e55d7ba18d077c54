SPECIFICATION Spec
CONSTANTS
    MaxId = 3
    GenCount = 3
    Ranges <- MCRanges
    MaxBulk = 2
    OwnIdsOnly = TRUE
INVARIANTS
    IndexSound
    IdsInRange
    DeadAreRecyclable
PROPERTY ImplementsEntities
