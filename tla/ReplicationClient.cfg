SPECIFICATION FairSpec
CONSTANTS
    source = source
    target = target
    health = health
    tag = tag
    child = child
    low = low
    high = high
    NoValue = NoValue
    Absent = Absent
    NetworkIds <- MCNetworkIds
    Keys <- MCKeys
    ReferenceKeys <- MCReferenceKeys
    TargetOf <- MCTargetOf
    Values <- MCValues
    Revisions <- MCRevisions
    Published <- MCPublished
INVARIANTS
    TypeOK
    PendingKept
    MapMatchesWorld
    AppliedValuesCurrent
PROPERTIES
    NewestRecordWins
    DeliveriesDecided
    WaitingSnapshotsShown
