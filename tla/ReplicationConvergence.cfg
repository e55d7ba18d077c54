SPECIFICATION FairSpec
CONSTANTS
    e1 = e1
    e2 = e2
    health = health
    tag = tag
    low = low
    high = high
    plain = plain
    filtered = filtered
    distance = distance
    NoValue = NoValue
    Absent = Absent
    NoTraits = NoTraits
    NoProfile = NoProfile
    NoIdentity = NoIdentity
    NoPlacement = NoPlacement
    NoPool = NoPool
    Entities = {e1}
    MaxLives = 1
    LocalIds = {health}
    PayloadIds = {health}
    SecondaryIds = {}
    PairIds = {}
    Keys = {health}
    ReferenceKeys = {}
    TargetOf <- Empty
    PairTarget <- Empty
    Profiles = {plain}
    Values = {low, high}
    MaxShards = 3
    Revisions <- MCRevisions
    NetworkIds <- MCNetworkIds
    SelectionOf <- MCSelectionOf
    TraitsOf <- MCTraitsOf
PROPERTIES Convergence
