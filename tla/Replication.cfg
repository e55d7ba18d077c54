SPECIFICATION Spec
CONSTANTS
    e1 = e1
    e2 = e2
    health = health
    tag = tag
    low = low
    high = high
    plain = plain
    filtered = filtered
    distance = distance
    NoValue = NoValue
    Absent = Absent
    NoTraits = NoTraits
    NoProfile = NoProfile
    NoIdentity = NoIdentity
    NoPlacement = NoPlacement
    NoPool = NoPool
    Entities = {e1, e2}
    MaxLives = 1
    LocalIds = {}
    PayloadIds = {}
    SecondaryIds = {}
    PairIds = {}
    Keys = {}
    ReferenceKeys = {}
    TargetOf <- Empty
    PairTarget <- Empty
    Profiles = {plain}
    Values = {low}
    MaxShards = 4
    Revisions <- MCRevisions
    NetworkIds <- MCNetworkIds
    SelectionOf <- MCSelectionOf
    TraitsOf <- MCTraitsOf
SYMMETRY Symmetry
INVARIANTS
    ArrivedIsShown
    ShownIsReplicated
    PlacedShardsReplicate
    RemovalsPublished
