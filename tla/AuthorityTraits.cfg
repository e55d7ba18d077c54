SPECIFICATION AuthoritySpec
CONSTANTS
    e1 = e1
    e2 = e2
    e3 = e3
    health = health
    tag = tag
    owns = owns
    link = link
    low = low
    high = high
    plain = plain
    filtered = filtered
    far = far
    distance = distance
    NoValue = NoValue
    Absent = Absent
    NoTraits = NoTraits
    NoProfile = NoProfile
    NoIdentity = NoIdentity
    NoPlacement = NoPlacement
    NoPool = NoPool
    Entities = {e1, e2, e3}
    MaxLives = 1
    LocalIds = {health}
    PayloadIds = {health}
    SecondaryIds = {}
    PairIds = {}
    Profiles = {filtered}
    Values = {low}
    Revisions <- TwoRevisions
    MaxShards = 4
    NetworkIds <- MCNetworkIds
    Keys <- MCKeys
    ReferenceKeys <- MCReferenceKeys
    TargetOf <- MCTargetOf
    PairTarget <- MCPairTarget
    SelectionOf <- MCSelectionOf
    TraitsOf <- MCTraitsOf
INVARIANT RemovalsPublished
