SPECIFICATION AuthoritySpec
CONSTANTS
    e1 = e1
    e2 = e2
    e3 = e3
    health = health
    tag = tag
    owns = owns
    link = link
    low = low
    high = high
    plain = plain
    filtered = filtered
    far = far
    distance = distance
    NoValue = NoValue
    Absent = Absent
    NoTraits = NoTraits
    NoProfile = NoProfile
    NoIdentity = NoIdentity
    NoPlacement = NoPlacement
    NoPool = NoPool
    Entities = {e1}
    MaxLives = 2
    LocalIds = {health, owns}
    PayloadIds = {health, owns}
    SecondaryIds = {owns}
    PairIds = {}
    Profiles = {plain}
    Values = {low, high}
    Revisions <- ThreeRevisions
    MaxShards = 3
    NetworkIds <- MCNetworkIds
    Keys <- MCKeys
    ReferenceKeys <- MCReferenceKeys
    TargetOf <- MCTargetOf
    PairTarget <- MCPairTarget
    SelectionOf <- MCSelectionOf
    TraitsOf <- MCTraitsOf
SYMMETRY Symmetry
INVARIANT CleanMeansPublished
