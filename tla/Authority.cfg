SPECIFICATION AuthoritySpec
CONSTANTS
    e1 = e1
    e2 = e2
    e3 = e3
    health = health
    tag = tag
    owns = owns
    link = link
    low = low
    high = high
    plain = plain
    filtered = filtered
    far = far
    distance = distance
    NoValue = NoValue
    Absent = Absent
    NoTraits = NoTraits
    NoProfile = NoProfile
    NoIdentity = NoIdentity
    NoPlacement = NoPlacement
    NoPool = NoPool
    Entities = {e1, e2}
    MaxLives = 1
    LocalIds = {link}
    PayloadIds = {}
    SecondaryIds = {}
    PairIds = {link}
    Profiles = {filtered, far}
    Values = {low}
    Revisions <- TwoRevisions
    MaxShards = 3
    NetworkIds <- MCNetworkIds
    Keys <- MCKeys
    ReferenceKeys <- MCReferenceKeys
    TargetOf <- MCTargetOf
    PairTarget <- MCPairTarget
    SelectionOf <- MCSelectionOf
    TraitsOf <- MCTraitsOf
INVARIANTS
    PlacementSound
    SupersededCopiesOlder
    LayoutsPublished
    CleanMeansPlaced
