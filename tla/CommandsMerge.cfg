CONSTANTS
    Parent = Parent
    Child = Child
    Position = Position
    ChildOf = ChildOf
    Likes = Likes
    v1 = v1
    v2 = v2
    Ids = {Parent, Child}
    MaxGen = 1
    Components = {Position}
    Relations = {ChildOf}
    Targets = {Parent}
    DeletePolicy = {ChildOf}
    Values = {v1, v2}
    Default = Default
    MaxStages = 2
    MaxDepth = 2
    MaxCommands = 2
    MaxReactions = 1
    Reactions <- MCDeletions
    NoId = NoId
    Self = Self
    NoWorld = NoWorld
SPECIFICATION Spec

INVARIANTS
    BatchedEntityAlive
