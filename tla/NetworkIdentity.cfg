SPECIFICATION Spec
CONSTANTS
    Entities = {e1, e2, e3}
    GenerationCount = 4
    MaxIssues = 8
    MaxSessions = 1
SYMMETRY Symmetry
INVARIANTS
    TypeOK
    SlotsAccounted
    MapMirrorsComponents
    LiveSlotsUnique
PROPERTY NeverReissued
CHECK_DEADLOCK FALSE
