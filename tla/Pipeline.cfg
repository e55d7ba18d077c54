SPECIFICATION Spec
CONSTANTS
    SystemCount = 3
    Kinds <- MCKinds
    SystemData <- MCSystemData
    Volatile = {1, 2, 3}
INVARIANTS
    ScheduleSound
    MergesHaveReasons
    RunsOnce
    DueSystemsRun
PROPERTIES
    RunsProgress
