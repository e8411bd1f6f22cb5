SPECIFICATION Spec
CONSTANTS
    Day = 6
    MaxOffset = 2
    Change = 6
    Start = 3
    End = 13
    Zones <- MCZones
    Rules <- MCRules
    NextWall <- MCNextWall
    WallTimes <- MCWallTimes
    Never = Never
    MaxQueued = 2
INVARIANT
    OccurrencesQueuedOnce
