SPECIFICATION FairSpec
CONSTANTS
    Tasks = {t1, t2}
    Projects = {p1}
    NextOccurrence <- MCNextOccurrence
    Recurring = {t1}
    Occurrences = {1}
    TaskInputs <- MCTaskInputs
    Backoff = 1
    MaxAttempts = 2
    MaxTime = 3
    MaxRuns = 1
INVARIANTS
    OneRunAtATime
    RetriesAreJustified
PROPERTIES
    FinishKeepsEdits
    DueRunLeavesQueue
