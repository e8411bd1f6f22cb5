SPECIFICATION Spec
CONSTANTS
    Tasks = {t1}
    Projects = {p1, p2}
    NextOccurrence <- MCNextOccurrence
    Recurring = {t1}
    Occurrences = {1}
    TaskInputs <- MCTaskInputs
    Backoff = 1
    MaxAttempts = 2
    MaxTime = 2
    MaxRuns = 1
INVARIANTS
    RetryOnlyFailed
