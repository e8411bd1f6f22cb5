SPECIFICATION DiscardSpec
CONSTANTS
    Projects = {p, q}
    Slots = {s1, s2}
    MaxCalls = 2
    MaxAsks = 1
    None = None
    Source = source
    Target = target
    MaxEdits = 1
    MaxDiscards = 2
    MaxDiscarded = 2
    MaxStash = 1
    Habits = {"recreate"}
INVARIANT
    DiscardsAreRecoverable
CHECK_DEADLOCK FALSE
