SPECIFICATION TurnSpec
CONSTANTS
    None = None
    Projects = {p}
    Slots = {s1}
    MaxCalls = 1
    MaxAsks = 1
    MaxGeneration = 2
    Threads = {c}
    TurnIds = {u1, u2}
INVARIANT
    ApprovalsAreRouted
CHECK_DEADLOCK FALSE
