SPECIFICATION Spec
CONSTANTS
    Locations = {local, tree}
    Edits = {e1, e2, e3}
    UserStash = {e3}
    Retries = {r1}
    Habits = {"edit", "commit"}
    None = None
    MaxHandoffs = 2
INVARIANTS
    NothingLost
    NothingHidden
PROPERTY
    MovesAsOne
