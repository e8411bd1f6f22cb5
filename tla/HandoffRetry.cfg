SPECIFICATION Spec
CONSTANTS
    Locations = {local, tree}
    Edits = {e1}
    UserStash = {}
    Retries = {r1}
    Habits = {"retry"}
    None = None
    MaxHandoffs = 1
INVARIANT
    NothingLost
