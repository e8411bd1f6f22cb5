SPECIFICATION Spec
CONSTANTS
    Locations = {local, tree}
    Edits = {e1, e3}
    UserStash = {e3}
    Retries = {r1}
    Habits = {"commit"}
    None = None
    MaxHandoffs = 1
INVARIANT
    UserStashUntouched
