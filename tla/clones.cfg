SPECIFICATION MCSpec
CONSTANTS
    Jobs = {j1, j2}
    Subs = {}
    None = None
    LastName = 5
    Attempts = 2
    Elsewhere = Elsewhere
    Asked = {1, 2}
    Adds = 2
    Renames = 1
    Lines = 0
    Crashes = 1
INVARIANT TypeOK
INVARIANT NothingLeftBehind
INVARIANT TempsAreOwned
INVARIANT CancelledIsNotRegistered
INVARIANT RegisteredIsThere
CHECK_DEADLOCK FALSE
