SPECIFICATION MCSpec
CONSTANTS
    Jobs = {j1}
    Subs = {s1}
    None = None
    LastName = 4
    Attempts = 2
    Elsewhere = Elsewhere
    Asked = {1, 2}
    Adds = 1
    Renames = 0
    Lines = 2
    Crashes = 1
INVARIANT NothingLostToTheWindow
INVARIANT StoryInOrder
PROPERTY RunsEnd
PROPERTY StreamsEnd
CHECK_DEADLOCK FALSE
