SPECIFICATION MCSpec
CONSTANTS
    Tasks = {t1}
    Sessions = {s1, s2}
    Clients = {c1, c2}
    MaxParallel = 1
    MAX_ATTEMPTS = 2
    MAX_BOUNCES = 1
    QUOTA_RETRIES = 1
    MaxChats = 1
    None = None
    Opening = {"open"}
    FirstModes = {"assistido"}
    Drags = {"review", "backlog"}
    Choices = {"in_progress"}
    Switches = {"inherit"}
    ModeChanges = {}
    Touches = 4
    Crashes = 1
    AgentReviews = 1
INVARIANT ParkedForItsStage
CHECK_DEADLOCK FALSE
