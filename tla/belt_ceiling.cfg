SPECIFICATION MCSpec
CONSTANTS
    Tasks = {t1, t2}
    Sessions = {s1, s2}
    Clients = {}
    MaxParallel = 1
    MAX_ATTEMPTS = 2
    MAX_BOUNCES = 0
    QUOTA_RETRIES = 0
    MaxChats = 0
    None = None
    Opening = {"open"}
    FirstModes = {"autonomo"}
    Drags = {}
    Choices = {}
    Switches = {}
    ModeChanges = {}
    Touches = 0
    Crashes = 0
    AgentReviews = 0
INVARIANT CeilingHolds
CHECK_DEADLOCK FALSE
