SPECIFICATION MCSpec
CONSTANTS
    Tasks = {t1}
    Sessions = {s1, s2}
    Clients = {}
    MaxParallel = 1
    MAX_ATTEMPTS = 2
    MAX_BOUNCES = 1
    QUOTA_RETRIES = 1
    MaxChats = 0
    None = None
    Opening = {"open"}
    FirstModes = {"autonomo"}
    Drags = {}
    Choices = {}
    Switches = {"off"}
    ModeChanges = {}
    Touches = 1
    Crashes = 0
    AgentReviews = 0
PROPERTY StopStops
CHECK_DEADLOCK FALSE
