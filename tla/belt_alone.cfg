SPECIFICATION FairSpec
CONSTANTS
    Tasks = {t1}
    Sessions = {s1, s2}
    Clients = {}
    MaxParallel = 1
    MAX_ATTEMPTS = 2
    MAX_BOUNCES = 1
    QUOTA_RETRIES = 1
    MaxChats = 0
    None = None
    Opening = {"open", "backlog"}
    FirstModes = {"autonomo"}
    Drags = {}
    Choices = {}
    Switches = {}
    ModeChanges = {}
    Touches = 0
    Crashes = 2
    AgentReviews = 0
INVARIANT ReturnsBounded
PROPERTY BoardSpec
PROPERTY CardsLeaveTheBelt
CHECK_DEADLOCK FALSE
