SPECIFICATION MCSpec
CONSTANTS
    Tasks = {t1}
    Sessions = {s1, s2}
    Clients = {}
    MaxParallel = 1
    MAX_ATTEMPTS = 2
    MAX_BOUNCES = 1
    QUOTA_RETRIES = 1
    MaxChats = 0
    None = None
    Opening = {"open"}
    FirstModes = {"autonomo"}
    Drags = {"backlog", "review"}
    Choices = {"open", "done"}
    Switches = {"off", "inherit"}
    ModeChanges = {"assistido"}
    Touches = 1
    Crashes = 1
    AgentReviews = 1
INVARIANT TypeOK
INVARIANT HeardWithinAttempts
INVARIANT OneTurnAtATime
INVARIANT OneConversation
PROPERTY MachineKeepsToItsColumns
PROPERTY BlockedIsOff
SYMMETRY SessionSymmetry
CHECK_DEADLOCK FALSE
