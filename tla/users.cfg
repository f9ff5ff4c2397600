CONSTANTS
    t1 = t1
    c1 = c1
    Tasks = {t1}
    AgentTasks = {}
    Clients = {c1}
    Workers = 1
    MaxAttempts = 1
    SessionThreshold = 90
    WeeklyThreshold = 90
    MaxSnapshotAge = 15
    MaxRuns = 2
    MaxComments = 1
    MaxRequests = 0
    MaxContinue = 0
    Faults = {"token"}
    Gates = {"ready"}
    Requests = {"edit", "pause", "resume", "create", "delete", "set", "comment", "cancel"}
    Signals = {}
    Lives = 1
    LongRuns = TRUE
SPECIFICATION Spec
INVARIANTS NothingStranded OneClaude
CHECK_DEADLOCK FALSE
