CONSTANTS
    t1 = t1
    c1 = c1
    Tasks = {t1}
    AgentTasks = {t1}
    Clients = {c1}
    Workers = 1
    MaxAttempts = 2
    SessionThreshold = 90
    WeeklyThreshold = 90
    MaxSnapshotAge = 15
    MaxRuns = 1
    MaxComments = 1
    MaxRequests = 1
    MaxContinue = 0
    Faults = {}
    Gates = {"ready"}
    Requests = {"create", "respond"}
    Signals = {}
    Lives = 1
    LongRuns = TRUE
SPECIFICATION Spec
CHECK_DEADLOCK FALSE
INVARIANT ParkedCanWake
