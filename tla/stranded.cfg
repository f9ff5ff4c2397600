CONSTANTS
    t1 = t1
    c1 = c1
    Tasks = {t1}
    AgentTasks = {t1}
    Clients = {c1}
    Workers = 1
    MaxAttempts = 2
    SessionThreshold = 90
    WeeklyThreshold = 90
    MaxSnapshotAge = 15
    MaxRuns = 1
    MaxComments = 0
    MaxRequests = 0
    MaxContinue = 0
    Faults = {}
    Gates = {"ready"}
    Requests = {"create"}
    Signals = {"crash"}
    Lives = 2
    LongRuns = FALSE
SPECIFICATION Spec
CHECK_DEADLOCK FALSE
INVARIANT RunningIsRecoverable
