CONSTANTS
    t1 = t1
    t2 = t2
    c1 = c1
    Tasks = {t1, t2}
    AgentTasks = {t1}
    Clients = {c1}
    Workers = 1
    MaxAttempts = 1
    SessionThreshold = 90
    WeeklyThreshold = 90
    MaxSnapshotAge = 15
    MaxRuns = 2
    MaxComments = 0
    MaxRequests = 0
    MaxContinue = 1
    Faults = {}
    Gates = {"ready"}
    Requests = {"create"}
    Signals = {"shutdown"}
    Lives = 1
    LongRuns = TRUE
SPECIFICATION FairSpec
PROPERTIES StopsEventually ComesToRest
CHECK_DEADLOCK FALSE
