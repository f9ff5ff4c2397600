CONSTANTS
    t1 = t1
    t2 = t2
    c1 = c1
    Tasks = {t1, t2}
    AgentTasks = {t1, t2}
    Clients = {c1}
    Workers = 1
    MaxAttempts = 2
    SessionThreshold = 90
    WeeklyThreshold = 90
    MaxSnapshotAge = 15
    MaxRuns = 2
    MaxComments = 0
    MaxRequests = 0
    MaxContinue = 0
    Faults = {"session", "spawn"}
    Gates = {"ready", "session_exhausted"}
    Requests = {"create", "run_now"}
    Signals = {"shutdown"}
    Lives = 1
    LongRuns = TRUE
SPECIFICATION Spec
INVARIANTS WorkerCap OneClaude
SYMMETRY Symmetry
PROPERTIES ExitLosesNoScheduledRun ResumeNotRestart
CHECK_DEADLOCK FALSE
