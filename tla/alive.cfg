CONSTANTS
    Subjects = {"poll", "prober", "voice", "whisper", "captures"}
    Names = {a, b, c}
    Tries = {1, 2}
    Length = 3
    Workers = 2
    MaxAttempts = 2
    SessionThreshold = 90
    WeeklyThreshold = 80
    MaxSnapshotAge = 15
    Accounts = {0, 1}
    Sessions = 1
    Switches = 1
    InitialDelay = 1
    MaxDelay = 1
    RetryAfters = {0}
    Utils = {5}
    Items = {"main", "box"}
    Default = "main"
    Callers = {"poll", "run", "cli"}
    Home <- MCHome
    Rotating = {"box"}
    Refreshes = 1
    Starters = {"a", "b", "c"}
    Files = {1, 2, 3, 4}
    NoFile = 0
    Slots = {"a", "b"}
    Children = {1, 2, 3}
    NoChild = 0
    Toggles = 2
    Deaths = 1
    Rows = {"r"}
    Urls = {"u"}
    NoUrl = "none"
    Users = {"user"}
    Sweep = "sweep"
    Presses = 1
    Day = 2
    Edits = {1, 2, 3}
    Cleaners = {"a", "b"}
    Recovers = TRUE
    Faults = {"commit", "push"}
    Recordings = {1, 2}
    NoRecording = 0
    Limit = 2
    Stops = 1
    Installers = {1, 2, 3}
    NoInstall = 0
    Handlers = {1, 2}
    Keys = {"model"}
    Values = {1, 2}
    Logins = {"inherited", "boxed"}
    Inherited = "inherited"
    Boxed = {"boxed"}
    EnvLogin = "boxed"
    Trees = {"a", "b", "c"}
    Recorded = {1}
    NoCapture = 0
    Finishers = {"f"}
    Windows = {0, 1}
    Oldest = 2
SPECIFICATION FairPartsSpec
PROPERTIES SwitchTakesHold LearnsMergeUnlessSettled MergeIsBroadcast RecordingEnds WaitersReturn PathHeals
CHECK_DEADLOCK FALSE
