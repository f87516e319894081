CONSTANTS
    Agents = {1, 2}
    ModelAgents = {1, 2}
    Tasks = {realtime, step}
    Free = free
    MaxConcurrency = 1
    MaxRequests = 2
    MaxTokens = 9
    MaxTicks = 2
    Tools = {"act"}
    Faults = {}
    NoAction = noaction
    NoEngagement = noengagement
    MaxCompilers = 1
    MaxCompilations = 2
    Verdicts = {"compiled"}
    Realtime = realtime
    Remembering = {}
    Calls = {"pause", "checkpoint"}
    NoSnapshot = nosnapshot
SPECIFICATION RunSafetySpec
INVARIANT CheckpointIsSettled
CHECK_DEADLOCK FALSE
