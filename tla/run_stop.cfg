CONSTANTS
    Agents = {1}
    ModelAgents = {1}
    Tasks = {realtime, step}
    Free = free
    MaxConcurrency = 1
    MaxRequests = 9
    MaxTokens = 1
    MaxTicks = 3
    Tools = {"act", "engage"}
    Faults = {"raise"}
    NoAction = noaction
    NoEngagement = noengagement
    MaxCompilers = 1
    MaxCompilations = 9
    Verdicts = {"compiled", "raise"}
    Realtime = realtime
    Remembering = {1}
    Calls = {"pause", "resume", "checkpoint"}
    NoSnapshot = nosnapshot
SPECIFICATION RunSpec
PROPERTIES OnlyOverlapsUnsettle StopFinalises
CHECK_DEADLOCK FALSE
