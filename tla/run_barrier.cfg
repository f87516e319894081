CONSTANTS
    Agents = {1, 2}
    ModelAgents = {1, 2}
    Tasks = {realtime, step}
    Free = free
    MaxConcurrency = 1
    MaxRequests = 2
    MaxTokens = 9
    MaxTicks = 2
    Tools = {"engage"}
    Faults = {"raise"}
    NoAction = noaction
    NoEngagement = noengagement
    MaxCompilers = 1
    MaxCompilations = 2
    Verdicts = {"compiled"}
    Realtime = realtime
    Remembering = {}
    Calls = {"pause", "resume"}
    NoSnapshot = nosnapshot
SPECIFICATION RunSafetySpec
INVARIANTS NoOrphanedRequest NothingLostOrDuplicated BarrierComplete EngagementFollowsAction FinalisedIsClean
PROPERTIES ImplementsProtocol PreemptionWins NoInstallAfterStop
CHECK_DEADLOCK FALSE
