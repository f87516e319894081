CONSTANTS
    None = none
    Scale = 2
    Agents <- AnnAndBen
    Places = {"hall", "yard"}
    Plans <- MeetAndWork
    InboxLimit = 2
    MaxAge = 1
    Doings <- Talks
    Deciders = {"ann"}
    MaxTicks = 3
    MaxRestores = 1
SPECIFICATION RecordedSpec
INVARIANTS EachRememberedOnce GoalsAreReal SightingsAlternate CaptureTellsTheReaders
CONSTRAINT SavedLately
CHECK_DEADLOCK FALSE
