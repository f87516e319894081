CONSTANTS
    None = none
    Agents = {1, 2}
    Places <- OneRoomPlaces
    RoomOf <- OneRoom
    Portals = {}
    Stations <- Kitchens
    Approaches <- OneRoomApproaches
    Supports <- AllEat
    Capacity <- ForOne
    Drives = {"SATIETY"}
    Corrects <- Hunger
    Activities = {"WORK"}
    Menu <- OneRoomMenu
    Starts <- OneRoomStarts
    Duration = 2
    MaxActions = 4
    MaxDrifts = 2
    MaxOutages = 1
    MaxTicks = 5
SPECIFICATION Spec
INVARIANTS WaitingHasWork NoDoubleBooking SurvivalOwnsTheBody ActivityHasCause TicksNeverRaise
CHECK_DEADLOCK FALSE
