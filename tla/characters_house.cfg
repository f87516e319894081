CONSTANTS
    None = none
    Agents = {1}
    Places = {"kitchen", "kitchen door", "bedroom door", "beside bed", "beside tray"}
    RoomOf <- RoomOfTwo
    Portals <- Door
    Stations <- Furniture
    Approaches <- TwoRoomApproaches
    Supports <- EatAndSleep
    Capacity <- OneEach
    Drives = {"SATIETY", "ENERGY"}
    Corrects <- Needs
    Activities = {"WORK"}
    Menu <- TwoRoomMenu
    Starts <- TwoRoomStarts
    Duration = 2
    MaxActions = 2
    MaxDrifts = 3
    MaxOutages = 2
    MaxTicks = 6
SPECIFICATION Spec
INVARIANTS EndedOnce
PROPERTIES NoActionVanishes
CHECK_DEADLOCK FALSE
