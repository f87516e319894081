CONSTANTS
    None = None
    People = {"ann", "bo"}
    Things <- MCThings
    Object <- MCObject
    Names <- MCNames
    Ids <- MCIds
    Body = {0, 1}
    Equipment <- MCEquipment
    MaxMass = 3
    MaxLoad = 3
    Width = 10
    Address <- MCAddress
    Endpoint <- MCEndpoint
    Acuity <- MCAcuity
    Order <- MCOrder
    Duration = 2
    Decisions = 3
    Alarms = 1
    Casts = {"cup", "box", "seat", "specs", "tray", "moved", "page", "diary", "mail"}
SPECIFICATION Spec
INVARIANTS BodiesAgree TextIsWhole RequestsServePlans CaptureTellsTheHousehold SeenAndShown
PROPERTIES ImplementsBelongings
