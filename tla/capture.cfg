CONSTANTS
    Speakers = {"sue"}
    Customers = {"carl"}
    Bodies = {"bob"}
    Engagers = {"eve"}
    Deciders = {"dan"}
    Pairs = {"pair"}
    Soloists = {"sue", "carl", "bob", "dan"}
    Troupes = {{"eve"}, {"pair"}, {"sue", "carl"}, {"carl", "bob"}, {"dan", "sue"}}
    Doors = 1
    MaxIntervals = 2
SPECIFICATION Spec
CHECK_DEADLOCK FALSE
INVARIANTS CaptureNeverRaises RebuildAgrees EngagementsSettled DecisionsAgree
PROPERTIES EpisodesStand
