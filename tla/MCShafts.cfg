SPECIFICATION Spec
CONSTANTS
    Site <- Shaft
    Kind <- AtKind
    Rests <- AtRests
    Buried = {}
    Begun <- BothFloors
    Price <- Prices
    CarPrice = 2
    MaxCars = 2
    KindCap <- OneEach
    StartMoney = 6
    Rents = {10}
    Names = {"catalog"}
    Flows = {0}
    Treasures = {0}
    MaxFound = 1
    Clock = TRUE
    Strays = TRUE
    UndoCap = 2
    MaxId = 3
    MaxHour = 1
    MaxRides = 2
    MaxFlow = 0
    None = None
INVARIANTS NoFreeUse TowerStands
PROPERTIES StepReverses
