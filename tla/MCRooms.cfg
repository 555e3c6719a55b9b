SPECIFICATION Spec
CONSTANTS
    Site <- Rooms
    Kind <- AtKind
    Rests <- AtRests
    Buried = {"room", "annex"}
    Begun <- Ground
    Price <- Prices
    CarPrice = 2
    MaxCars = 2
    KindCap <- OneEach
    StartMoney = 5
    Rents = {10}
    Names = {"catalog"}
    Flows = {0}
    Treasures = {0, 3}
    MaxFound = 1
    Clock = TRUE
    Strays = TRUE
    UndoCap = 2
    MaxId = 3
    MaxHour = 1
    MaxRides = 1
    MaxFlow = 3
    None = None
INVARIANTS TowerStands CapsKept TrailBounded NoFreeUse Inv
PROPERTIES StepReverses
