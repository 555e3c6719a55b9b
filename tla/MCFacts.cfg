SPECIFICATION Spec
CONSTANTS
    Site <- Flat
    Kind <- AtKind
    Rests <- AtRests
    Buried = {}
    Begun <- WithFlat
    Price <- Prices
    CarPrice = 2
    MaxCars = 2
    KindCap <- OneEach
    StartMoney = 2
    Rents = {10, 20}
    Names = {"catalog", "tenant"}
    Flows = {0}
    Treasures = {0}
    MaxFound = 1
    Clock = TRUE
    Strays = FALSE
    UndoCap = 2
    MaxId = 2
    MaxHour = 1
    MaxRides = 1
    MaxFlow = 0
    None = None
INVARIANTS SoldPriceFixed
PROPERTIES StepReverses
