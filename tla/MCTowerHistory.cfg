SPECIFICATION SpecH
CONSTANTS
    Site <- Mixed
    Kind <- AtKind
    Rests <- AtRests
    Buried = {}
    Begun <- Overfull
    Price <- Prices
    CarPrice = 2
    MaxCars = 2
    KindCap <- OneEach
    StartMoney = 4
    Rents = {10}
    Names = {"catalog"}
    Flows = {0}
    Treasures = {0}
    MaxFound = 1
    Clock = FALSE
    Strays = FALSE
    UndoCap = 2
    MaxId = 5
    MaxHour = 0
    MaxRides = 0
    MaxFlow = 0
    None = None
    NoMark = NoMark
INVARIANTS TypeOK
PROPERTIES RestoresWholeTowers
