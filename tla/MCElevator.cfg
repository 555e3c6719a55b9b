SPECIFICATION Spec
CONSTANTS
    Top = 2
    MaxCars = 2
    Capacity = 1
    Lobbies <- MCLobbies
    Homes <- MCHomes
    Skips <- MCSkips
    Steps <- MCSteps
    Dwell = 3
    Responses <- MCResponses
    Estimates <- MCEstimates
    Trips <- MCTrips
    People = {p1, p2}
    MaxEdits = 1
INVARIANTS TypeOK SeatsMatchRiders
PROPERTIES NobodyBoardsStoodDown RidersArrive CallsAnswered
CHECK_DEADLOCK FALSE
