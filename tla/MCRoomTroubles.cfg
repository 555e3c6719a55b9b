SPECIFICATION Spec
CONSTANTS
    Id <- Rooms5
    Begun <- Towers
    Place <- At
    Kind <- Is
    InfestDays = 2
    Radius = 0
    MaxEdits = 2
    None = None
INVARIANTS TypeOK FiresTracked
PROPERTIES LastOfKindKept RuinsStay OnlyPaidTreated NeglectCounted
