SPECIFICATION Spec
CONSTANTS
    None = None
    h = h
    o = o
    v = v
    c = c
    People = {p1, p2}
    Unit = {h, o, v, c}
    Kind <- MCKind
    Cap <- MCCap
INVARIANTS HotelIsSubset
