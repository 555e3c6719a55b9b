SPECIFICATION Spec
CONSTANTS
    StartLen = 3
    MaxId = 5
    UndoCap = 2
    MaxBatch = 2
INVARIANTS TypeOK PlacesAreOriginal
PROPERTIES RestoresWholeLists BrushKeepsOrder
