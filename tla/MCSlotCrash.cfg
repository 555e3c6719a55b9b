SPECIFICATION Spec
CONSTANTS
    Tower = {"mine", "other"}
    Slot = {"slot1"}
    Size = {1, 2}
    Quota = 4
    CrashLoopPages = 2
    StartStores <- PlainStores
    MaxNow = 3
    None = None
PROPERTIES ReloadKeepsLoadedTower
