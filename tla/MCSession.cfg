SPECIFICATION Spec
CONSTANTS
    Tower = {"mine", "other"}
    Slot = {"slot1"}
    Size = {1, 2}
    Quota = 4
    CrashLoopPages = 2
    StartStores <- AnyStores
    MaxNow = 2
    None = None
INVARIANTS TypeOK OnlyRealTowers HiddenIsSaved
PROPERTIES NeverBackwards TowerSurvives NewerSurvives ReloadKeepsTower AskedLands
