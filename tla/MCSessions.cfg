SPECIFICATION SessionFairSpec
CONSTANTS
    t1 = t1
    t2 = t2
    e1 = e1
    e2 = e2
    e3 = e3
    lake = lake
    None = None
    Threads <- TwoThreads
    Urls <- Translated
    Lakes <- OneLake
    LakeOf <- SameLake
    Inputs <- Spellings
    UrlOf <- Translate
    Engines <- ThreeEngines
    Capacity = 1
    MaxBatches = 1
INVARIANTS TypeOK OneOpenEnginePerUrl CachedEnginesAreOpen NoEngineLeaks SessionTypeOK LentIsHeld OnePoolPerLake
PROPERTIES OnlyEvictionClosesHandedOut CallsReturn TimeoutsAreEarned ScansSettle
CHECK_DEADLOCK FALSE
