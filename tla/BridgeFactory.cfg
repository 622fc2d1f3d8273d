CONSTANT MaxBridges = 2
SPECIFICATION FairSpec
INVARIANTS TypeOK OwnedOnce ReportsLiveBridges FatalOnlyFromLeftBehind
PROPERTIES StoppedIsRetired StopCompletes
