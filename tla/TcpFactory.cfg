CONSTANT MaxInstances = 4
SPECIFICATION FairSpec
INVARIANTS TypeOK OwnedOnce IndexIsExclusive
PROPERTIES NothingLost ReturnedIsDestroyed StopCompletes
