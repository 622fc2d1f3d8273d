CONSTANT NukeCapacity = 2
CONSTANT MaxFrames = 2
CONSTANT MaxGiven = 2
SPECIFICATION FactoryFairSpec
INVARIANTS FactoryTypeOK StoppedIsQuiescent LibraryInWorkTime
PROPERTIES ImplementsLifecycle ImplementsEndpoint HeardLossStops EveryStopCompletes
