CONSTANTS
    NukeCapacity = 2
    MaxFrames = 2
    MaxCommands = 1
    MaxGiven = 2
SPECIFICATION FairSpec
INVARIANTS TypeOK StoppedIsQuiescent
PROPERTIES ImplementsLifecycle ImplementsEndpoint ComesDown GivenIsSent
