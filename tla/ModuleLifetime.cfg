CONSTANTS
    init = init
    closer = closer
    stopA = stopA
    stopB = stopB
    Initializer <- init
    Closer <- closer
    Stoppers <- MCStoppers
SPECIFICATION FairSpec
INVARIANTS Inv CountedInTimeIsSafe
PROPERTIES ImplementsLifecycle DisposeEnds
