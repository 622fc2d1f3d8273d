CONSTANTS
    init = init
    closer = closer
    stopA = stopA
    stopB = stopB
    Initializer <- init
    Closer <- closer
    Stoppers <- MCStoppers
SPECIFICATION Spec
INVARIANT NoThreadOutlivesObject
