CONSTANTS
    MaxTcp = 2
    MaxGns = 2
SPECIFICATION FairSpec
INVARIANTS TypeOK RelayInOrder CountersTrail CtxUsesOwnInstances ReturnsEachStopped
PROPERTIES ImplementsBridgeLife ComesDown
