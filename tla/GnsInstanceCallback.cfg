CONSTANT NukeCapacity = 2
CONSTANT MaxFrames = 0
CONSTANT MaxGiven = 0
SPECIFICATION Spec
INVARIANT CallbackFindsClient
