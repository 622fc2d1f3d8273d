CONSTANTS
    NukeCapacity = 2
    MaxFrames = 0
    MaxCommands = 1
    MaxGiven = 0
SPECIFICATION Spec
INVARIANT UrlIsWhole
