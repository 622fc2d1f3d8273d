CONSTANTS
    a = a
    b = b
    nobody = nobody
    User <- MCUser
    Name <- MCName
    Nobody = nobody
    AtStart <- MCAtStart
    MaxInputs = 2
SPECIFICATION FairSpec
INVARIANTS TypeOK UsersFollowServer
PROPERTIES SendsInOrder ComesDown
