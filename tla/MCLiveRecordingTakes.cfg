SPECIFICATION LiveSpec
CONSTANTS
    Sessions = {s1, s2}
    Packages = {p1, p2}
    None = None
    StoreMayFail = TRUE
    MaxDatagram = 3
    SocketRoom = 2
    MaxPoll = 3
    MaxProject = 1
    MaxSession = 2
    MaxShot = 5
    MinShot = 3
INVARIANTS
    LiveTypeOK
    TakesInv
    FaceInv
PROPERTIES
    TakesEnd
