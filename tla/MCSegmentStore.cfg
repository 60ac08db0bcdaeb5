SPECIFICATION Spec
CONSTANTS
    Sessions = {s1, s2}
    Sources = {x1, x2}
    MaxIndex = 1
    NoOne = NoOne
    Platforms = {"rename", "link"}
SYMMETRY StoreSymmetry
ACTION_CONSTRAINT TwoPaths
INVARIANTS
    TypeOK
    StoreInv
    NoMediaLost
    RecoveredLeavesNoPart
PROPERTY RowsMoveForward
