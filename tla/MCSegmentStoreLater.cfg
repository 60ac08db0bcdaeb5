SPECIFICATION Spec
CONSTANTS
    Sessions = {s1, s2}
    Sources = {x1}
    MaxIndex = 1
    NoOne = NoOne
    Platforms = {"rename"}
SYMMETRY StoreSymmetry
INVARIANT LaterTakesRecord
