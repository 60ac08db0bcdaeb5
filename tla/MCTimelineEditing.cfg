SPECIFICATION Spec
CONSTANTS
    TakeLength = 3
    EditorLimit = 2
    ReconcilerLimit = 3
    Takes = {1}
    Marks <- MCMarks
    TextLen = 2
    Users <- MCUsers
    MaxRevision = 4
INVARIANTS
    TypeOK
    EditingInv
PROPERTIES
    KeepsDocument
