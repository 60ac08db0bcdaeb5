SPECIFICATION Spec
CONSTANTS
    Jobs = 2
    Exports <- MCExports
    Length = 2
    MaxRevision = 1
    MaxOpens = 2
    Habits <- MCHabits
    Tolerance = 1
    FrameRate <- MCFrameRate
    Requests <- MCRequests
    Titled <- MCTitled
    MaxProgramEvent = 3
    Times = {0, 1, 2, 4}
    Positions = {0, 1, 3}
    ClickTimes = {1, 3}
    MaxMoves = 4
    MaxClicks = 2
    FocusRadius = 1
    MinDwell = 2
    ZoomGap = 1
    MoveRadius = 1
    IdleTime = 2
    Amplitudes = {0, 1, 3}
    WindowFrames = 2
    MinSilence = 3
    Loudness = 2
    Fillers <- MCFillers
    Speech <- MCSpeech
    MaxSound = 5
INVARIANTS
    TypeOK
    RenderInv
    EditorInv
    ProgramInv
    AidsInv
PROPERTIES
    KeepsDestination
    DeskEnds
