SPECIFICATION Spec
CONSTANTS
    Targets = {1, 2}
    Small = {2}
    Devices = {1, 2}
    RestartLimit = 2
    MaxTimers = 1
    Completions = {c1, c2}
    Characters = {1, 2}
    Corners = {"right bottom", "left top"}
    MaxAvatarEvent = 2
    Packages = {"p", "q"}
    MaxScene = 3
    MaxTake = 2
    StudioHabits <- MCHabits
INVARIANTS
    TypeOK
    CaptureInv
    SceneInv
    StudioInv
PROPERTIES
    PageEnds
