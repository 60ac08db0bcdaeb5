SPECIFICATION FairSpec
CONSTANTS
    TrackCount = 2
    Callers = {c1}
INVARIANTS
    TypeOK
    NoTrackForgotten
    ServiceInv
PROPERTIES
    FirstFailureKept
    KeepsPromise
    RecordingEnds
