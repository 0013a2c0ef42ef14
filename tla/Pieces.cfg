SPECIFICATION Spec
CONSTANTS
    Peers = {1, 2}
    MaxLamport = 5
    ClipId = {1, 2, 3, 4}
    TrackId = {1}
    MaxFrame = 20
    Vacant = Vacant
    Edits <- PieceEdits
    MaxOps = 4
INVARIANTS
    TypeOK
    LogHasNoDuplicates
    BufferIsLogged
    IssuedAfterObserved
    ClockCoversLog
    Convergence
    PiecesTileTheClip
    UnwrittenFollowsParent
PROPERTIES
    DrainLeavesOrphans
    ImplementsOpSet
