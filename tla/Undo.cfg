SPECIFICATION USpec
CONSTANTS
    Peers = {1, 2}
    MaxLamport = 10
    ClipId = {1, 2}
    TrackId = {1}
    MaxFrame = 10
    Vacant = Vacant
    Edits <- UndoableEdits
    HistoryCapacity = 2
    MaxOps = 4
INVARIANTS
    UndoRestoresView
    RedoRestoresView
    DeltaReaches
    Convergence
PROPERTIES
    UndoTakesEffect
