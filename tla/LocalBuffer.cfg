SPECIFICATION CSpec
CONSTANTS
    Peers = {1, 2}
    MaxLamport = 10
    ClipId = {1, 2, 3, 4}
    TrackId = {1}
    MaxFrame = 8
    Vacant = Vacant
    Edits <- LateTargetEdits
    MaxOps = 3
INVARIANTS
    BufferedUntilTarget
