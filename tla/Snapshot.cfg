SPECIFICATION QuietSpec
CONSTANTS
    Peers = {1, 2}
    MaxLamport = 10
    ClipId = {1, 2, 3, 4}
    TrackId = {1}
    MaxFrame = 10
    Vacant = Vacant
    Edits <- SnapshotEdits
    MaxOps = 4
INVARIANTS
    SnapshotFidelity
    ResyncAgrees
    LateDuplicateHarmless
