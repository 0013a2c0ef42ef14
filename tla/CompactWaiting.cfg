SPECIFICATION CompactSpec
CONSTANTS
    Peers = {1, 2}
    MaxLamport = 10
    ClipId = {1, 2, 3, 4}
    TrackId = {1}
    MaxFrame = 10
    Vacant = Vacant
    Edits <- RenameEdits
    MaxOps = 3
INVARIANTS
    SnapshotFidelity
