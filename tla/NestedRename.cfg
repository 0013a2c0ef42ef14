SPECIFICATION Spec
CONSTANTS
    Peers = {1, 2}
    MaxLamport = 10
    ClipId = {1, 2, 3, 4}
    TrackId = {1}
    MaxFrame = 8
    Vacant = Vacant
    Edits <- NestedRenameEdits
    MaxOps = 4
INVARIANTS
    WrittenFieldsShow
