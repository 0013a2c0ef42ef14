SPECIFICATION Spec
CONSTANTS
    a1 = a1  a2 = a2  b = b  c = c
    s1 = s1  s2 = s2
    A = A  B = B  C = C
    ip1 = ip1  ip2 = ip2
    Conns = {a1, a2, b, c}
    IpOf <- MCIpOf
    MaxConnections = 3
    MaxPerIp = 2
    Peers = {A, B, C}
    PeerOf <- MCPeerOf
    Ops = {1}
    OwnerOf <- MCOwnerOf
    HasProof = {a1, a2, b}
    TokenAuth = TRUE
    MaxRoomMembers = 2
    NoConn = NoConn
    MaxFrames = 1
    SigPeers = {A, B, C}
    SigPeerOf <- MCPeerOf
    SigHasProof = {a1, a2, b}
    SigTokenAuth = TRUE
    MaxSigMembers = 1
    NoSig = NoSig
    LogOps = {1, 2, 3, 4, 5, 6}
    OpSize <- MCOpSize
    MaxOpsPerRoom = 2
    MaxCellsPerRoom = 9
    GarbageLength = 99
    MaxCrashes = 2
    Users = {A, B}
    Publishers = {A}
    IdleAfter = 1
    OfflineAfter = 2
    MaxTime = 4
    LastInput = 2
    MaxInFlight = 2
    Players = {A, B}
    Ahead <- MCAhead
    NoPlayer = NoPlayer
    Followers = {B}
    Leaders = {A}
    Moments = {0, 1, 61, 62}
    MaxRequests = 2
    MaxResponses = 1
    MaxPositions = 1
    MaxJumps = 1
    Decks = {A, B, C}
    Places = {0, 1}
    NoDeck = NoDeck
    MaxCommands = 1
    Hosts = {A, B}
    Sockets = {s1, s2}
    Routes <- MCRoutes
    Identities = {{}, {A}, {A, B}}
    NoSocket = NoSocket
    MaxSent = 1
    Nodes = {A, B}
    MaxPcs = 3
    MaxQueued = 1
    Stations = {A, B}
    Ttl = 1
    MaxUnread = 2
INVARIANTS
    RoomsHoldNoGhosts
    JoinersMissNothing
    CountsAreExact
    KeepsRecent
    DiskBounded
    OffsetWithinHalfRtt
    FollowersShowTheMaster
    TransportsAgree
    EntriesAreRead
    NothingSwallowed
PROPERTIES
    SilentPeersFade
    HandshakesEnd
    LoneDialConnects
CHECK_DEADLOCK FALSE
