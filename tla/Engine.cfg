SPECIFICATION Spec
CONSTANTS
    Peers = {1, 2}
    MaxResends = 1
    OfflineCapacity = 1
    Inputs <- EditAndAsk
    MaxCalls = 2
    MaxBreaks = 1
INVARIANTS
    WithinLimits
    LinkedPeersAreFed
PROPERTIES
    EventuallyDelivered
    TrackingEnds
