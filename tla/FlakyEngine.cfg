SPECIFICATION FlakySpec
CONSTANTS
    Peers = {1, 2}
    MaxResends = 1
    OfflineCapacity = 1
    Inputs <- EditOnly
    MaxCalls = 1
    MaxBreaks = 1
PROPERTIES
    QueueFlushed
