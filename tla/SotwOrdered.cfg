\* processADS: one channel for all types, a cache in ADS mode, whose contract
\* processADS keeps, consistent snapshots and clients that follow references.
CONSTANTS
    a = a
    b = b
    Names = {a, b}
    Hashes = {"h1", "h2"}
    NoHash = ""
    Nodes = {"n1"}
    Types = {"Cluster", "Endpoint"}
    Versions = {"v1", "v2", "v3"}
    NoVersion = ""
    NoSnapshot = NoSnapshot
    Snapshots <- MCConsistentSnapshots
    Channels <- MCChannels
    DeltaChannels = {}
    Ads = TRUE
    Heartbeating = TRUE
    BeatsMayStop = FALSE
    Interruptible = FALSE
    Clearing = FALSE
    MaxSets = 2
    MaxBeats = 1
    MaxWatches = 99
    MaxDeltaWatches = 0
    Streams = {"s1"}
    StreamNode <- MCStreamNode
    Ordered = TRUE
    Interest <- MCAll
    Following = TRUE
    Content <- MCContent
    NoName = ""
    NoRequest = NoRequest
    MaxRejects = 0
SPECIFICATION FairSpec
INVARIANTS NeverSilent OrderedOnTheWire
PROPERTIES KeepsContract EventuallyConverged
CHECK_DEADLOCK FALSE
