\* A stream with WithOrderedADS shuts down during SetSnapshot.
CONSTANTS
    a = a
    b = b
    Names = {a, b}
    Hashes = {"h1", "h2"}
    NoHash = ""
    Nodes = {"n1"}
    Types = {"Cluster", "Endpoint"}
    Versions = {"v1", "v2"}
    NoVersion = ""
    NoSnapshot = NoSnapshot
    Snapshots <- MCSnapshots
    Channels <- MCChannels
    DeltaChannels = {}
    Ads = TRUE
    Heartbeating = FALSE
    BeatsMayStop = FALSE
    Interruptible = FALSE
    Clearing = FALSE
    MaxSets = 2
    MaxBeats = 0
    MaxWatches = 99
    MaxDeltaWatches = 0
    Streams = {"s1"}
    StreamNode <- MCStreamNode
    Ordered = TRUE
    Interest <- MCInterest
    Following = FALSE
    Content <- MCContent
    NoName = ""
    NoRequest = NoRequest
    MaxRejects = 0
SPECIFICATION Spec
INVARIANT NoSendOnClosedChannel
CHECK_DEADLOCK FALSE
