\* Subscriptions that do not change, snapshots that add, change and remove
\* resources, a client that reconnects.
CONSTANTS
    a = a
    b = b
    Names = {a, b}
    Hashes = {"h1", "h2"}
    NoHash = ""
    Nodes = {"n1"}
    Types = {"Cluster"}
    Versions = {"v1", "v2", "v3"}
    NoVersion = ""
    NoSnapshot = NoSnapshot
    Snapshots <- MCSnapshots
    Channels = {}
    DeltaChannels = {"s1", "s2"}
    Ads = FALSE
    Heartbeating = FALSE
    BeatsMayStop = FALSE
    Interruptible = TRUE
    Clearing = FALSE
    MaxSets = 2
    MaxBeats = 0
    MaxWatches = 0
    MaxDeltaWatches = 99
    Streams = {"s1", "s2"}
    StreamNode <- MCStreamNode
    Changes = {}
    NoRequest = NoRequest
    MaxChanges = 0
    MaxRejects = 1
SPECIFICATION Spec
INVARIANTS TypeOK QuietMeansConverged NoLeakedWatch
PROPERTY ImplementsService
CHECK_DEADLOCK FALSE
