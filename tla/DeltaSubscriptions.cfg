\* Subscriptions that change while snapshots update the same resources:
\* progress, and the contract of SnapshotCache, which processDelta keeps.
CONSTANTS
    a = a
    b = b
    Names = {a, b}
    Hashes = {"h1", "h2"}
    NoHash = ""
    Nodes = {"n1"}
    Types = {"Cluster"}
    Versions = {"v1", "v2", "v3"}
    NoVersion = ""
    NoSnapshot = NoSnapshot
    Snapshots <- MCUpdates
    Channels = {}
    DeltaChannels = {"s1"}
    Ads = FALSE
    Heartbeating = FALSE
    BeatsMayStop = FALSE
    Interruptible = FALSE
    Clearing = FALSE
    MaxSets = 2
    MaxBeats = 0
    MaxWatches = 0
    MaxDeltaWatches = 99
    Streams = {"s1"}
    StreamNode <- MCStreamNode
    Changes = {"subscribe", "unsubscribe", "star", "unstar"}
    NoRequest = NoRequest
    MaxChanges = 2
    MaxRejects = 0
SPECIFICATION FairSpec
INVARIANTS StateIsLastSent ChannelNeverFull
PROPERTIES KeepsContract EventuallyConverged
CHECK_DEADLOCK FALSE
