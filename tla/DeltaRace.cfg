\* A subscription that changes while snapshots add and remove resources.
CONSTANTS
    a = a
    b = b
    Names = {a, b}
    Hashes = {"h1", "h2"}
    NoHash = ""
    Nodes = {"n1"}
    Types = {"Cluster"}
    Versions = {"v1", "v2", "v3"}
    NoVersion = ""
    NoSnapshot = NoSnapshot
    Snapshots <- MCSnapshots
    Channels = {}
    DeltaChannels = {"s1"}
    Ads = FALSE
    Heartbeating = FALSE
    BeatsMayStop = FALSE
    Interruptible = FALSE
    Clearing = FALSE
    MaxSets = 2
    MaxBeats = 0
    MaxWatches = 0
    MaxDeltaWatches = 99
    Streams = {"s1"}
    StreamNode <- MCStreamNode
    Changes = {"subscribe"}
    NoRequest = NoRequest
    MaxChanges = 1
    MaxRejects = 0
SPECIFICATION Spec
INVARIANT StateIsLastSent
CHECK_DEADLOCK FALSE
