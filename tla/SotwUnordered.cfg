\* process: a cache that is not in ADS mode, snapshots that come back, heartbeats,
\* a rejected response.
CONSTANTS
    a = a
    b = b
    Names = {a, b}
    Hashes = {"h1", "h2"}
    NoHash = ""
    Nodes = {"n1"}
    Types = {"Endpoint"}
    Versions = {"v1", "v2"}
    NoVersion = ""
    NoSnapshot = NoSnapshot
    Snapshots <- MCSnapshots
    Channels <- MCChannels
    DeltaChannels = {}
    Ads = FALSE
    Heartbeating = TRUE
    BeatsMayStop = FALSE
    Interruptible = FALSE
    Clearing = FALSE
    MaxSets = 3
    MaxBeats = 2
    MaxWatches = 99
    MaxDeltaWatches = 0
    Streams = {"s1"}
    StreamNode <- MCStreamNode
    Ordered = FALSE
    Interest <- MCInterest
    Following = FALSE
    Content <- MCContent
    NoName = ""
    NoRequest = NoRequest
    MaxRejects = 1
SPECIFICATION Spec
INVARIANTS TypeOK NeverSilent FreshAnswers QuietMeansConverged
PROPERTIES KeepsContract ImplementsService
CHECK_DEADLOCK FALSE
