\* Progress and clean-up: a client that reconnects while its old stream is still
\* shutting down, failing SetSnapshot calls.
CONSTANTS
    a = a
    b = b
    Names = {a, b}
    Hashes = {"h1", "h2"}
    NoHash = ""
    Nodes = {"n1"}
    Types = {"Endpoint"}
    Versions = {"v1", "v2"}
    NoVersion = ""
    NoSnapshot = NoSnapshot
    Snapshots <- MCSnapshots
    Channels <- MCChannels
    DeltaChannels = {}
    Ads = FALSE
    Heartbeating = FALSE
    BeatsMayStop = FALSE
    Interruptible = TRUE
    Clearing = FALSE
    MaxSets = 2
    MaxBeats = 0
    MaxWatches = 99
    MaxDeltaWatches = 0
    Streams = {"s1", "s2"}
    StreamNode <- MCStreamNode
    Ordered = FALSE
    Interest <- MCFixedInterest
    Following = FALSE
    Content <- MCContent
    NoName = ""
    NoRequest = NoRequest
    MaxRejects = 0
SPECIFICATION FairSpec
INVARIANT NoLeakedWatch
PROPERTIES EventuallyConverged ImplementsService
CHECK_DEADLOCK FALSE
