\* SOTW and delta watches of one type, one node.
CONSTANTS
    a = a
    Names = {a}
    Hashes = {"h1", "h2"}
    NoHash = ""
    Nodes = {"n1"}
    Types = {"Cluster"}
    Versions = {"v1", "v2"}
    NoVersion = ""
    NoSnapshot = NoSnapshot
    Snapshots <- MCSnapshots
    Channels = {"c1"}
    DeltaChannels = {"d1"}
    Ads = TRUE
    Heartbeating = TRUE
    BeatsMayStop = TRUE
    Interruptible = TRUE
    Clearing = TRUE
    MaxSets = 2
    MaxBeats = 1
    MaxWatches = 2
    MaxDeltaWatches = 1
SPECIFICATION CacheSpec
INVARIANTS LockDiscipline CacheTypeOK AnsweredOnce NoMissedUpdate NoMissedDelta
CHECK_DEADLOCK FALSE
