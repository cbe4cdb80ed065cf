\* A SOTW stream whose client asks for other resources, new ones included, and a
\* delta stream that asks for anything at any time.
CONSTANTS
    a = a
    b = b
    c = c
    k1 = k1
    k2 = k2
    Names = {a, b}
    Hashes = {h1, h2}
    NoHash = ""
    Subscribers = {k1}
    Interest <- MCSeveral
    MayChangeNames = TRUE
    NoVersion = NoVersion
    NoMap = NoMap
    InitialResources <- EmptyMap
    DeltaChannels = {"d1"}
    MaxVersion = 2
    MaxDeltaWatches = 1
    MaxLeaves = 1
SPECIFICATION Spec
INVARIANTS TypeOK WatchesAwaitChanges NoStrayWatch NoMissedDelta VersionsCurrent
VIEW MCView
SYMMETRY MCSymmetry
CHECK_DEADLOCK FALSE
