\* A subscriber to three resources: a change waits for a stream that waits for the cache.
CONSTANTS
    a = a
    b = b
    c = c
    k1 = k1
    k2 = k2
    Names = {a, b, c}
    Hashes = {"h1"}
    NoHash = ""
    Subscribers = {k1}
    Interest <- MCThree
    MayChangeNames = FALSE
    NoVersion = NoVersion
    NoMap = NoMap
    InitialResources <- MCInitial
    DeltaChannels = {}
    MaxVersion = 4
    MaxDeltaWatches = 0
    MaxLeaves = 0
SPECIFICATION Spec
INVARIANTS NeverLockedOut
CHECK_DEADLOCK FALSE
