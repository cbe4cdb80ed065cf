\* SOTW streams that ask for one resource or for all: progress, and what their
\* clients hold while watches are open.
CONSTANTS
    a = a
    b = b
    c = c
    k1 = k1
    k2 = k2
    Names = {a, b}
    Hashes = {"h1", "h2"}
    NoHash = ""
    Subscribers = {k1, k2}
    Interest <- MCSingle
    MayChangeNames = FALSE
    NoVersion = NoVersion
    NoMap = NoMap
    InitialResources <- MCInitial
    DeltaChannels = {}
    MaxVersion = 2
    MaxDeltaWatches = 0
    MaxLeaves = 1
SPECIFICATION FairSpec
INVARIANTS NeverLockedOut NoMissedUpdate
PROPERTY EventuallyConverged
CHECK_DEADLOCK FALSE
