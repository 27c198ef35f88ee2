\* Three addresses, batches of two, commands that may fail.
SPECIFICATION Spec
CONSTANTS
    i1 = i1
    i2 = i2
    i3 = i3
    IP = {i1, i2, i3}
    NONE = NONE
    BatchSize = 2
    AddMayFail = TRUE
    MaxPipe = 3
INVARIANTS
    MutualExclusion
    NothingLost
    AddedOnce
PROPERTIES
    Settles
    SafePromise
    PromiseKept
