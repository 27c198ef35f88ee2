\* The whole defence: two addresses, one of them also reported by the proxy, a pipe of one.
SPECIFICATION SystemSpec
CONSTANTS
    i1 = i1
    i2 = i2
    page = page
    other = other
    foreign = foreign
    NULL = NULL
    IP = {i1, i2}
    URI = {page}
    Wildcard = any
    Nodes = {}
    EdgeCost <- NoEdges
    Folders <- NoFolders
    Group <- NoGroup
    NoFileCost = 3
    SeqThreshCost <- Thresh
    SlotLength = 5
    embedded_reqs = {}
    Base <- NoSubUri
    main_embed <- NoEmbed
    proc_time <- UnitCost
    dummy_links = {}
    windows <- Window
    dyn1Threshes <- Count
    dyn3Threshes <- Cost
    activemodules = {"dyn1"}
    Word = 64
    MaxTime = 2
    Disorder = 0
    MaxRequests = 3
    Foreign = foreign
    PartialWrites = TRUE
    NONE = NONE
    BatchSize = 2
    AddMayFail = FALSE
    MaxPipe = 1
    Suspects = {i2}
INVARIANTS
    HandledInOrder
    Delivered
PROPERTIES
    DefenceKept
    WholeLinesRead
CHECK_DEADLOCK FALSE
