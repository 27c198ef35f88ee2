\* The same engine on a log whose lines may lie one millisecond behind.
SPECIFICATION Spec
CONSTANTS
    i1 = i1
    i2 = i2
    page = page
    heavy = heavy
    obj = obj
    query = query
    dummy = dummy
    a = a
    b = b
    dir = dir
    img = img
    sub = sub
    stray = stray
    any = any
    NULL = NULL
    IP = {i1}
    URI <- OnePage
    Wildcard = any
    Nodes = {}
    EdgeCost <- NoEdges
    Folders <- NoFolders
    Group <- NoGroup
    NoFileCost = 3
    SeqThreshCost <- TrivialThresh
    SlotLength = 5
    embedded_reqs = {}
    Base <- NoSubUri
    main_embed <- RateEmbed
    proc_time <- RateCost
    dummy_links = {}
    windows <- ShortWindow
    dyn1Threshes <- OneCount
    dyn3Threshes <- OneCost
    activemodules = {"dyn1"}
    Word = 64
    MaxTime = 5
    Disorder = 1
    MaxRequests = 6
INVARIANTS
    RateBounded
CHECK_DEADLOCK FALSE
