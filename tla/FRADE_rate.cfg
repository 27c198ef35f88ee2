\* dyn1, dyn2 and dyn3 on one address, a page that embeds one object, two windows, a log in order.
SPECIFICATION Spec
CONSTANTS
    i1 = i1
    i2 = i2
    page = page
    heavy = heavy
    obj = obj
    query = query
    dummy = dummy
    a = a
    b = b
    dir = dir
    img = img
    sub = sub
    stray = stray
    any = any
    NULL = NULL
    IP = {i1}
    URI <- ObjURI
    Wildcard = any
    Nodes = {}
    EdgeCost <- NoEdges
    Folders <- NoFolders
    Group <- NoGroup
    NoFileCost = 3
    SeqThreshCost <- TrivialThresh
    SlotLength = 5
    embedded_reqs = {obj}
    Base <- NoSubUri
    main_embed <- ObjEmbed
    proc_time <- ObjCost
    dummy_links = {}
    windows <- TwoWindows
    dyn1Threshes <- TwoCounts
    dyn3Threshes <- TwoCosts
    activemodules = {"dyn1", "dyn2", "dyn3"}
    Word = 64
    MaxTime = 8
    Disorder = 0
    MaxRequests = 6
INVARIANTS
    TypeOK
    RateBounded
    ConvictionJustified
    CountsJustified
    EmbeddedPaid
    EmittedOnce
CHECK_DEADLOCK FALSE
