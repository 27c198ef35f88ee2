\* The semantics module: files known by their folder, and pages that are not known.
SPECIFICATION Spec
CONSTANTS
    i1 = i1
    i2 = i2
    page = page
    heavy = heavy
    obj = obj
    query = query
    dummy = dummy
    a = a
    b = b
    dir = dir
    img = img
    sub = sub
    stray = stray
    any = any
    NULL = NULL
    IP = {i1}
    URI <- WalkURI
    Wildcard = any
    Nodes <- WalkNodes
    EdgeCost <- WalkEdges
    Folders <- WalkFolders
    Group <- NoGroup
    NoFileCost = 3
    SeqThreshCost <- SomeThresh
    SlotLength = 2
    embedded_reqs = {img}
    Base <- NoSubUri
    main_embed <- RateEmbed
    proc_time <- UnitCost
    dummy_links = {}
    windows <- TwoWindows
    dyn1Threshes <- NoCosts
    dyn3Threshes <- NoCosts
    activemodules = {"sem"}
    Word = 64
    MaxTime = 2
    Disorder = 0
    MaxRequests = 5
INVARIANTS
    EndNodeTracksKnown
    UnknownPagesBounded
CHECK_DEADLOCK FALSE
