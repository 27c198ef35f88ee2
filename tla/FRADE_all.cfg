\* Every module on two addresses, with proxy lines, dummy links and queries, in four versions of the engine.
SPECIFICATION BuildsSpec
CONSTANTS
    i1 = i1
    i2 = i2
    page = page
    heavy = heavy
    obj = obj
    query = query
    dummy = dummy
    a = a
    b = b
    dir = dir
    img = img
    sub = sub
    stray = stray
    any = any
    NULL = NULL
    IP = {i1, i2}
    URI <- FullURI
    Wildcard = any
    Nodes <- GraphNodes
    EdgeCost <- GraphEdges
    Folders <- NoFolders
    Group <- Groups
    NoFileCost = 3
    SeqThreshCost <- Threshes
    SlotLength = 2
    embedded_reqs <- Embedded
    Base <- QueryBase
    main_embed <- Embed
    proc_time <- ServerTimes
    dummy_links <- DummyLinks
    windows <- Windows
    dyn1Threshes <- Dyn1
    dyn3Threshes <- Dyn3
    activemodules = {"dyn1", "dyn2", "dyn3", "sem", "dec"}
    Word = 64
    MaxTime = 2
    Disorder = 0
    MaxRequests = 4
    main_reqs <- MainReqs
    settings <- FileNames
    hit = {sub}
    HitBothCost = 1
    HitOneCost = 2
    fpage = fpage
    sem_Nodes <- SemNodes
    sem_EdgeCost <- SemEdges
    LoadSample = 2
INVARIANTS
    
    ObjectsListed
    StraysBounded
CHECK_DEADLOCK FALSE
