\* The log loop: a line seen half written is the last one.
SPECIFICATION RsyslogSpec
CONSTANTS
    i1 = i1
    i2 = i2
    page = page
    other = other
    foreign = foreign
    NULL = NULL
    IP = {i1}
    URI = {page}
    Wildcard = any
    Nodes = {}
    EdgeCost <- NoEdges
    Folders <- NoFolders
    Group <- NoGroup
    NoFileCost = 3
    SeqThreshCost <- Thresh
    SlotLength = 5
    embedded_reqs = {}
    Base <- NoSubUri
    main_embed <- NoEmbed
    proc_time <- UnitCost
    dummy_links = {}
    windows <- Window
    dyn1Threshes <- Count
    dyn3Threshes <- Cost
    activemodules = {"dyn1"}
    Word = 64
    MaxTime = 2
    Disorder = 0
    MaxRequests = 3
    Foreign = foreign
    PartialWrites = TRUE
PROPERTIES
    EveryLineRead
CHECK_DEADLOCK FALSE
