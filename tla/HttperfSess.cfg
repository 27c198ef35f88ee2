\* Sessions of every kind, with timeouts, resets and connections the server closes.
SPECIFICATION Spec
CONSTANTS
    NULL = NULL
    Word = 64
    MaxLine = 4
    Timer = {1,2,3,4,5,6}
    NUM_TIMERS = 2
    LateRearm = FALSE
    MaxDrops = 1
    Replies <- SiteReplies
    Undefined = {200}
    Params <- Mixed
    Faults = {"reset", "close", "cut"}
    ReqParts = 1
    Conn = {1, 2, 3}
    Call = {1, 2, 3, 4, 5, 6}
    SD = {3, 4}
    Port = {0, 1, 2, 3}
    WordBits = 2
    Sess = {1, 2}
    MAX_PIPED = 2
    Handlers <- WorkHandlers
    prefix = prefix
INVARIANTS
    NoAbort
    RefsHeld
    Counted
    PageCounts
PROPERTIES
    Ends
CHECK_DEADLOCK FALSE
