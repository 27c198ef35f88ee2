\* Calls and connections in sequence, with every way a connection or a write can fail.
SPECIFICATION Spec
CONSTANTS
    NULL = NULL
    Word = 16
    MaxLine = 4
    Timer = {1,2,3,4,5,6}
    NUM_TIMERS = 2
    LateRearm = FALSE
    MaxDrops = 1
    Replies <- Answers
    Undefined = {200}
    Params <- Even
    Faults = {"refused", "inuse", "notavail", "sockopt", "again", "partial"}
    ReqParts = 2
    Conn = {1, 2}
    Call = {1, 2, 3, 4}
    SD = {3, 4}
    Port = {0, 1}
    WordBits = 1
    Handlers <- SeqHandlers
    UriFile <- UriList
    One = 3
INVARIANTS
    NoAbort
    NothingLeaks
    Accounted
    Watched
    UrisInTurn
CHECK_DEADLOCK FALSE
