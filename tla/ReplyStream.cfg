\* Two replies on one connection, of every form, read in any parts.
SPECIFICATION Spec
CONSTANTS
    Word = 16
    MaxLine = 4
    Replies <- WellFormed
    Pipelined = 2
    Undefined = {200, 204, 100}
INVARIANTS
    FramedAsSent
    BytesHaveACall
PROPERTIES
    AllAnswered
CHECK_DEADLOCK FALSE
