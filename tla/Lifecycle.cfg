\* Two starts, with stops at any time.
SPECIFICATION Spec
CONSTANTS
    winSizes <- Lengths
    thresholds <- Counts
    NoData = NoData
    IP = {a}
    Threshold = 1
    Options <- OneOfBoth
    Lines <- GoodAndBad
    Versions = {"rsyslog", "rsyslog_tb", "rsyslog-server"}
    Starts = 2
    MaxLines = 1
    MaxSyns = 3
    MaxTime = 1
INVARIANTS
    RuleInPlace
    SniffedJustly
PROPERTIES
    Reblocked
    SniffedBlocked
CHECK_DEADLOCK FALSE
