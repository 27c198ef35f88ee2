\* The thresholds of the code; an attack ends after three calm seconds instead of six.
SPECIFICATION Spec
CONSTANTS
    attackThresh = 4
    stopThresh = 2
    alpha = 9
    SlowDowns = 2
    Unit = 4
    MaxSeqs = 6
    MaxCalm = 4
    MaxTriggers = 4
PROPERTIES
    KeepsOrders
    BaselineBounded
CHECK_DEADLOCK FALSE
