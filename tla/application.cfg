SPECIFICATION ApplicationSpec
CONSTANTS
    Follower = Follower
    Leader = Leader
    Period = 6
    Tolerance = 3
    MaxDelay = 2
    Hanging = {Follower, Leader}
    MaxTimeouts = 2
    MaxSent = 4
INVARIANT NoFalseAlarm
INVARIANT DetectionBound
INVARIANT ExchangeInOrder
PROPERTY BothRun
PROPERTY NoOneSidedSession
CHECK_DEADLOCK FALSE
