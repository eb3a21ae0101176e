SPECIFICATION PacemakerSpec
CONSTANTS
    N = 2
    Active = {0, 1}
    MaxRound = 4
    Timers <- AllTimers
    MaxTimeouts = 4
    Payload = {none}
    NoPayload = none
    HistoryRounds = 13
    PruneDepth = 15
CHECK_DEADLOCK FALSE
INVARIANTS Agreement VoteOnce InductiveInvariant QuorumLock
PROPERTY PacemakerProgress
