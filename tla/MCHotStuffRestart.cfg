SPECIFICATION RestartSpec
CONSTANTS
    N = 4
    Active = {0, 1, 2, 3}
    MaxRound = 2
    Timers <- NoTimers
    MaxTimeouts = 0
    Payload = {none, tx}
    NoPayload = none
    HistoryRounds = 13
    PruneDepth = 15
CHECK_DEADLOCK FALSE
INVARIANT VoteOnce
