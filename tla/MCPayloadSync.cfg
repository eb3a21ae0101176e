SPECIFICATION Spec
CONSTANTS
    Block <- MCBlock
    Batch <- MCBatch
    Round <- MCRound
    Payload <- MCPayload
    Rounds <- MCRounds
    gc_depth = 2
    Capacity = 1
INVARIANTS  OnlyYoungBlocksWait
PROPERTY EventuallyResumed
