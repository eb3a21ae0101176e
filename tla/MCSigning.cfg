SPECIFICATION Spec
CONSTANTS
    Operator = {1, 2, 3, 4}
    Faulty = {4}
    Threshold = 3
    Job <- MCJob
    Kind <- MCKind
    Epoch <- MCEpoch
    Agenda <- MCAgenda
    Candidate <- MCCandidate
    Conflict <- MCConflict
    None = None
    NTry = 2
    MaxFault = 1
CHECK_DEADLOCK FALSE
INVARIANTS NoConflictSigned WakeUpComing
PROPERTY EveryOperatorProves
