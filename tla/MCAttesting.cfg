SPECIFICATION ClientSpec
CONSTANTS
    Validator = {1, 2}
    SlotsPerEpoch = 2
    Forever = 99
    None = None
    Agenda <- MCAgenda
    DutySlot <- MCDutySlot
    Aggregator = {1}
    HistoricalDutiesEpochs = 2
    HistoryEpochs = 2
    Subnets <- MCSubnets
    Selected <- MCSelected
    EpochsPerPeriod = 4
    PreComputeEpochs = 1
    LookaheadEpochs = 1
CHECK_DEADLOCK FALSE
INVARIANTS QuietEpochFirst AttestOnce  
