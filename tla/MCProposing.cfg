SPECIFICATION Spec
CONSTANTS
    Candidates <- MCCandidates
    None = None
    Validator = {1, 2}
    Proposer <- MCProposer
    RequireSynced = TRUE
    PrivateTx = TRUE
    SlotsPerEpoch = 3
    HistoricalDutiesEpochs = 2
    LastSlot = 3
    Agenda <- MCAgenda
CHECK_DEADLOCK FALSE
INVARIANTS NotifiedOnce SignedOnce GoodNodesTried ProposalLands
