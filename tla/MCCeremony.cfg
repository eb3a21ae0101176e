SPECIFICATION Spec
CONSTANTS
    Party = {1, 2, 3}
    Threshold = 2
    Initiators <- MCInitiators
    Agenda <- MCAgenda
    None = None
CHECK_DEADLOCK FALSE
INVARIANTS StoredKeyIsShared AnnouncedKeyIsKept
 
