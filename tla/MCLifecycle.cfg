SPECIFICATION Spec
CONSTANTS
    BootWindow = FALSE
    MaxRegistrations = 2
    MaxPayments = 3
    MaxRestarts = 2
    MaxCrashes = 2
CHECK_DEADLOCK FALSE
INVARIANTS    SettledAsPaid
PROPERTIES RemovedStops 
