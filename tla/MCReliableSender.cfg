CONSTANTS
    MaxMessages = 3
    MaxConnections = 2
SPECIFICATION Spec
INVARIANTS AckIsDelivery NothingLost QueuedInOrder
PROPERTY EventuallyAnswered
CHECK_DEADLOCK FALSE
