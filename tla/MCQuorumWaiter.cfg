SPECIFICATION Spec
CONSTANTS
    Maker = maker
    peer1 = peer1
    peer2 = peer2
    peer3 = peer3
    Peers <- MCPeers
    MaxBatches = 2
    MaxStops = 2
PROPERTY EventuallyDelivered
CHECK_DEADLOCK FALSE
