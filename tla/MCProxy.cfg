SPECIFICATION FairSpec
CONSTANTS
    client1 = client1
    client2 = client2
    Clients = {client1, client2}
    NConns = 3
    MaxPool = 1
    MaxRequests = 2
    MaxBody = 2
    SocketBuf = 1
    Environments <- MCEnvironments
INVARIANTS Exclusive OwnResponse SafeReplay OneResponse BodyConsumed PoolQuiescent
PROPERTY RequestEnds
CHECK_DEADLOCK FALSE
