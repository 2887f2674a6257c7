SPECIFICATION Spec
CONSTANTS
    client1 = client1
    client2 = client2
    Clients = {client1, client2}
    NConns = 3
    MaxPool = 1
    MaxRequests = 2
    MaxBody = 2
    SocketBuf = 1
    Environments <- MCEnvironments
INVARIANT NoSecondResponse
CHECK_DEADLOCK FALSE
