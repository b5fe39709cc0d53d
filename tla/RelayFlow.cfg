SPECIFICATION FairSpec
CONSTANTS
    a = a
    b = b
    c = c
    Total = 4
    Clients = {a, b, c}
    Sends <- Chain
    Loads <- Shares
    QueueCap = 1
    SocketCap = 1
    MaxTicks = 2
    None = None
INVARIANTS TypeOK 
 
CHECK_DEADLOCK FALSE
