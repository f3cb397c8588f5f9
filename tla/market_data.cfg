\* Market data from the exchange to its clients.
SPECIFICATION Spec
CONSTANTS
    Sockets = {s1, s2}
    Parts = {"coinbase", "hyperliquid"}
    None = None
    MaxPrice = 2
    MaxSubscribes = 2
    MaxEvents = 2
    MaxBatch = 2
    MaxLag = 2
    Capacity = 4
    Depth = 2
INVARIANTS
    ClientsFollowBook
    TapeIsComplete
PROPERTIES
    SubscribersServed
