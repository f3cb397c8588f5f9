\* The REST gateway's listing beside the exchange: a rejected order, a cancel that came too late.
SPECIFICATION Spec
CONSTANTS
    MaxRequests = 3
    Ids = {1, 2}
    Users = {u1}
    ClOrdIds = {k1}
    NoClOrdId = NoClOrdId
    Prices = {1}
    Sizes = {2}
    PriceIncrement = 1
    BaseIncrement = 1
    BaseMinSize = 1
    ListingBatch = 2
    ReuseClOrdIds = FALSE
    Sockets = {s1}
    NoSocket = NoSocket
    SocketsPerUser = 1
    OrderSizes = {2}
    Gateways = {"coinbase_listing"}
INVARIANTS
    ReplayReconstructsState
CHECK_DEADLOCK FALSE
