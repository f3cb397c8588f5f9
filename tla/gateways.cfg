\* Order gateways against the exchange.
SPECIFICATION Spec
CONSTANTS
    MaxRequests = 3
    Ids = {1, 2}
    Users = {u1}
    ClOrdIds = {k1, k2}
    NoClOrdId = NoClOrdId
    Prices = {1}
    Sizes = {2}
    PriceIncrement = 1
    BaseIncrement = 1
    BaseMinSize = 1
    ListingBatch = 2
    ReuseClOrdIds = FALSE
    Sockets = {s1}
    NoSocket = NoSocket
    SocketsPerUser = 1
    OrderSizes = {2}
    Gateways = {"coinbase_rest", "coinbase_listing", "coinbase_ws", "hyperliquid"}
INVARIANTS
    NoAnswerSkipped
    AnswersAreOwn
    StoresAreComplete
    ClientsSeeTheirOrders
    ForgottenOrdersEnd
CHECK_DEADLOCK FALSE
