\* Both venue adapters against a venue that quotes, trades and loses connections.
SPECIFICATION Spec
CONSTANTS
    MaxPrice = 2
    MaxQty = 2
    MaxTime = 4
    MaxEvents = 2
    MaxDelay = 1
    MaxDrops = 1
    ClientSides = {"SELL"}
    ClientQtys = {1}
    MaxOrders = 1
    Hold = 2
    Following = FALSE
    Adapters = {"coinbase", "hyperliquid"}
INVARIANTS
    VenueOrder
    SnapshotSupersedes
    MirrorsVenue
    PrintsFindLiquidity
    PrintsCountOnce
    ClientsKeepOrders
    RefFollowsVenue
PROPERTIES
    ClientsKeepPlace
CHECK_DEADLOCK FALSE
