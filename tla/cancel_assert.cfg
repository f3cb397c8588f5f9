\* The assertion in sendOrderCancelPending, for an order that has filled in part.
SPECIFICATION Spec
CONSTANTS
    MaxId = 2
    MaxPrice = 2
    Clients = {}
    NoClient = NoClient
    ClOrdIds = {}
    NoClOrdId = NoClOrdId
    Tags = {t1}
    SmpModes = {"NONE"}
    NewPrices = {1, 2}
    NewQtys = {1, 2}
    NewTifs = {"GTC"}
    AmendPrices = {1, 2}
    AmendQtys = {1}
    MarketQtys = {}
    MaxPrio = 4
INVARIANTS
    CancelsWholeOrder
