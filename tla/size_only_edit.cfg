\* An edit that carries a size and no price; price 3 is NULL_PRICE.
SPECIFICATION Spec
CONSTANTS
    MaxId = 2
    MaxPrice = 2
    Clients = {}
    NoClient = NoClient
    ClOrdIds = {}
    NoClOrdId = NoClOrdId
    Tags = {t1}
    SmpModes = {"NONE"}
    NewPrices = {1, 2}
    NewQtys = {1, 2}
    NewTifs = {"GTC"}
    AmendPrices = {1, 3}
    AmendQtys = {1}
    MarketQtys = {}
    MaxPrio = 4
INVARIANTS
    NothingRestsAtNullPrice
