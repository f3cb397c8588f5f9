\* Client orders beside the venue's own, mirrored order by order.
SPECIFICATION Spec
CONSTANTS
    MaxId = 3
    MaxPrice = 2
    Clients = {}
    NoClient = NoClient
    ClOrdIds = {}
    NoClOrdId = NoClOrdId
    Tags = {t1}
    SmpModes = {"NONE"}
    NewPrices = {1, 2}
    NewQtys = {2}
    NewTifs = {"GTC"}
    AmendPrices = {2}
    AmendQtys = {1}
    MarketQtys = {1, 2}
    MaxPrio = 4
INVARIANTS
    Uncrossed
    OwnersKnow
    PhantomTotalsExact
    MirrorWithinVenue
    MarketOrdersFillClients
