\* Every handler ends, with and without the venue's orders; requests carry tags of their own.
SPECIFICATION FairSpec
CONSTANTS
    MaxId = 2
    MaxPrice = 2
    Clients = {c1}
    NoClient = NoClient
    ClOrdIds = {}
    NoClOrdId = NoClOrdId
    Tags = {t1, t2}
    SmpModes = {"CANCEL_RESTING", "CANCEL_NEWEST"}
    NewPrices = {1, 2}
    NewQtys = {1, 2}
    NewTifs = {"GTC", "IOC"}
    AmendPrices = {1, 2}
    AmendQtys = {2}
    MarketQtys = {1}
    MaxPrio = 4
INVARIANTS
    TagIsAccepted
PROPERTIES
    HandlersEnd
