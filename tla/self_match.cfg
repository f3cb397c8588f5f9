\* One client's orders among anonymous ones, under every self-match mode; price 3 is NULL_PRICE.
SPECIFICATION Spec
CONSTANTS
    MaxId = 3
    MaxPrice = 2
    Clients = {c1}
    NoClient = NoClient
    ClOrdIds = {}
    NoClOrdId = NoClOrdId
    Tags = {t1}
    SmpModes = {"NONE", "CANCEL_RESTING", "CANCEL_NEWEST"}
    NewPrices = {1, 2, 3}
    NewQtys = {1, 2}
    NewTifs = {"GTC", "FOK"}
    AmendPrices = {2}
    AmendQtys = {2}
    MarketQtys = {}
    MaxPrio = 4
INVARIANTS
    SelfMatchDecidedUpFront
    ScansWhatTrades
    FokFillsCompletely
