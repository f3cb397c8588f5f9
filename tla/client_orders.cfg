\* Client orders only: new, amended and cancelled, also with a quantity of zero.
SPECIFICATION Spec
CONSTANTS
    MaxId = 3
    MaxPrice = 2
    Clients = {}
    NoClient = NoClient
    ClOrdIds = {k1}
    NoClOrdId = NoClOrdId
    Tags = {t1}
    SmpModes = {"NONE"}
    NewPrices = {1, 2}
    NewQtys = {0, 1, 2}
    NewTifs = {"GTC", "IOC"}
    AmendPrices = {1, 2}
    AmendQtys = {0, 3}
    MarketQtys = {}
    MaxPrio = 4
INVARIANTS
    TypeOK
    BookAgreesWithOrders
    IndicesInLockstep
    ReturnedOnce
    EventsAreClosed
    PublishedBookIsCurrent
PROPERTIES
    ImplementsLifecycle
    PlacesAreKept
