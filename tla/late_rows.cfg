\* A subscriber's book, kept from the rows that the Coinbase exchange publishes.
SPECIFICATION Spec
CONSTANTS
    MaxPrice = 2
    MaxQty = 2
    MaxTime = 4
    MaxEvents = 2
    MaxDelay = 1
    MaxDrops = 0
    ClientSides = {"SELL"}
    ClientQtys = {1}
    MaxOrders = 1
    Hold = 2
    Following = TRUE
    Adapters = {"coinbase"}
INVARIANTS
    DeltasAgreeWithSnapshot
CHECK_DEADLOCK FALSE
