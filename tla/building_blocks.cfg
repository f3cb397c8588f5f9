\* The pro-rata engine, the session helpers and the multicast feed.
SPECIFICATION Spec
CONSTANTS
    RestingSizes = {1, 3}
    MaxQueue = 3
    MaxIncoming = 6
    SessionIds = {a, b, c}
    OrderNums = {1, 2}
    MaxInFlight = 2
    MaxRequests = 4
    SeqBits = 3
    MaxCapacity = 4
    Correlations = {x, y}
    MaxWaiters = 4
    Lines = {l1, l2}
    NoLine = NoLine
    QueueSize = 2
    MaxPacketsPerPoll = 2
    MaxWishes = 3
    MaxFailures = 2
    MaxLosses = 1
    MaxStops = 1
    Off = Off
    Parts = {"pro_rata", "cl_ord_ids", "retransmit", "pending", "multicast"}
INVARIANTS
    AllocationIsFair
    PreChecksDecide
    NamesAreExact
    ReplaysAreExact
    CompletedOnce
PROPERTIES
    LinesAreHeard
CHECK_DEADLOCK FALSE
