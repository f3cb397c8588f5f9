----------------------------- MODULE MirrorBook -----------------------------
(***************************************************************************)
(* The book of one symbol as the mirror of a venue's book, and the venue   *)
(* that sends its level updates and its trade prints on two channels.      *)
(*                                                                         *)
(* Module Exchange looks at the orders one by one.  Here a level is the    *)
(* queue of its orders, clients' orders and phantoms, because the question *)
(* is how the mirror keeps up with the venue: the operators are the book   *)
(* operations that both venue adapters share.                              *)
(***************************************************************************)
EXTENDS Integers, FiniteSets, SequencesExt

CONSTANTS
    MaxPrice,     \* bound: prices are the ticks 1..MaxPrice
    MaxQty,       \* bound: quantity the venue shows at a level
    MaxTime,      \* bound: the clock, in ticks
    MaxEvents,    \* bound: quotes and trades at the venue
    MaxDelay,     \* ticks a message of the venue may be under way
    MaxDrops,     \* bound: lost connections
    ClientSides,  \* sides and
    ClientQtys,   \* quantities of client orders
    MaxOrders     \* bound: client orders

ASSUME MirrorAssumption ==
    {MaxPrice, MaxQty, MaxTime, MaxEvents, MaxDelay, MaxDrops, MaxOrders} \subseteq Nat

Sides == {"BUY", "SELL"}
Opposite(side) == IF side = "BUY" THEN "SELL" ELSE "BUY"
Prices == 1 .. MaxPrice
Levels == Sides \X Prices
Times  == 0 .. MaxTime

VARIABLES
    book,      \* the queue of every level, from the front
    credit,    \* Symbol::traded_qty_credit_, by level and trade time
    bookTime,  \* OrderBook::lastUpdateTime()
    now,       \* the clock
    venue,     \* what the venue has at every level
    events,    \* quotes and trades there so far
    diffs,     \* level messages under way
    prints,    \* trade messages under way
    feed,      \* the connection: "up", or "down" until the venue's snapshot arrives
    drops,     \* lost connections
    orders,    \* client orders so far
    ledger     \* history: what clients placed and were filled, whether the mirror
               \* has been left alone, whether a print found its trade gone (ghost),
               \* and what an update brought back of a level that prints emptied (again)

bookVars == <<book, credit, bookTime>>
wireVars == <<now, venue, events, diffs, prints, feed, drops>>
mirrorVars == <<bookVars, wireVars, orders, ledger>>

-----------------------------------------------------------------------------
\* A level's queue.

Least(a, b)    == IF a < b THEN a ELSE b
NonNegative(n) == IF n > 0 THEN n ELSE 0
Total(line)    == FoldLeft(LAMBDA sum, e : sum + e.qty, 0, line)
Owned(line)    == Total(SelectSeq(line, LAMBDA e : e.own))
Phantom(line)  == Total(SelectSeq(line, LAMBDA e : ~e.own))
Occupied(line) == SelectSeq(line, LAMBDA e : e.qty > 0)

\* The queue once qty has been filled from its front.
Consume(line, qty) ==
    Occupied([i \in DOMAIN line |->
        [line[i] EXCEPT !.qty =
            Least(@, NonNegative(Total(SubSeq(line, 1, i)) - qty))]])

\* Exchange::reconcilePhantomQty, a decrease: phantoms give up diff from the
\* back, and a client's order is passed over.
ReduceFromBack(line, diff) ==
    Occupied([i \in DOMAIN line |->
        IF line[i].own THEN line[i]
        ELSE [line[i] EXCEPT !.qty =
                Least(@, NonNegative(Phantom(SubSeq(line, i, Len(line))) - diff))]])

\* What a level is sorted by.  Priorities drawn from nextOrderPriority are small and
\* only grow, so orders that have one stand in the order they came in.  An order added
\* under priority 0 is sorted by its timestamp instead, in nanoseconds, which no
\* counter reaches: it stands behind all of those.
Counter == -1

\* Defect: a priority of 0 is taken for the best one, and the order goes to the front.
RestInFront(line, own, at, qty) ==
    LET entry == [own |-> own, at |-> at, qty |-> qty]
    IN  IF qty = 0 THEN line
        ELSE IF at = Counter THEN Append(line, entry) ELSE <<entry>> \o line

\* An order joins the queue under a priority of the counter, or at a time.
RestAt(line, own, at, qty) ==
    LET entry == [own |-> own, at |-> at, qty |-> qty]
        ahead == Len(SelectSeq(line, LAMBDA e : e.at <= at))
    IN  IF qty = 0 THEN line ELSE InsertAt(line, ahead + 1, entry)

\* Defect: OrderBookL3::clear, which takes the clients' orders out too.
ClearEverything(b) == [l \in Levels |-> <<>>]

\* OrderBook::clearMDOrders: clients' orders stay, in the order of their priorities.
ClearMDOrders(b) == [l \in Levels |-> SelectSeq(b[l], LAMBDA e : e.own)]

-----------------------------------------------------------------------------
\* Matching an incoming order of the feed (FifoMatchingEngine::match): best price
\* first, from the front of every level.

Better(side, a, b) == IF side = "BUY" THEN a > b ELSE a < b

BestFirst(side, S) ==
    SelectSeq([i \in Prices |-> IF side = "BUY" THEN MaxPrice + 1 - i ELSE i],
              LAMBDA p : p \in S)

Reached(side, limit) ==
    {l \in Levels : l[1] = Opposite(side)
                    /\ (l[2] = limit \/ Better(Opposite(side), l[2], limit))}

\* What an order takes of the levels it reaches, which hold these totals: what the
\* better ones have left of it.
Taken(total, side, qty) ==
    [l \in DOMAIN total |->
        Least(total[l], NonNegative(qty -
            SumFunctionOnSet(total, {k \in DOMAIN total : Better(Opposite(side), k[2], l[2])})))]

Consumed(b, taken) ==
    [l \in Levels |-> IF l \in DOMAIN taken THEN Consume(b[l], taken[l]) ELSE b[l]]

\* The book afterwards, what is left of the order, and what it took.
Outcome(b, after, left) ==
    [book |-> after, left |-> left,
     phantom |-> [l \in Levels |-> Phantom(b[l]) - Phantom(after[l])],
     own     |-> MapThenSumSet(LAMBDA l : Owned(b[l]) - Owned(after[l]), Levels)]

Fill(b, taken, qty) == Outcome(b, Consumed(b, taken), qty - SumFunction(taken))

Match(b, side, limit, qty) ==
    Fill(b, Taken([l \in Reached(side, limit) |-> Total(b[l])], side, qty), qty)

\* The order matches, and what it could not fill rests on its own side.
RestRemainder(m, side, limit, own, at) ==
    [m EXCEPT !.book = [@ EXCEPT ![<<side, limit>>] = RestAt(@, own, at, m.left)]]

Place(b, side, limit, qty, own, at) ==
    RestRemainder(Match(b, side, limit, qty), side, limit, own, at)

-----------------------------------------------------------------------------
\* Credits for what a print has already taken (symbol.hpp).
\* creditTradedQty, for every level the print took phantoms from.
CreditTradedQty(cr, m, time) ==
    [l \in Levels |-> [cr[l] EXCEPT ![time] = @ + m.phantom[l]]]

\* Defect: a level's credits are one figure, whatever the time of the trades.
UnreflectedSum(cr, l, asOf) == MapThenSumSet(LAMBDA t : cr[l][t], Times)

\* takeTradedQty: the trades an update of asOf does not reflect ...
Unreflected(cr, l, asOf) ==
    MapThenSumSet(LAMBDA t : cr[l][t], {t \in Times : t > asOf})

\* ... and the credits that are left when it has been applied.
DropReflected(cr, l, asOf) ==
    [cr EXCEPT ![l] = [t \in Times |-> IF t > asOf THEN @[t] ELSE 0]]

\* The queue once its phantoms have moved from what they hold to the target.
Resized(line, held, target) ==
    IF target > held THEN RestAt(line, FALSE, Counter, target - held)
    ELSE ReduceFromBack(line, held - target)

\* Defect: the quantity held is the level's, clients' orders included.
ReconcileTotal(b, cr, l, qty, time) ==
    [b EXCEPT ![l] = Resized(@, Total(@), NonNegative(qty - Unreflected(cr, l, time)))]

\* Exchange::reconcilePhantomQty: the update's quantity, less what it does not reflect.
Reconcile(b, cr, l, qty, time) ==
    [b EXCEPT ![l] = Resized(@, Phantom(@), NonNegative(qty - Unreflected(cr, l, time)))]

-----------------------------------------------------------------------------
\* The venue.  At most one thing happens there in a tick, its updates and its
\* prints carry the time of it, and each channel keeps its order.

Uncrossed(v) == \A p, q \in Prices : v[<<"BUY", p>>] > 0 /\ v[<<"SELL", q>>] > 0 => p < q

Changed(m) == {l \in Levels : m.before[l] # m.after[l]}

\* A level message holds the venue's book before and after, from which each
\* adapter reads what its venue sends.
Send(after, fills) ==
    /\ venue' = after
    /\ events < MaxEvents /\ events' = events + 1
    /\ IF feed = "down" THEN UNCHANGED <<diffs, prints>>
       ELSE /\ diffs' = Append(diffs, [time |-> now', before |-> venue, after |-> after])
            /\ prints' = IF fills = <<>> THEN prints
                         ELSE Append(prints, [time |-> now', fills |-> fills])

Quote ==
    \E l \in Levels, qty \in 0 .. MaxQty :
        /\ qty # venue[l]
        /\ Uncrossed([venue EXCEPT ![l] = qty])
        /\ Send([venue EXCEPT ![l] = qty], <<>>)

\* A taker sweeps the venue; every level it reaches makes a print, best first.
PrintsOf(side, taken, prices) ==
    [i \in DOMAIN prices |-> [side |-> side, price |-> prices[i],
                              qty |-> taken[<<Opposite(side), prices[i]>>]]]

Sweep(side, taken) ==
    Send([l \in Levels |-> IF l \in DOMAIN taken THEN venue[l] - taken[l] ELSE venue[l]],
         PrintsOf(side, taken, BestFirst(Opposite(side),
                                         {p \in Prices : taken[<<Opposite(side), p>>] > 0})))

VenueTrade ==
    \E side \in Sides :
        LET offered == [l \in {k \in Levels : k[1] = Opposite(side)} |-> venue[l]]
        IN  \E qty \in 1 .. MaxQty + 1 :
                qty <= SumFunction(offered) /\ Sweep(side, Taken(offered, side, qty))

\* The clock does not pass the latest arrival of a message.
Tick ==
    /\ now < MaxTime
    /\ \A i \in DOMAIN diffs : diffs[i].time + MaxDelay > now
    /\ \A i \in DOMAIN prints : prints[i].time + MaxDelay > now
    /\ now' = now + 1
    /\ Quote \/ VenueTrade \/ UNCHANGED <<venue, events, diffs, prints>>
    /\ UNCHANGED <<bookVars, feed, drops, orders, ledger>>

\* The connection is lost, and what was under way with it.
LoseConnection ==
    /\ feed = "up" /\ drops < MaxDrops
    /\ feed' = "down" /\ drops' = drops + 1
    /\ diffs' = <<>> /\ prints' = <<>>
    /\ ledger' = [ledger EXCEPT !.alone = FALSE]
    /\ UNCHANGED <<now, venue, events>>

\* The ledger after a quote of the venue (base and asOf have the quantity and the
\* time of a level's last update, again the trades that it does not reflect and that
\* nothing took off it because the book did not have the level), a print, a client's
\* order and a snapshot.
Quoted(led, l, qty, time) == [led EXCEPT !.base[l] = qty, !.asOf[l] = time]

Crossed(led, m, qty) == [led EXCEPT !.filled = @ + m.own, !.alone = @ /\ m.left = qty]

Added(led, cr, l, time) == [led EXCEPT !.again[l] = Unreflected(cr, l, time)]

Reconciled(led, l) == [led EXCEPT !.again[l] = 0]

Printed(led, m) == [led EXCEPT !.filled = @ + m.own, !.ghost = @ \/ m.left > 0]

Ordered(led, m, qty) ==
    [led EXCEPT !.placed = @ + qty, !.filled = @ + qty - m.left, !.alone = @ /\ m.left = qty]

Restarted(led, own) ==
    [led EXCEPT !.filled = @ + own, !.alone = (own = 0), !.ghost = FALSE,
                !.base = venue, !.asOf = [l \in Levels |-> now], !.again = [l \in Levels |-> 0]]

\* A snapshot's levels, in this order, are matched one by one before they rest.
Rebuilt(m, own) == [book |-> m.book, own |-> own + m.own]

Rebuild(levels, at) ==
    FoldLeft(LAMBDA acc, l :
               Rebuilt(Place(acc.book, l[1], l[2], venue[l], FALSE, at), acc.own),
             [book |-> ClearMDOrders(book), own |-> 0], levels)

Restart(built) == book' = built.book /\ ledger' = Restarted(ledger, built.own)

\* A client's order.  Its own resting orders are not in its way: self-match
\* prevention is in module Exchange.
AddOrder(m, qty) ==
    /\ m.own = 0
    /\ book' = m.book
    /\ ledger' = Ordered(ledger, m, qty)

ClientOrder ==
    /\ orders < MaxOrders /\ orders' = orders + 1
    /\ \E side \in ClientSides, price \in Prices, qty \in ClientQtys :
         AddOrder(Place(book, side, price, qty, TRUE, Counter), qty)
    /\ UNCHANGED <<credit, bookTime, wireVars>>

\* The venue has asks at every price, and the adapter has had its first snapshot.
Opening == [l \in Levels |-> IF l[1] = "SELL" THEN MaxQty ELSE 0]

MirrorInit(at) ==
    /\ venue = Opening
    /\ book = [l \in Levels |-> RestAt(<<>>, FALSE, at, Opening[l])]
    /\ credit = [l \in Levels |-> [t \in Times |-> 0]]
    /\ bookTime = 0 /\ now = 0 /\ feed = "up"
    /\ events = 0 /\ diffs = <<>> /\ prints = <<>>
    /\ drops = 0 /\ orders = 0
    /\ ledger = [placed |-> 0, filled |-> 0, alone |-> TRUE, ghost |-> FALSE,
                 base |-> Opening, asOf |-> [l \in Levels |-> 0],
                 again |-> [l \in Levels |-> 0]]
=============================================================================
