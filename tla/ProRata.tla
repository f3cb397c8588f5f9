------------------------------- MODULE ProRata -------------------------------
(***************************************************************************)
(* ProRataMatchingEngine: an incoming order against the levels of the      *)
(* other side.  At a level it cannot take whole, its quantity is split by  *)
(* size and not by queue position.                                         *)
(*                                                                         *)
(* The levels are 1, 2, ... from the best; an order's limit is the last    *)
(* level it reaches.  Phantom liquidity is an order of another owner.      *)
(***************************************************************************)
EXTENDS Integers, FiniteSets, Sequences, Functions

CONSTANTS
    RestingSizes,    \* quantities of resting orders
    MaxQueue,        \* bound: orders of the first level
    MaxIncoming      \* bound: quantity of the incoming order

VARIABLE engine      \* one call of match(): see NewOrder and FeedOrder

\* ProRataConfig, as validate() accepts it.
Configs == {[lot |-> 1, min |-> 0, fifo |-> 0],  [lot |-> 1, min |-> 2, fifo |-> 0],
            [lot |-> 2, min |-> 0, fifo |-> 50], [lot |-> 1, min |-> 0, fifo |-> 100]}

Total(sizes) == SumFunction(sizes)
Sizes(level) == [i \in DOMAIN level |-> level[i].qty]

-----------------------------------------------------------------------------
\* share_of and floorLot
ShareOf(a, b, c) == (a * b) \div c
FloorLot(cfg, qty) == qty - (qty % cfg.lot)

\* The queue's orders take qty in turn.
Fifo(sizes, qty) ==
    [i \in DOMAIN sizes |->
        LET left == qty - Total(SubSeq(sizes, 1, i - 1))
        IN  IF left <= 0 THEN 0 ELSE IF left < sizes[i] THEN left ELSE sizes[i]]

\* The second step: each order's share of what is left, in whole lots, or nothing
\* when it is below the minimum.
Shares(cfg, sizes, left, base) ==
    [i \in DOMAIN sizes |->
        LET share == FloorLot(cfg, ShareOf(left, sizes[i], base))
        IN  IF share < cfg.min THEN 0 ELSE share]

\* Defect: the shares are of whole orders, though the slice has taken from them.
AllocateWhole(cfg, sizes, qty) ==
    LET slice == FloorLot(cfg, ShareOf(qty, cfg.fifo, 100))
        first == Fifo(sizes, slice)
        share == Shares(cfg, sizes, qty - slice, Total(sizes) - slice)
    IN  IF qty >= Total(sizes) THEN sizes ELSE [i \in DOMAIN sizes |-> first[i] + share[i]]

\* allocate: the FIFO slice, the shares, and the rest in the queue's order.
Allocate(cfg, sizes, qty) ==
    LET slice == FloorLot(cfg, ShareOf(qty, cfg.fifo, 100))
        first == Fifo(sizes, slice)
        share == Shares(cfg, [i \in DOMAIN sizes |-> sizes[i] - first[i]],
                        qty - slice, Total(sizes) - slice)
        split == [i \in DOMAIN sizes |-> first[i] + share[i]]
        extra == Fifo([i \in DOMAIN sizes |-> sizes[i] - split[i]], qty - Total(split))
    IN  IF qty >= Total(sizes) THEN sizes ELSE [i \in DOMAIN sizes |-> split[i] + extra[i]]

-----------------------------------------------------------------------------
\* prepareOrder

IsOwn(o) == o.owner = "own"
Reached(levels, limit) == SelectSeq(levels, LAMBDA level : level.price <= limit)

\* The orders of the levels that the limit reaches, as they queue.
Queue(levels, limit) ==
    MapThenFoldSet(LAMBDA ahead, behind : ahead \o behind, <<>>, LAMBDA k : levels[k].orders,
                   LAMBDA S : CHOOSE k \in S : \A m \in S : k <= m, DOMAIN Reached(levels, limit))

\* Defect: the scan stops where the quantity ends in the queue, as for FIFO.
WouldSelfMatchQueue(levels, limit, qty) ==
    LET queue == Queue(levels, limit)
    IN  \E i \in DOMAIN queue : IsOwn(queue[i]) /\ Total(Sizes(SubSeq(queue, 1, i - 1))) < qty

\* wouldSelfMatch, Reach::Level: a level that the quantity reaches counts whole.
WouldSelfMatch(levels, limit, qty) ==
    \E k \in DOMAIN Reached(levels, limit) :
        /\ \E i \in DOMAIN levels[k].orders : IsOwn(levels[k].orders[i])
        /\ Total([j \in 1 .. k - 1 |-> Total(Sizes(levels[j].orders))]) < qty

\* canFillCompletely
CanFillCompletely(levels, limit, qty, smp) ==
    LET queue == Queue(levels, limit)
        enough(orders) == Total(Sizes(orders)) >= qty
    IN  CASE smp = "NONE" -> enough(queue)
          [] smp = "CANCEL_RESTING" -> enough(SelectSeq(queue, LAMBDA o : ~IsOwn(o)))
          [] smp = "CANCEL_NEWEST" ->
               \E n \in 0 .. Len(queue) :
                   (\A i \in 1 .. n : ~IsOwn(queue[i])) /\ enough(SubSeq(queue, 1, n))

PrepareOrder ==
    /\ engine.status = "PENDING_NEW"
    /\ engine' = [engine EXCEPT !.status =
         CASE engine.smp = "CANCEL_NEWEST" /\ WouldSelfMatch(engine.levels, engine.limit, engine.left)
                -> "REJECTED"
           [] OTHER ->
                IF engine.tif = "FOK" /\ ~CanFillCompletely(engine.levels, engine.limit, engine.left, engine.smp)
                  THEN "KILLED" ELSE "MATCHING"]

-----------------------------------------------------------------------------
\* One turn of the loop in matchOrder or matchFeed.

Crosses(e) == e.left > 0 /\ e.levels # <<>> /\ Head(e.levels).price <= e.limit

\* The level's orders with these ones' quantities taken; the empty ones are gone.
WithBest(e, orders) ==
    LET resting == SelectSeq(orders, LAMBDA o : o.qty > 0)
    IN  IF resting = <<>> THEN Tail(e.levels)
        ELSE <<[Head(e.levels) EXCEPT !.orders = resting]>> \o Tail(e.levels)

\* The own orders of the level are cancelled, or the order is rejected after all.
PreventSelfMatch ==
    LET best == Head(engine.levels).orders
    IN  /\ engine.status = "MATCHING" /\ Crosses(engine)
        /\ engine.smp # "NONE" /\ \E i \in DOMAIN best : IsOwn(best[i])
        /\ engine' = IF engine.smp = "CANCEL_NEWEST" THEN [engine EXCEPT !.status = "BACKSTOP"]
                     ELSE [engine EXCEPT !.levels = WithBest(engine, SelectSeq(best, LAMBDA o : ~IsOwn(o)))]

\* Every order of the level gets its allocation.
FillLevel ==
    LET best  == Head(engine.levels).orders
        given == Allocate(engine.config, Sizes(best), engine.left)
        rests == [i \in DOMAIN best |-> [best[i] EXCEPT !.qty = @ - given[i]]]
    IN  /\ engine.status = "MATCHING" /\ Crosses(engine)
        /\ engine.smp # "NONE" => \A i \in DOMAIN best : ~IsOwn(best[i])
        /\ engine' = [engine EXCEPT !.left = @ - Total(given), !.levels = WithBest(engine, rests),
                        !.fills = Append(@, [orders |-> best, qty |-> engine.left, given |-> given])]

\* cancelUnrestableRemainder
Finish ==
    /\ engine.status = "MATCHING" /\ ~Crosses(engine)
    /\ engine' = [engine EXCEPT !.status =
                    IF engine.left = 0 THEN "FILLED" ELSE IF engine.tif = "GTC" THEN "RESTS" ELSE "CANCELED"]

-----------------------------------------------------------------------------
Resting == [owner : {"own", "other"}, qty : RestingSizes]
Books == {<<[price |-> 1, orders |-> queue], [price |-> 2, orders |-> <<o>>]>> :
             queue \in UNION {[1 .. n -> Resting] : n \in 1 .. MaxQueue}, o \in Resting}

\* match() for a client's order, and for liquidity of the feed.
NewOrder(cfg, levels, qty, limit, tif, smp) ==
    [config |-> cfg, levels |-> levels, left |-> qty, limit |-> limit, tif |-> tif, smp |-> smp,
     status |-> "PENDING_NEW", fills |-> <<>>]
FeedOrder(cfg, levels, qty, limit) ==
    [NewOrder(cfg, levels, qty, limit, "GTC", "NONE") EXCEPT !.status = "MATCHING"]

ProRataInit ==
    \E cfg \in Configs, levels \in Books, qty \in 1 .. MaxIncoming, limit \in 1 .. 2 :
        \/ engine = FeedOrder(cfg, levels, qty, limit)
        \/ \E tif \in {"GTC", "FOK"}, smp \in {"NONE", "CANCEL_RESTING", "CANCEL_NEWEST"} :
             engine = NewOrder(cfg, levels, qty, limit, tif, smp)

ProRataNext == PrepareOrder \/ PreventSelfMatch \/ FillLevel \/ Finish

=============================================================================
