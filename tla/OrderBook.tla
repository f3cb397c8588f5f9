----------------------------- MODULE OrderBook -----------------------------
(***************************************************************************)
(* The order book of one symbol (order_book/order_book.hpp).               *)
(*                                                                         *)
(* The external L3 book holds two kinds of order side by side: simulator   *)
(* orders, which belong to a client and have a pooled Order record, and    *)
(* phantom orders, which mirror the liquidity the real venue reports.  An  *)
(* order is a simulator order exactly when the index orders_ knows its id. *)
(*                                                                         *)
(* This module has the book's state and one operator per book operation.   *)
(* The operators are actions on the book's variables; the handlers that    *)
(* call them are in module Exchange.                                       *)
(***************************************************************************)
EXTENDS Integers, FiniteSets

CONSTANTS
    MaxId,        \* bound: ids utils::nextOrderId() hands out
    MaxPrice,     \* bound: prices are the ticks 1..MaxPrice
    Clients,      \* user ids with an identity for self-match prevention
    NoClient,     \* client_id -1: a request without a user id
    ClOrdIds,     \* client order ids
    NoClOrdId,    \* the empty client order id
    Tags          \* request tags

ASSUME BoundsAssumption == MaxId \in Nat /\ MaxPrice \in Nat \ {0}
ASSUME NamesAssumption  == NoClient \notin Clients /\ NoClOrdId \notin ClOrdIds
ASSUME TagsAssumption   == Tags # {}

NoId == 0
Ids  == 1 .. MaxId

Sides == {"BUY", "SELL"}
Opposite(side) == IF side = "BUY" THEN "SELL" ELSE "BUY"

Prices == 1 .. MaxPrice
\* NULL_PRICE is the largest price_t, so it compares above every real price.
NullPrice == MaxPrice + 1
AllPrices == Prices \cup {NullPrice}
Levels == Sides \X AllPrices

\* GTC stands for DAY, GOOD_TILL_CANCEL and GOOD_TILL_DATE, which all rest, and
\* IOC also for AT_THE_OPENING and GOOD_TILL_CROSSING, which do not.
TimesInForce == {"GTC", "IOC", "FOK"}

Absent    == [side |-> "BUY", price |-> 0, qty |-> 0, prio |-> 0]
BookEntry == {Absent} \cup [side : Sides, price : AllPrices, qty : Nat \ {0}, prio : Nat]

Order == [client : Clients \cup {NoClient}, cl : ClOrdIds \cup {NoClOrdId},
          side : Sides, price : AllPrices \cup {0}, quantity : Nat,
          leaves : Nat, cum : Nat, tif : TimesInForce, tag : Tags, prio : Nat]

VARIABLES
    l3,         \* the L3 book: entry of every id, qty 0 when it does not rest
    order,      \* the pooled Order records, by id
    orders_,    \* ids of the simulator orders
    byClOrdId,  \* orders_by_client_order_id_: client order id -> id
    byOrderId,  \* orders_by_order_id_: its keys are unique per id, so a set of ids
    pool,       \* Orders taken from the pool less Orders returned, by id
    mdQty,      \* feed_md_level_quantity_: price -> phantom quantity
    nextId,     \* utils::nextOrderId()
    nextPrio,   \* OrderBook::nextOrderPriority()
    dirty,      \* levels with a row in the symbol's md_level_update_cache_
    lastEnd     \* the last row of that cache carries F_END_EVENT

bookVars == <<l3, order, orders_, byClOrdId, byOrderId, pool, mdQty,
              nextId, nextPrio, dirty, lastEnd>>
indexVars == <<orders_, byClOrdId, byOrderId>>
l3Vars == <<l3, mdQty, dirty, lastEnd>>

-----------------------------------------------------------------------------
\* Reading the book.

Resting(side) == {i \in Ids : l3[i].qty > 0 /\ l3[i].side = side}

Better(side, a, b) == IF side = "BUY" THEN a > b ELSE a < b

\* The queue of a side: best price first, then the smaller priority.
Ahead(i, j) == \/ Better(l3[i].side, l3[i].price, l3[j].price)
               \/ l3[i].price = l3[j].price /\ l3[i].prio < l3[j].prio

IsFront(side, i) == /\ i \in Resting(side)
                    /\ \A j \in Resting(side) : j = i \/ Ahead(i, j)

\* Defect: isPriceBetter for isPriceBetterOrEqual, so equal prices do not trade.
ReachesBetterOnly(side, limit, levelPrice) ==
    limit = NullPrice \/ Better(Opposite(side), levelPrice, limit)

\* The level an order of this side and limit is willing to trade at.
Reaches(side, limit, levelPrice) ==
    \/ limit = NullPrice
    \/ levelPrice = limit
    \/ Better(Opposite(side), levelPrice, limit)

Reachable(side, limit) ==
    {j \in Resting(Opposite(side)) : Reaches(side, limit, l3[j].price)}

\* The units of quantity that an order, and a set of orders, has to trade; the
\* total is the number of units.
OrderUnits(i, qty) == {i} \X (1 .. qty)
Units(entries, S) == UNION {OrderUnits(i, entries[i].qty) : i \in S}

QtyOf(entries, S) == Cardinality(Units(entries, S))

TotalQty(S) == QtyOf(l3, S)

LevelQty(level) == TotalQty({i \in Resting(level[1]) : l3[i].price = level[2]})

\* Order::restsRemainder
RestsRemainder(o) == o.price # NullPrice /\ o.tif = "GTC"

-----------------------------------------------------------------------------
\* Changing the L3 book.  Every change of an entry notifies two observers: the
\* book itself, which keeps the phantom totals, and the symbol, which caches a
\* row for each level whose quantity changed.

\* OrderBook::onOrderUpdate for an order that is not in orders_.
PhantomTotals(md, oldPrice, oldQty, price, qty) ==
    LET moved == IF price # oldPrice /\ oldPrice \in DOMAIN md
                   THEN [md EXCEPT ![oldPrice] = @ - oldQty]
                   ELSE md
        base  == IF price = oldPrice THEN oldQty ELSE 0
    IN  IF price \in DOMAIN moved
          THEN [moved EXCEPT ![price] = @ + qty - base]
          ELSE IF qty = 0 THEN moved
          ELSE [p \in DOMAIN moved \cup {price} |-> IF p = price THEN qty ELSE moved[p]]

\* The levels whose quantity an entry's change touches.
TouchedLevels(old, new) ==
    IF old = new THEN {}
    ELSE {<<e.side, e.price>> : e \in {x \in {old, new} : x.qty > 0}}

\* One mutation of entry i: add, modify, execute or delete (new = Absent).
\* `own` is whether orders_ holds i while the book notifies its observers,
\* `last` whether the mutation closes the batch.
L3Set(i, new, own, last) ==
    LET old == l3[i]
    IN  /\ l3' = [l3 EXCEPT ![i] = new]
        /\ mdQty' = IF own \/ old = new THEN mdQty
                    ELSE PhantomTotals(mdQty, old.price, old.qty,
                             IF new.qty = 0 THEN old.price ELSE new.price, new.qty)
        /\ dirty' = dirty \cup TouchedLevels(old, new)
        /\ lastEnd' = IF old = new THEN lastEnd ELSE last

Entry(side, price, qty, prio) ==
    IF qty = 0 THEN Absent
    ELSE [side |-> side, price |-> price, qty |-> qty, prio |-> prio]

L3Execute(i, qty, own, last) ==
    L3Set(i, Entry(l3[i].side, l3[i].price, l3[i].qty - qty, l3[i].prio), own, last)

L3Delete(i, own, last) == L3Set(i, Absent, own, last)

-----------------------------------------------------------------------------
\* The simulator's indices and its order pool.

\* Registers a resting order under its three ids.
IndexOrder(i, o) ==
    /\ orders_' = orders_ \cup {i}
    /\ byClOrdId' = IF o.cl # NoClOrdId /\ byClOrdId[o.cl] = NoId
                      THEN [byClOrdId EXCEPT ![o.cl] = i] ELSE byClOrdId
    /\ byOrderId' = byOrderId \cup {i}

\* Defect: the client order id stays behind.
UnindexKeepsClientId(i) ==
    /\ orders_' = orders_ \ {i} /\ byOrderId' = byOrderId \ {i}
    /\ UNCHANGED byClOrdId

\* Erases an order from its three indices, in lockstep.
UnindexOrder(i) ==
    /\ orders_' = orders_ \ {i}
    /\ byClOrdId' = IF order[i].cl # NoClOrdId /\ i \in orders_
                      THEN [byClOrdId EXCEPT ![order[i].cl] = NoId] ELSE byClOrdId
    /\ byOrderId' = byOrderId \ {i}

\* Defect: the fill is taken off the leaves but not counted.
FilledUncounted(o, qty) == [o EXCEPT !.leaves = @ - qty]

\* utils::executeOrder: the fill accounting of one order.
Filled(o, qty) == [o EXCEPT !.leaves = @ - qty, !.cum = @ + qty]

\* freeOrder: the record goes back to the pool, and what it holds is no longer
\* the order's.
Recycled == [client |-> NoClient, cl |-> NoClOrdId, side |-> "BUY", price |-> 0,
             quantity |-> 0, leaves |-> 0, cum |-> 0, tif |-> "GTC",
             tag |-> CHOOSE t \in Tags : TRUE, prio |-> 0]

\* Defect: the Order never goes back.
FreeOrderLeaks(i) == UNCHANGED pool

FreeOrder(i) == pool' = [pool EXCEPT ![i] = @ - 1]

\* OrderBook::addOrder(Order*): index first, then the L3 add, so that the book
\* sees an own order.
AddOrder(i) ==
    /\ order' = [order EXCEPT ![i].prio = nextPrio]
    /\ nextPrio' = nextPrio + 1
    /\ IndexOrder(i, order[i])
    /\ L3Set(i, Entry(order[i].side, order[i].price, order[i].leaves, nextPrio), TRUE, TRUE)

\* Defect: the indices forget the order before the L3 book drops it.
DeleteIndicesFirst(i, last) == L3Delete(i, FALSE, last) /\ UnindexOrder(i)

\* Defect: the delete is always booked as mid-batch.
DeleteMidBatch(i, last) == L3Delete(i, i \in orders_, FALSE) /\ UnindexOrder(i)

\* OrderBook::deleteOrder(Order*, timestamp): the L3 delete first, while the
\* order still counts as the simulator's own, then the indices.
DeleteOrder(i, last) ==
    /\ L3Delete(i, i \in orders_, last)
    /\ UnindexOrder(i)
=============================================================================
