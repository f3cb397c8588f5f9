------------------------------ MODULE Exchange ------------------------------
(***************************************************************************)
(* The exchange thread of one venue working on one symbol: the client      *)
(* request handlers (exchange/exchange.cpp, exchange/symbol.cpp), the FIFO *)
(* matching engine they call (matching_engine/), and the order-by-order    *)
(* mirror of the venue's own book.                                         *)
(*                                                                         *)
(* The thread runs one handler to its end before it starts the next, and   *)
(* it alone touches the book.  A handler is a chain of steps driven by pc: *)
(* each step publishes at most one report about an order and changes the   *)
(* L3 book at most once, and the next handler starts only from "idle".     *)
(***************************************************************************)
EXTENDS OrderBook

CONSTANTS
    SmpModes,       \* the self-match prevention modes a venue may configure
    NewPrices,      \* prices of new orders; NullPrice is a market order
    NewQtys,        \* quantities of new orders
    NewTifs,        \* times in force of new orders
    AmendPrices,    \* prices an amendment may carry
    AmendQtys,      \* total quantities an amendment may carry
    MarketQtys,     \* quantities of the venue's own orders; {} without a mirror
    MaxPrio         \* bound: no new request once this many priorities are drawn

ASSUME SmpAssumption == SmpModes \subseteq {"NONE", "CANCEL_RESTING", "CANCEL_NEWEST"}
ASSUME InputsAssumption ==
    /\ NewPrices \subseteq AllPrices /\ AmendPrices \subseteq AllPrices
    /\ NewQtys \subseteq Nat /\ AmendQtys \subseteq Nat /\ MarketQtys \subseteq Nat \ {0}
    /\ NewTifs \subseteq TimesInForce
    /\ MaxPrio \in Nat

Statuses == {"PENDING_NEW", "NEW", "PARTIALLY_FILLED", "FILLED", "REPLACED",
             "CANCELED", "REJECTED", "PENDING_REPLACE", "PENDING_CANCEL"}
Terminal == {"FILLED", "CANCELED", "REJECTED"}

\* What the response queue carries, reduced to what a client acts on.
Reports == [order : Ids \cup {NoId}, status : Statuses, cum : Nat, leaves : Nat]

Kinds == {"none", "new", "modify", "cancel", "market", "replay"}

\* The request or event in progress.  `qty` is the amendment's total quantity or
\* what is left of the feed's aggressor, `tag` the tag an amendment displaced.
Handlers == [kind : Kinds, id : Ids \cup {NoId}, side : Sides,
             price : AllPrices, qty : Nat, prio : Nat, requeue : BOOLEAN,
             tag : Tags, ref : Ids \cup {NoId}]

Phases == {"idle", "smp", "fok", "replace", "zero", "match", "rest", "cancel",
           "feed", "packet", "flush"}

VARIABLES
    smp,      \* the venue's self-match prevention mode
    pc,       \* where the current handler is
    cur,      \* the current handler's request or event
    emit,     \* the reports the last step published
    told,     \* what the engine's last report on each order told its owner
    accTag,   \* the tag of the last request each order accepted
    pub,      \* the quantity last published for each level
    mkt       \* the venue's own orders, as its feed last reported them

vars == <<l3, order, orders_, byClOrdId, byOrderId, pool, mdQty, nextId,
          nextPrio, dirty, lastEnd, smp, pc, cur, emit, told, accTag, pub, mkt>>

NoHandler == [kind |-> "none", id |-> NoId, side |-> "BUY", price |-> NullPrice,
              qty |-> 0, prio |-> 0, requeue |-> FALSE, tag |-> Recycled.tag,
              ref |-> NoId]
Untold == [status |-> "PENDING_NEW", cum |-> 0, leaves |-> 0]

Init ==
    /\ l3 = [i \in Ids |-> Absent]
    /\ order = [i \in Ids |-> Recycled]
    /\ orders_ = {} /\ byOrderId = {}
    /\ byClOrdId = [c \in ClOrdIds |-> NoId]
    /\ pool = [i \in Ids |-> 0]
    /\ mdQty = [p \in {} |-> 0]
    /\ nextId = 1 /\ nextPrio = 1
    /\ dirty = {} /\ lastEnd = TRUE
    /\ smp \in SmpModes
    /\ pc = "idle" /\ cur = NoHandler
    /\ emit = {}
    /\ told = [i \in Ids |-> Untold]
    /\ accTag = [i \in Ids |-> Recycled.tag]
    /\ pub = [lv \in Levels |-> 0]
    /\ mkt = [i \in Ids |-> Absent]

-----------------------------------------------------------------------------
\* Publishing reports.

Report(i, status, cum, leaves) ==
    [order |-> i, status |-> status, cum |-> cum, leaves |-> leaves]

\* Defect: the last fill is reported like any other.
ExecutionAlwaysPartial(i, o) == Report(i, "PARTIALLY_FILLED", o.cum, o.leaves)

\* MatchingEngine::publishOrderExecution and publishOrderCancel
Execution(i, o) ==
    Report(i, IF o.leaves > 0 THEN "PARTIALLY_FILLED" ELSE "FILLED", o.cum, o.leaves)
Cancellation(i, o) == Report(i, "CANCELED", o.cum, 0)
Rejection(i) == Report(i, "REJECTED", 0, 0)

View(r) == [status |-> r.status, cum |-> r.cum, leaves |-> r.leaves]

Silent == emit' = {} /\ UNCHANGED told
\* A report of the order's state: the owner now believes it.
Tell(r) == emit' = {r} /\ told' = [told EXCEPT ![r.order] = View(r)]
TellBoth(r, s) ==
    emit' = {r, s} /\ told' = [told EXCEPT ![r.order] = View(r), ![s.order] = View(s)]
\* A pending notice or the reject of a request: says nothing of the order.
Notify(r) == emit' = {r} /\ UNCHANGED told

-----------------------------------------------------------------------------
\* Client requests: the handlers up to the call into the matching engine.

\* Defect: the aggressor trades all it has against any resting order.
LesserIsFirst(a, b) == a

Lesser(a, b) == IF a <= b THEN a ELSE b

\* handleNewOrderRequest: an accepted request takes an Order from the pool and
\* is reported as pending before it is matched.
NewOrder(client, cl, side, price, qty, tif, tag) ==
    LET i == nextId
        o == [client |-> client, cl |-> cl, side |-> side, price |-> price,
              quantity |-> qty, leaves |-> qty, cum |-> 0, tif |-> tif,
              tag |-> tag, prio |-> 0]
    IN  /\ pc = "idle" /\ nextId <= MaxId /\ nextPrio <= MaxPrio
        /\ cl # NoClOrdId => byClOrdId[cl] = NoId
        /\ order' = [order EXCEPT ![i] = o]
        /\ nextId' = nextId + 1
        /\ pool' = [pool EXCEPT ![i] = @ + 1]
        /\ accTag' = [accTag EXCEPT ![i] = tag]
        /\ cur' = [NoHandler EXCEPT !.kind = "new", !.id = i, !.side = side,
                                    !.price = price, !.qty = qty, !.tag = tag]
        /\ pc' = "smp"
        /\ Notify(Report(i, "PENDING_NEW", 0, qty))
        /\ UNCHANGED <<l3Vars, indexVars, nextPrio, smp, pub, mkt>>

\* The ids a request may name its order by: a client order id when it has one,
\* else the exchange's order id.
Lookup(cl, oid) ==
    IF cl # NoClOrdId THEN byClOrdId[cl]
    ELSE IF oid \in byOrderId THEN oid ELSE NoId

\* Defect: compares the new total with what is left of the order.
RequeuesOnLeaves(o, price, qty) == price # o.price \/ qty > o.leaves

\* A new price or a larger total loses an order its place.
Requeues(o, price, qty) == price # o.price \/ qty > o.quantity

\* handleModifyOrderRequest: sendOrderReplacePending reports no cumulative
\* quantity, whatever the order has filled.
ModifyOrder(cl, oid, price, qty, tag) ==
    LET i == Lookup(cl, oid)
    IN  /\ pc = "idle" /\ i # NoId /\ nextPrio <= MaxPrio
        /\ order' = [order EXCEPT ![i].tag = tag]
        /\ cur' = [NoHandler EXCEPT !.kind = "modify", !.id = i, !.side = order[i].side,
                       !.price = price, !.qty = qty, !.tag = order[i].tag,
                       !.requeue = Requeues(order[i], price, qty),
                       !.ref = IF cl = NoClOrdId THEN i ELSE NoId]
        /\ pc' = "smp"
        /\ Notify(Report(i, "PENDING_REPLACE", 0, order[i].leaves))
        /\ UNCHANGED <<l3Vars, indexVars, pool, nextId, nextPrio, smp, accTag, pub, mkt>>

\* handleCancelOrderRequest
CancelOrder(cl, oid, tag) ==
    LET i == Lookup(cl, oid)
    IN  /\ pc = "idle" /\ i # NoId
        /\ order' = [order EXCEPT ![i].tag = tag]
        /\ cur' = [NoHandler EXCEPT !.kind = "cancel", !.id = i, !.tag = order[i].tag]
        /\ pc' = "cancel"
        /\ Notify(Report(i, "PENDING_CANCEL", 0, order[i].leaves))
        /\ UNCHANGED <<l3Vars, indexVars, pool, nextId, nextPrio, smp, accTag, pub, mkt>>

\* A request for an unknown symbol, a client order id in use, or an order that
\* is not there: one REJECTED with whatever order id the request carried, and
\* the handler returns.
RejectRequest(ref) ==
    /\ pc = "idle"
    /\ Notify(Rejection(ref))
    /\ UNCHANGED <<bookVars, smp, pc, cur, accTag, pub, mkt>>

-----------------------------------------------------------------------------
\* prepareOrder: what a client order goes through before it matches.

SelfMatch(i, j) == /\ j \in orders_
                   /\ order[i].client # NoClient
                   /\ order[i].client = order[j].client

\* wouldSelfMatch: does the quantity reach a resting order of the same client?
WouldSelfMatch(i, limit, qty) ==
    LET S == Reachable(order[i].side, limit)
    IN  \E j \in S : SelfMatch(i, j) /\ TotalQty({k \in S : Ahead(k, j)}) < qty

\* Defect: the amendment's change of quantity is ignored.
EffectiveQtyIgnoresAmendment == order[cur.id].leaves

\* Defect: the amendment's total is scanned, filled or not.
EffectiveQtyIsTotal == cur.qty

\* The quantity that is going to trade, before the amendment is applied.
EffectiveQty ==
    LET o == order[cur.id]
        q == IF cur.kind = "modify" THEN o.leaves + cur.qty - o.quantity ELSE o.leaves
    IN  IF q < 0 THEN 0 ELSE q

NewestSelfMatches ==
    /\ smp = "CANCEL_NEWEST"
    /\ EffectiveQty > 0
    /\ WouldSelfMatch(cur.id, cur.price, EffectiveQty)

\* Defect: the client's own orders count as liquidity.
CountsOwnOrders(i, limit, qty) == TotalQty(Reachable(order[i].side, limit)) >= qty

\* The resting orders the limit reaches that self-match prevention sets apart.
OwnInReach(i, limit) ==
    {j \in Reachable(order[i].side, limit) : smp # "NONE" /\ SelfMatch(i, j)}

\* The liquidity canFillCompletely counts: own orders do not count, and under
\* CANCEL_NEWEST nothing behind one of them does.
Countable(i, limit) ==
    {k \in Reachable(order[i].side, limit) \ OwnInReach(i, limit) :
        smp = "CANCEL_NEWEST" => \A j \in OwnInReach(i, limit) : Ahead(k, j)}

\* canFillCompletely: nothing is fillable either when an own order comes first.
CanFillCompletely(i, limit, qty) ==
    /\ TotalQty(Countable(i, limit)) >= qty
    /\ smp = "CANCEL_NEWEST" /\ OwnInReach(i, limit) # {} => Countable(i, limit) # {}

\* The order at the front of the opposite side, when the limit reaches it.
Hit(side, limit, j) == IsFront(Opposite(side), j) /\ Reaches(side, limit, l3[j].price)

\* Defect: the rejected amendment's tag stays on the order.
AmendmentKeepsTag == UNCHANGED order

\* A rejected amendment leaves its order under the tag it last accepted.
RestoreTag == order' = [order EXCEPT ![cur.id].tag = cur.tag]

\* A reject from the engine.  A new order goes back to the pool, and the event
\* closes on its last level row; an amended order keeps resting, under the tag
\* of the last request it accepted.  The reject of a new order carries no id of
\* the exchange's, only its owner's.
RejectCurrent ==
    LET i == cur.id
    IN  /\ pc' = "flush"
        /\ \/ /\ cur.kind = "new"
              /\ order' = [order EXCEPT ![i] = Recycled]
              /\ FreeOrder(i)
              /\ lastEnd' = TRUE
              /\ emit' = {Rejection(NoId)}
              /\ told' = [told EXCEPT ![i] = View(Rejection(NoId))]
           \/ /\ cur.kind = "modify"
              /\ RestoreTag
              /\ Notify(Rejection(cur.ref))
              /\ UNCHANGED <<pool, lastEnd>>
        /\ UNCHANGED <<l3, mdQty, dirty, indexVars, nextId, nextPrio, smp, cur, accTag, pub, mkt>>

\* The backstop in the matching loop: the front of the book is the client's own
\* and the mode says the incoming order loses.
LateSelfMatch ==
    /\ pc = "match" /\ order[cur.id].leaves > 0 /\ smp = "CANCEL_NEWEST"
    /\ \E j \in Ids : Hit(order[cur.id].side, cur.price, j) /\ SelfMatch(cur.id, j)

RejectSelfMatch ==
    /\ IF pc = "smp" THEN NewestSelfMatches ELSE LateSelfMatch
    /\ RejectCurrent

\* STEP 0 passed: a new order is acknowledged.
Acknowledge ==
    LET o == order[cur.id]
    IN  /\ pc = "smp" /\ ~NewestSelfMatches
        /\ pc' = "fok"
        /\ IF cur.kind = "new" THEN Tell(Report(cur.id, "NEW", 0, o.leaves)) ELSE Silent
        /\ UNCHANGED <<bookVars, smp, cur, accTag, pub, mkt>>

\* STEP 1 failed: a fill-or-kill order is cancelled whole and never rests.
KillFok ==
    LET i == cur.id
    IN  /\ pc = "fok"
        /\ order[i].tif = "FOK" /\ ~CanFillCompletely(i, cur.price, cur.qty)
        /\ pc' = "flush"
        /\ Tell(Cancellation(i, order[i]))
        /\ order' = [order EXCEPT ![i] = Recycled]
        /\ FreeOrder(i)
        /\ lastEnd' = TRUE
        /\ UNCHANGED <<l3, mdQty, dirty, indexVars, nextId, nextPrio, smp, cur, accTag, pub, mkt>>

PassFok ==
    LET o == order[cur.id]
    IN  /\ pc = "fok"
        /\ o.tif = "FOK" => CanFillCompletely(cur.id, cur.price, cur.qty)
        /\ pc' = IF cur.kind = "modify" THEN "replace"
                 ELSE IF o.leaves = 0 THEN "zero" ELSE "match"
        /\ Silent
        /\ UNCHANGED <<bookVars, smp, cur, accTag, pub, mkt>>

\* STEP 2: the amendment is written onto the order and reported.  What has
\* filled stays filled.
ApplyReplace ==
    LET i == cur.id
        o == order[i]
        leaves == IF o.cum >= cur.qty THEN 0 ELSE cur.qty - o.cum
    IN  /\ pc = "replace"
        /\ order' = [order EXCEPT ![i].quantity = cur.qty, ![i].price = cur.price,
                                  ![i].leaves = leaves]
        /\ accTag' = [accTag EXCEPT ![i] = o.tag]
        /\ pc' = IF leaves = 0 THEN "zero" ELSE "match"
        /\ Tell(Report(i, "REPLACED", o.cum, leaves))
        /\ UNCHANGED <<l3Vars, indexVars, pool, nextId, nextPrio, smp, cur, pub, mkt>>

\* Nothing left to trade: reported cancelled, and the handler goes on to take
\* it off the book.
CancelZeroLeaves ==
    /\ pc = "zero"
    /\ pc' = "rest"
    /\ Tell(Cancellation(cur.id, order[cur.id]))
    /\ UNCHANGED <<bookVars, smp, cur, accTag, pub, mkt>>

-----------------------------------------------------------------------------
\* FifoMatchingEngine: the matching loop, one turn of it per step.

PreventsMatch(i, j) == smp # "NONE" /\ SelfMatch(i, j)

\* The resting side of a fill of j (OrderBook::executeOrder, and deleteOrder by
\* the engine once nothing is left): its accounting, its indices, its record.
FillIndices(j, qty) ==
    IF j \in orders_ /\ order[j].leaves = qty
      THEN UnindexOrder(j) /\ FreeOrder(j)
      ELSE UNCHANGED <<indexVars, pool>>

RestingAfter(j, qty) ==
    IF j \notin orders_ THEN order[j]
    ELSE IF order[j].leaves = qty THEN Recycled
    ELSE Filled(order[j], qty)

\* fillResting: both sides of a client's trade are filled and reported.
Fill(j) ==
    LET i   == cur.id
        qty == Lesser(order[i].leaves, l3[j].qty)
        own == j \in orders_
    IN  /\ pc = "match" /\ order[i].leaves > 0
        /\ Hit(order[i].side, cur.price, j) /\ ~PreventsMatch(i, j)
        /\ L3Execute(j, qty, own, order[i].leaves = qty)
        /\ order' = [order EXCEPT ![i] = Filled(@, qty), ![j] = RestingAfter(j, qty)]
        /\ FillIndices(j, qty)
        /\ IF own THEN TellBoth(Execution(i, Filled(order[i], qty)),
                                Execution(j, Filled(order[j], qty)))
                  ELSE Tell(Execution(i, Filled(order[i], qty)))
        /\ UNCHANGED <<nextId, nextPrio, smp, pc, cur, accTag, pub, mkt>>

\* Defect: the resting order is reported cancelled and left in the book.
CancelRestingOnlyReports(j) ==
    /\ pc = "match" /\ order[cur.id].leaves > 0 /\ smp = "CANCEL_RESTING"
    /\ Hit(order[cur.id].side, cur.price, j) /\ PreventsMatch(cur.id, j)
    /\ Tell(Cancellation(j, order[j]))
    /\ UNCHANGED <<bookVars, smp, pc, cur, accTag, pub, mkt>>

\* handleSelfMatch under CANCEL_RESTING: the client's own resting order is
\* cancelled, reported and returned to the pool, and the loop goes on.
CancelResting(j) ==
    /\ pc = "match" /\ order[cur.id].leaves > 0
    /\ Hit(order[cur.id].side, cur.price, j) /\ PreventsMatch(cur.id, j)
    /\ smp = "CANCEL_RESTING"
    /\ DeleteOrder(j, FALSE)
    /\ order' = [order EXCEPT ![j] = Recycled]
    /\ FreeOrder(j)
    /\ Tell(Cancellation(j, order[j]))
    /\ UNCHANGED <<nextId, nextPrio, smp, pc, cur, accTag, pub, mkt>>

\* Defect: whatever cannot rest is reported cancelled, also when nothing is left.
EndMatchCancelsFilled ==
    LET o == order[cur.id]
    IN  /\ pc = "match"
        /\ o.leaves > 0 => Reachable(o.side, cur.price) = {}
        /\ pc' = "rest"
        /\ IF ~RestsRemainder(o) THEN Tell(Cancellation(cur.id, o)) ELSE Silent
        /\ UNCHANGED <<bookVars, smp, cur, accTag, pub, mkt>>

\* The loop ends; cancelUnrestableRemainder reports what cannot rest.
EndMatch ==
    LET o == order[cur.id]
    IN  /\ pc = "match"
        /\ o.leaves > 0 => Reachable(o.side, cur.price) = {}
        /\ pc' = "rest"
        /\ IF o.leaves > 0 /\ ~RestsRemainder(o) THEN Tell(Cancellation(cur.id, o)) ELSE Silent
        /\ UNCHANGED <<bookVars, smp, cur, accTag, pub, mkt>>

-----------------------------------------------------------------------------
\* Symbol::addOrder, modifyOrder and cancelOrder after the engine returned.

RestNew ==
    LET i == cur.id
    IN  /\ pc = "rest" /\ cur.kind = "new"
        /\ order[i].leaves > 0 /\ RestsRemainder(order[i])
        /\ AddOrder(i)
        /\ pc' = "flush" /\ Silent
        /\ UNCHANGED <<pool, nextId, smp, cur, accTag, pub, mkt>>

\* Nothing rests: the event closes on its last level row and the Order goes
\* back to the pool.
DropNew ==
    LET i == cur.id
    IN  /\ pc = "rest" /\ cur.kind = "new"
        /\ ~(order[i].leaves > 0 /\ RestsRemainder(order[i]))
        /\ order' = [order EXCEPT ![i] = Recycled]
        /\ FreeOrder(i)
        /\ lastEnd' = TRUE
        /\ pc' = "flush" /\ Silent
        /\ UNCHANGED <<l3, mdQty, dirty, indexVars, nextId, nextPrio, smp, cur, accTag, pub, mkt>>

\* A new price or a larger quantity draws a new place in the queue; the book
\* rests the leaves, and an order with none leaves the book and the indices.
RestModified ==
    LET i    == cur.id
        o    == order[i]
        prio == IF cur.requeue THEN nextPrio ELSE o.prio
    IN  /\ pc = "rest" /\ cur.kind = "modify"
        /\ L3Set(i, Entry(o.side, o.price, o.leaves, prio), i \in orders_, TRUE)
        /\ nextPrio' = IF cur.requeue THEN nextPrio + 1 ELSE nextPrio
        /\ order' = [order EXCEPT ![i] = IF o.leaves = 0 THEN Recycled ELSE [o EXCEPT !.prio = prio]]
        /\ IF o.leaves = 0 THEN UnindexOrder(i) /\ FreeOrder(i)
                           ELSE UNCHANGED <<indexVars, pool>>
        /\ pc' = "flush" /\ Silent
        /\ UNCHANGED <<nextId, smp, cur, accTag, pub, mkt>>

\* Defect: the cancel handler returns without flushing the market data caches.
CancelWithoutFlush ==
    LET i == cur.id
    IN  /\ pc = "cancel"
        /\ DeleteOrder(i, TRUE)
        /\ order' = [order EXCEPT ![i] = Recycled]
        /\ FreeOrder(i)
        /\ Tell(Cancellation(i, order[i]))
        /\ pc' = "idle" /\ cur' = NoHandler
        /\ UNCHANGED <<nextId, nextPrio, smp, accTag, pub, mkt>>

\* Symbol::cancelOrder: off the book first, then the report, then the pool.
CompleteCancel ==
    LET i == cur.id
    IN  /\ pc = "cancel"
        /\ DeleteOrder(i, TRUE)
        /\ order' = [order EXCEPT ![i] = Recycled]
        /\ FreeOrder(i)
        /\ Tell(Cancellation(i, order[i]))
        /\ pc' = "flush"
        /\ UNCHANGED <<nextId, nextPrio, smp, cur, accTag, pub, mkt>>

\* flushMarketDataCaches, the last call of every handler that changed the book,
\* and of every packet of market events (flushMarketEvents).
Flush ==
    /\ pc \in {"flush", "packet"}
    /\ pub' = [lv \in Levels |-> IF lv \in dirty THEN LevelQty(lv) ELSE pub[lv]]
    /\ dirty' = {} /\ lastEnd' = TRUE
    /\ pc' = "idle" /\ cur' = NoHandler
    /\ Silent
    /\ UNCHANGED <<l3, order, indexVars, pool, mdQty, nextId, nextPrio, smp, accTag, mkt>>

-----------------------------------------------------------------------------
\* The mirror of the venue's own orders.  A packet is a run of events; client
\* requests wait until it has been flushed.

InPacket == pc \in {"idle", "packet"}

\* The venue's own book is never crossed.
VenueUncrossed(side, price, except) ==
    \A k \in Ids \ {except} : mkt[k].qty > 0 /\ mkt[k].side = Opposite(side)
                                => ~Reaches(side, price, mkt[k].price)

\* The venue reports order i; the exchange matches it as an aggressor first.
Aggress(i, e) ==
    /\ mkt' = [mkt EXCEPT ![i] = e]
    /\ cur' = [NoHandler EXCEPT !.kind = "market", !.id = i, !.side = e.side,
                                !.price = e.price, !.qty = e.qty, !.prio = e.prio]
    /\ pc' = "feed"

\* applyMarketOrder, ACTION_NEW
MarketNew(side, price, qty) ==
    /\ InPacket /\ nextId <= MaxId /\ nextPrio <= MaxPrio
    /\ VenueUncrossed(side, price, NoId)
    /\ Aggress(nextId, Entry(side, price, qty, nextPrio))
    /\ nextId' = nextId + 1 /\ nextPrio' = nextPrio + 1
    /\ Silent
    /\ UNCHANGED <<l3Vars, order, indexVars, pool, smp, accTag, pub>>

\* ACTION_CHANGE in place: the venue's quantity wins.
MarketChange(i, qty) ==
    /\ InPacket /\ mkt[i].qty > 0 /\ l3[i].qty > 0
    /\ mkt' = [mkt EXCEPT ![i].qty = qty]
    /\ L3Set(i, [l3[i] EXCEPT !.qty = qty], i \in orders_, TRUE)
    /\ pc' = "packet" /\ Silent
    /\ UNCHANGED <<order, indexVars, pool, nextId, nextPrio, smp, cur, accTag, pub>>

\* ACTION_CHANGE of an order a client took entirely: it rests again under the
\* priority it had.
MarketRestore(i, qty) ==
    /\ InPacket /\ mkt[i].qty > 0 /\ l3[i].qty = 0
    /\ Aggress(i, [mkt[i] EXCEPT !.qty = qty])
    /\ Silent
    /\ UNCHANGED <<bookVars, smp, accTag, pub>>

\* ACTION_CHANGE with requeue: a new price or place, under a new priority.
MarketRequeue(i, price, qty) ==
    /\ InPacket /\ mkt[i].qty > 0 /\ nextPrio <= MaxPrio
    /\ VenueUncrossed(mkt[i].side, price, i)
    /\ L3Delete(i, i \in orders_, TRUE)
    /\ Aggress(i, Entry(mkt[i].side, price, qty, nextPrio))
    /\ nextPrio' = nextPrio + 1
    /\ Silent
    /\ UNCHANGED <<order, indexVars, pool, nextId, smp, accTag, pub>>

\* Defect: the venue's delete does not reach the simulator's book.
MarketDeleteForgotten(i) ==
    /\ InPacket /\ mkt[i].qty > 0
    /\ mkt' = [mkt EXCEPT ![i] = Absent]
    /\ pc' = "packet" /\ Silent
    /\ UNCHANGED <<bookVars, smp, cur, accTag, pub>>

\* ACTION_DELETE: the order may already be gone from the book.
MarketDelete(i) ==
    /\ InPacket /\ mkt[i].qty > 0
    /\ mkt' = [mkt EXCEPT ![i] = Absent]
    /\ L3Delete(i, i \in orders_, TRUE)
    /\ pc' = "packet" /\ Silent
    /\ UNCHANGED <<order, indexVars, pool, nextId, nextPrio, smp, cur, accTag, pub>>

\* replayMarketTrade: a print against the venue's best resting price.
MarketTrade(side, price, qty) ==
    LET hit == {k \in Ids : mkt[k].qty > 0 /\ mkt[k].side = Opposite(side)}
    IN  /\ InPacket /\ nextId <= MaxId
        /\ \E k \in hit : mkt[k].price = price
        /\ \A k \in hit : ~Better(Opposite(side), mkt[k].price, price)
        /\ qty <= QtyOf(mkt, {k \in hit : mkt[k].price = price})
        /\ nextId' = nextId + 1
        /\ cur' = [NoHandler EXCEPT !.kind = "replay", !.id = nextId, !.side = side,
                                    !.price = price, !.qty = qty]
        /\ pc' = "feed" /\ Silent
        /\ UNCHANGED <<l3Vars, order, indexVars, pool, nextPrio, smp, accTag, pub, mkt>>

\* fillRestingFromFeed: only a client's resting order has anyone to tell.
FeedFill(j) ==
    LET qty == Lesser(cur.qty, l3[j].qty)
        own == j \in orders_
    IN  /\ pc = "feed" /\ cur.qty > 0
        /\ Hit(cur.side, cur.price, j)
        /\ cur' = [cur EXCEPT !.qty = @ - qty]
        /\ L3Execute(j, qty, own, cur.qty = qty)
        /\ order' = [order EXCEPT ![j] = RestingAfter(j, qty)]
        /\ FillIndices(j, qty)
        /\ IF own THEN Tell(Execution(j, Filled(order[j], qty))) ELSE Silent
        /\ UNCHANGED <<nextId, nextPrio, smp, pc, accTag, pub, mkt>>

FeedDone == cur.qty > 0 => Reachable(cur.side, cur.price) = {}

\* Defect: the remainder rests under a priority of its own.
RestUnderFreshPriority ==
    /\ pc = "feed" /\ FeedDone /\ cur.kind = "market" /\ cur.qty > 0
    /\ L3Set(cur.id, Entry(cur.side, cur.price, cur.qty, nextPrio), cur.id \in orders_, TRUE)
    /\ nextPrio' = nextPrio + 1
    /\ pc' = "packet" /\ cur' = NoHandler /\ Silent
    /\ UNCHANGED <<order, indexVars, pool, nextId, smp, accTag, pub, mkt>>

\* restMarketOrder: what is left of the venue's order rests in its place.
RestMarketOrder ==
    /\ pc = "feed" /\ FeedDone /\ cur.kind = "market" /\ cur.qty > 0
    /\ L3Set(cur.id, Entry(cur.side, cur.price, cur.qty, cur.prio), cur.id \in orders_, TRUE)
    /\ pc' = "packet" /\ cur' = NoHandler /\ Silent
    /\ UNCHANGED <<order, indexVars, pool, nextId, nextPrio, smp, accTag, pub, mkt>>

\* A print's remainder, or an order a client took whole, rests nothing.
EndFeed ==
    /\ pc = "feed" /\ FeedDone /\ (cur.kind = "replay" \/ cur.qty = 0)
    /\ pc' = "packet" /\ cur' = NoHandler /\ Silent
    /\ UNCHANGED <<bookVars, smp, accTag, pub, mkt>>

-----------------------------------------------------------------------------
Request ==
    \/ \E client \in Clients \cup {NoClient}, cl \in ClOrdIds \cup {NoClOrdId},
          side \in Sides, price \in NewPrices, qty \in NewQtys, tif \in NewTifs,
          tag \in Tags : NewOrder(client, cl, side, price, qty, tif, tag)
    \/ \E cl \in ClOrdIds \cup {NoClOrdId}, oid \in Ids, price \in AmendPrices,
          qty \in AmendQtys, tag \in Tags : ModifyOrder(cl, oid, price, qty, tag)
    \/ \E cl \in ClOrdIds \cup {NoClOrdId}, oid \in Ids, tag \in Tags :
          CancelOrder(cl, oid, tag)
    \/ \E ref \in Ids \cup {NoId} : RejectRequest(ref)

MarketEvent ==
    \/ \E side \in Sides, price \in Prices, qty \in MarketQtys : MarketNew(side, price, qty)
    \/ \E i \in Ids, qty \in MarketQtys : MarketChange(i, qty)
    \/ \E i \in Ids, qty \in MarketQtys : MarketRestore(i, qty)
    \/ \E i \in Ids, price \in Prices, qty \in MarketQtys : MarketRequeue(i, price, qty)
    \/ \E i \in Ids : MarketDelete(i)
    \/ \E side \in Sides, price \in Prices, qty \in MarketQtys : MarketTrade(side, price, qty)

\* The steps a handler takes once it has started.
Step ==
    \/ RejectSelfMatch \/ Acknowledge \/ KillFok \/ PassFok \/ ApplyReplace
    \/ CancelZeroLeaves
    \/ \E j \in Ids : Fill(j) \/ CancelResting(j)
    \/ EndMatch \/ RestNew \/ DropNew \/ RestModified \/ CompleteCancel \/ Flush
    \/ \E j \in Ids : FeedFill(j)
    \/ RestMarketOrder \/ EndFeed

Next == Request \/ MarketEvent \/ Step

Spec == Init /\ [][Next]_vars

\* The exchange thread keeps running: a handler that has a step to take takes it.
FairSpec == Spec /\ WF_vars(Step)

-----------------------------------------------------------------------------
\* Properties.

\* Every variable stays in its domain: no fill takes more than an order or a
\* book entry has (quantities never go negative), and no id is outside the range
\* the two counters have handed out.
TypeOK ==
    /\ l3 \in [Ids -> BookEntry]
    /\ order \in [Ids -> Order]
    /\ orders_ \subseteq Ids /\ byOrderId \subseteq Ids
    /\ byClOrdId \in [ClOrdIds -> Ids \cup {NoId}]
    /\ pool \in [Ids -> Int]
    /\ DOMAIN mdQty \subseteq AllPrices /\ \A p \in DOMAIN mdQty : mdQty[p] \in Int
    /\ nextId \in 1 .. MaxId + 1 /\ nextPrio \in Nat \ {0}
    /\ dirty \subseteq Levels /\ lastEnd \in BOOLEAN
    /\ smp \in SmpModes
    /\ pc \in Phases /\ cur \in Handlers
    /\ emit \subseteq Reports
    /\ told \in [Ids -> [status : Statuses, cum : Nat, leaves : Nat]]
    /\ accTag \in [Ids -> Tags]
    /\ DOMAIN pub = Levels
    /\ mkt \in [Ids -> BookEntry]

\* The book is never crossed, not even while a handler is at work: every bid is
\* below every ask, client and phantom orders alike.
Uncrossed ==
    \A i \in Resting("BUY"), j \in Resting("SELL") : l3[i].price < l3[j].price

\* A simulator order and its L3 entry describe the same order: same side, price
\* and place, the entry rests exactly the leaves, and leaves and fills add up to
\* the total.  While an order is being amended its entry still shows the state
\* it had before, so the amended order itself is exempt until it rests again.
BookAgreesWithOrders ==
    \A i \in orders_ : ~(cur.kind = "modify" /\ cur.id = i /\ pc \in {"zero", "match", "rest"}) =>
        /\ l3[i].side = order[i].side /\ l3[i].price = order[i].price
        /\ l3[i].qty = order[i].leaves /\ l3[i].prio = order[i].prio
        /\ order[i].leaves > 0
        /\ order[i].leaves + order[i].cum = order[i].quantity

\* The three indices are kept in lockstep: an order is under its exchange id and
\* under its client order id exactly while it is a simulator order, and no index
\* leads to an order that went back to the pool.
IndicesInLockstep ==
    /\ byOrderId = orders_
    /\ \A i \in orders_ : order[i].cl # NoClOrdId => byClOrdId[order[i].cl] = i
    /\ \A c \in ClOrdIds : byClOrdId[c] # NoId =>
            byClOrdId[c] \in orders_ /\ order[byClOrdId[c]].cl = c

\* An Order that is neither resting nor in the hands of the handler that created
\* it is in the pool: none leaks and none is freed twice, whichever way it ended
\* (filled as aggressor or resting, killed, cancelled by either side, rejected).
ReturnedOnce ==
    \A i \in Ids :
        pool[i] = IF i \in orders_ \/ (cur.id = i /\ cur.kind = "new" /\ pc # "flush")
                  THEN 1 ELSE 0

\* feed_md_level_quantity_ is the phantom quantity at each price, at every step:
\* the observer classifies an order by orders_ at the instant the L3 book
\* changes, so the indices and the book must change in the right order.
PhantomTotalsExact ==
    LET phantoms(p) == {i \in Ids \ orders_ : l3[i].qty > 0 /\ l3[i].price = p}
    IN  /\ \A p \in DOMAIN mdQty : mdQty[p] = TotalQty(phantoms(p))
        /\ \A p \in AllPrices \ DOMAIN mdQty : phantoms(p) = {}

\* What the last report told an order's owner is the truth between handlers: an
\* owner who was told of a live order has it resting with those fills and
\* leaves, and one who was told it ended has nothing left in the book.
OwnersKnow ==
    pc = "idle" => \A i \in Ids :
        IF i \in orders_
          THEN /\ told[i].status \notin Terminal /\ told[i] # Untold
               /\ told[i].cum = order[i].cum /\ told[i].leaves = order[i].leaves
          ELSE told[i].status \in Terminal \/ told[i] = Untold

\* CANCEL_NEWEST decides a self-match before it has said or done anything: the
\* backstop in the loop is never reached.
SelfMatchDecidedUpFront == ~LateSelfMatch

\* The depth CANCEL_NEWEST scans to is the quantity the order is going to match:
\* a partly filled order's amendment counts what is left of it, not its total.
ScansWhatTrades ==
    pc = "smp" => EffectiveQty = IF order[cur.id].cum >= cur.qty THEN 0
                                 ELSE cur.qty - order[cur.id].cum

\* A fill-or-kill order that passed its pre-check fills completely: the match
\* never ends with some of it left, also when CANCEL_RESTING removes its owner's
\* orders on the way.
FokFillsCompletely ==
    pc = "rest" /\ order[cur.id].tif = "FOK" => order[cur.id].leaves = 0

\* Between handlers every subscriber has the book as it is: no handler leaves a
\* level change in the cache, where only a later request would publish it.
PublishedBookIsCurrent ==
    pc = "idle" => \A lv \in Levels : pub[lv] = LevelQty(lv)

\* The batch of level rows a client request publishes is closed: its last row
\* carries F_END_EVENT, whether the order rested, filled short or was cancelled.
EventsAreClosed == pc = "flush" /\ dirty # {} => lastEnd

\* A phantom order never shows more than its venue reports.
MirrorWithinVenue ==
    \A i \in Ids \ orders_ : l3[i].qty > 0 =>
        /\ l3[i].qty <= mkt[i].qty
        /\ l3[i].side = mkt[i].side /\ l3[i].price = mkt[i].price /\ l3[i].prio = mkt[i].prio

\* A venue order that crosses the simulator's book crosses a client's order: it
\* never trades with phantom liquidity of its own venue.
MarketOrdersFillClients ==
    pc = "feed" /\ cur.kind = "market" /\ cur.qty > 0 =>
        \A j \in Ids : Hit(cur.side, cur.price, j) => j \in orders_

\* A resting order carries the tag of the last request it accepted; a rejected
\* amendment leaves no trace of its own tag.
TagIsAccepted == pc = "idle" => \A i \in orders_ : order[i].tag = accTag[i]

\* The exchange implements the life of an order: whatever the handlers, the book
\* and the engine do, the reports they publish are those of module OrderLifecycle.
\* An order is first heard of as NEW or REJECTED, every fill moves the same
\* quantity on both legs and off their leaves, an amendment keeps the fills, and
\* no report follows the one that ended an order.
Lifecycle == INSTANCE OrderLifecycle WITH life <- told
ImplementsLifecycle == Lifecycle!LifeSpec

\* A resting client order that stays at its price keeps its place in the queue
\* unless its resting quantity grows; then it goes behind everyone at that price.
PlacesAreKept ==
    [][\A i \in orders_ \cap orders_' : l3'[i].price = l3[i].price =>
          /\ l3'[i].prio # l3[i].prio <=> l3'[i].qty > l3[i].qty
          /\ l3'[i].prio # l3[i].prio =>
                \A j \in Ids \ {i} : l3'[j].price = l3'[i].price => l3'[j].prio < l3'[i].prio]_vars

\* sendOrderCancelPending asserts that an order to be cancelled has all of its
\* quantity left.
CancelsWholeOrder == pc = "cancel" => order[cur.id].leaves = order[cur.id].quantity

\* cancelUnrestableRemainder says that an order without a limit price never
\* rests.
NothingRestsAtNullPrice == \A i \in Ids : l3[i].qty > 0 => l3[i].price # NullPrice

\* Every handler ends: the matching loops run out of quantity or liquidity.
HandlersEnd == pc \notin {"idle", "packet"} ~> pc \in {"idle", "packet"}
=============================================================================
