--------------------------- MODULE ExchangeOrders ---------------------------
(***************************************************************************)
(* What others see of an order. Observers of the book: an order keeps its  *)
(* place in the queue unless its owner moves or grows it, and every batch of *)
(* rows published is closed. Its owner: the invariant that ties the last   *)
(* report of every order to the order itself, and that every step is a step of *)
(* the life of an order (module OrderLifecycle) or tells owners nothing.   *)
(***************************************************************************)
EXTENDS ExchangeInvariant

\* Nothing rests without a price, and no amendment asks for that.
PricedOK == /\ NothingRestsAtNullPrice
            /\ Working /\ cur.kind = "modify" => cur.price # NullPrice

\* Priorities are drawn before they are used.
PriosOK == /\ \A j \in Ids : l3[j].prio < nextPrio /\ mkt[j].prio < nextPrio
           /\ cur.prio < nextPrio

\* An amendment asks for a new place exactly when it moves or grows the order, and what
\* it does in between does not change that.
PlaceOK ==
    /\ Amended /\ cur.kind = "modify" => order[cur.id].prio = l3[cur.id].prio
    /\ Pending /\ cur.kind = "modify" =>
          cur.requeue = Requeues(order[cur.id], cur.price, cur.qty)
    /\ Amended /\ cur.kind = "modify" /\ order[cur.id].leaves > 0 =>
          IF cur.price = l3[cur.id].price
            THEN cur.requeue <=> order[cur.id].leaves > l3[cur.id].qty
            ELSE cur.requeue

\* Nothing is cached before a client's request changes the book, and an amendment that
\* stays at its price changes nothing before it rests.
CacheOK ==
    /\ pc \in {"idle", "smp", "fok", "replace", "cancel"} => dirty = {}
    /\ Amended /\ cur.kind = "modify" /\ cur.price = l3[cur.id].price => dirty = {}

\* The priority counter only grows.
LEMMA PrioGrows == ASSUME TypeOK, [Next]_vars PROVE nextPrio' \in {nextPrio, nextPrio + 1}
  <1>1. CASE Request
    BY <1>1, RequestEffect, Zenon
  <1>2. CASE MarketEvent
    BY <1>2, ZenonT(30) DEF MarketEvent, MarketNew, MarketChange, MarketRestore, MarketRequeue, MarketDelete,
       MarketTrade, bookVars
  <1>3. CASE Deciding
    BY <1>3, DecidingEffect, Zenon
  <1>4. CASE RestNew \/ RestModified
    BY <1>4, Zenon DEF RestNew, RestModified, AddOrder
  <1>5. CASE CompleteCancel \/ Flush \/ RestMarketOrder \/ EndFeed \/ UNCHANGED vars
    BY <1>5, Zenon DEF CompleteCancel, Flush, RestMarketOrder, EndFeed, bookVars, vars
  <1>6. CASE \E j \in Ids : Fill(j) \/ CancelResting(j) \/ FeedFill(j)
    BY <1>6, Zenon DEF Fill, CancelResting, FeedFill
  <1> QED
    BY <1>1, <1>2, <1>3, <1>4, <1>5, <1>6, Zenon DEF Next, Step, Deciding

\* What a fill makes of the entry it takes from.
LEMMA ExecuteShape ==
    ASSUME TypeOK, TypeOK', NEW j \in Ids, NEW q \in Nat \ {0}, NEW own, NEW last,
           L3Execute(j, q, own, last)
    PROVE  /\ \A k \in Ids \ {j} : l3'[k] = l3[k]
           /\ l3'[j].qty > 0 => /\ l3'[j].qty < l3[j].qty /\ l3'[j].side = l3[j].side
                                /\ l3'[j].price = l3[j].price /\ l3'[j].prio = l3[j].prio
  <1> DEFINE new == Entry(l3[j].side, l3[j].price, l3[j].qty - q, l3[j].prio)
  <1>1. l3' = [l3 EXCEPT ![j] = new]
    BY Zenon DEF L3Execute, L3Set
  <1>2. l3'[j] = new /\ \A k \in Ids \ {j} : l3'[k] = l3[k]
    BY <1>1, Zenon DEF TypeOK
  <1>3. l3[j].qty \in Nat
    BY EntryFields, Zenon
  <1> QED
    BY <1>2, <1>3 DEF Entry, Absent

\* How an entry comes to rest as it was not before: a fill took from it, the venue changed
\* or placed it, or a client's order came to rest.
LEMMA EntryShapes ==
    ASSUME Inv, Inv', VenueOK, [Next]_vars, NEW k \in Ids, l3'[k] # l3[k], l3'[k].qty > 0
    PROVE  \/ /\ l3'[k].qty < l3[k].qty /\ l3'[k].price = l3[k].price /\ l3'[k].prio = l3[k].prio
           \/ /\ k \notin orders_ /\ l3[k].qty > 0
              /\ l3'[k].price = l3[k].price /\ l3'[k].prio = l3[k].prio
           \/ /\ k \notin orders_ /\ l3'[k].price = cur.price /\ cur.price \in Prices
              /\ l3'[k].prio = cur.prio
           \/ RestNew /\ k = cur.id
           \/ RestModified /\ k = cur.id
  <1> DEFINE Goal ==
           \/ /\ l3'[k].qty < l3[k].qty /\ l3'[k].price = l3[k].price /\ l3'[k].prio = l3[k].prio
           \/ /\ k \notin orders_ /\ l3[k].qty > 0
              /\ l3'[k].price = l3[k].price /\ l3'[k].prio = l3[k].prio
           \/ /\ k \notin orders_ /\ l3'[k].price = cur.price /\ cur.price \in Prices
              /\ l3'[k].prio = cur.prio
           \/ RestNew /\ k = cur.id
           \/ RestModified /\ k = cur.id
  <1> SUFFICES Goal
    BY Zenon
  <1>1. /\ TypeOK /\ TypeOK' /\ KindOK /\ FeedOK
    BY Zenon DEF Inv, HandlerOK
  <1>2. CASE Request
    BY <1>2, RequestEffect, Zenon
  <1>3. CASE Deciding \/ Flush \/ EndFeed \/ UNCHANGED vars
    BY <1>3, DecidingEffect, Zenon DEF Flush, EndFeed, bookVars, vars
  <1>4. ASSUME NEW j \in Ids, Fill(j) PROVE Goal
    <2> DEFINE q == Lesser(order[cur.id].leaves, l3[j].qty)
    <2>1. q \in Nat \ {0}
      BY <1>4, FillEffect, Zenon
    <2>2. L3Execute(j, q, j \in orders_, order[cur.id].leaves = q)
      BY <1>4, Zenon DEF Fill
    <2> HIDE DEF q
    <2> QED
      BY <1>1, <2>1, <2>2, ExecuteShape, Zenon
  <1>5. ASSUME NEW j \in Ids, FeedFill(j) PROVE Goal
    <2> DEFINE q == Lesser(cur.qty, l3[j].qty)
    <2>1. L3Execute(j, q, j \in orders_, cur.qty = q) /\ cur.qty > 0 /\ l3[j].qty > 0
      BY <1>5, Zenon DEF FeedFill, Hit, IsFront, Resting
    <2>2. q \in Nat \ {0}
      <3>1. cur.qty \in Nat /\ l3[j].qty \in Nat
        BY <1>1, EntryFields, Zenon DEF TypeOK, Handlers
      <3> QED
        BY <2>1, <3>1 DEF Lesser
    <2> HIDE DEF q
    <2> QED
      BY <1>1, <2>1, <2>2, ExecuteShape, Zenon
  <1>6. ASSUME NEW i, l3' = [l3 EXCEPT ![i] = Absent] PROVE FALSE
    BY <1>1, <1>6 DEF TypeOK, Absent
  <1>7. ASSUME NEW j \in Ids, CancelResting(j) \/ MarketDelete(j) PROVE FALSE
    BY <1>6, <1>7, Zenon DEF CancelResting, MarketDelete, DeleteOrder, L3Delete, L3Set
  <1>8. CASE CompleteCancel
    BY <1>6, <1>8, Zenon DEF CompleteCancel, DeleteOrder, L3Delete, L3Set
  <1>9. CASE RestNew
    BY <1>1, <1>9, Zenon DEF RestNew, AddOrder, L3Set, TypeOK
  <1>10. CASE RestModified
    BY <1>1, <1>10, Zenon DEF RestModified, L3Set, TypeOK
  <1>11. CASE RestMarketOrder
    <2>1. /\ l3' = [l3 EXCEPT ![cur.id] = Entry(cur.side, cur.price, cur.qty, cur.prio)]
          /\ pc = "feed" /\ cur.kind = "market" /\ cur.qty > 0
      BY <1>11, Zenon DEF RestMarketOrder, L3Set
    <2>2. cur.id \in Ids /\ cur.id \notin orders_ /\ cur.price \in Prices
      BY <1>1, <2>1, Zenon DEF KindOK, FeedOK, VenueOK
    <2>3. k = cur.id /\ l3'[k] = Entry(cur.side, cur.price, cur.qty, cur.prio)
      BY <1>1, <2>1, <2>2, Zenon DEF TypeOK
    <2> QED
      BY <2>1, <2>2, <2>3 DEF Entry
  <1>12. ASSUME NEW i \in Ids, NEW qty, MarketChange(i, qty) PROVE Goal
    <2>1. /\ l3' = [l3 EXCEPT ![i] = [l3[i] EXCEPT !.qty = qty]] /\ mkt[i].qty > 0 /\ l3[i].qty > 0
      BY <1>12, Zenon DEF MarketChange, L3Set
    <2>2. k = i /\ l3'[k] = [l3[k] EXCEPT !.qty = qty]
      BY <1>1, <2>1, Zenon DEF TypeOK
    <2>3. k \notin orders_ /\ l3[k] \in BookEntry
      BY <1>1, <2>1, <2>2, VenueOrder, Zenon DEF TypeOK
    <2> QED
      BY <2>1, <2>2, <2>3 DEF BookEntry, Absent
  <1>13. ASSUME NEW i \in Ids, NEW price, NEW qty, MarketRequeue(i, price, qty) PROVE FALSE
    BY <1>6, <1>13, Zenon DEF MarketRequeue, L3Delete, L3Set
  <1>14. ASSUME NEW side, NEW price, NEW qty, MarketNew(side, price, qty) \/ MarketTrade(side, price, qty)
         PROVE  FALSE
    BY <1>14, Zenon DEF MarketNew, MarketTrade, l3Vars
  <1>15. ASSUME NEW i \in Ids, NEW qty, MarketRestore(i, qty) PROVE FALSE
    BY <1>15, Zenon DEF MarketRestore, bookVars
  <1> HIDE DEF Goal
  <1> QED
    BY <1>2, <1>3, <1>4, <1>5, <1>7, <1>8, <1>9, <1>10, <1>11, <1>12, <1>13, <1>14, <1>15, Zenon
       DEF Next, Step, MarketEvent, Deciding

\* Nothing comes to rest without a price.
LEMMA PricedNext ==
    ASSUME NullPrice \notin AmendPrices, Inv, Inv', VenueOK, PricedOK, [Next]_vars PROVE PricedOK'
  <1>1. /\ TypeOK /\ KindOK /\ ModifyOK
    BY Zenon DEF Inv, HandlerOK
  <1>2. ASSUME NEW k \in Ids, l3'[k].qty > 0 PROVE l3'[k].price # NullPrice
    <2>1. CASE l3'[k] = l3[k]
      BY <1>2, <2>1, Zenon DEF PricedOK, NothingRestsAtNullPrice
    <2>2. CASE l3[k].qty > 0 /\ l3'[k].price = l3[k].price
      BY <2>2, Zenon DEF PricedOK, NothingRestsAtNullPrice
    <2>3. CASE l3'[k].price = cur.price /\ cur.price \in Prices
      BY <2>3, BoundsAssumption DEF Prices, NullPrice
    <2>4. CASE RestNew /\ k = cur.id
      <3>1. /\ l3' = [l3 EXCEPT ![k] = Entry(order[k].side, order[k].price, order[k].leaves, nextPrio)]
            /\ order[k].leaves > 0 /\ order[k].price # NullPrice
        BY <2>4, Zenon DEF RestNew, AddOrder, L3Set, RestsRemainder
      <3>2. l3'[k] = Entry(order[k].side, order[k].price, order[k].leaves, nextPrio)
        BY <1>1, <3>1, Zenon DEF TypeOK
      <3> QED
        BY <3>1, <3>2 DEF Entry
    <2>5. CASE RestModified /\ k = cur.id
      <3> DEFINE prio == IF cur.requeue THEN nextPrio ELSE order[k].prio
      <3>1. /\ l3' = [l3 EXCEPT ![k] = Entry(order[k].side, order[k].price, order[k].leaves, prio)]
            /\ pc = "rest" /\ cur.kind = "modify"
        BY <2>5, Zenon DEF RestModified, L3Set
      <3>2. l3'[k] = Entry(order[k].side, order[k].price, order[k].leaves, prio)
        BY <1>1, <3>1, Zenon DEF TypeOK
      <3>3. order[k].price = cur.price /\ cur.price # NullPrice
        BY <1>1, <2>5, <3>1, Zenon DEF ModifyOK, PricedOK, Working, Amended
      <3> HIDE DEF prio
      <3> QED
        BY <1>2, <3>2, <3>3 DEF Entry, Absent
    <2>6. l3[k].qty \in Nat /\ l3'[k].qty \in Nat
      BY <1>1, Quantities, Zenon DEF Inv
    <2> QED
      BY <1>2, <2>1, <2>2, <2>3, <2>4, <2>5, <2>6, EntryShapes
  <1>3. Working' /\ cur'.kind = "modify" => cur'.price # NullPrice
    <2>1. CASE Request
      <3>1. ASSUME NEW client, NEW cl, NEW side, NEW price, NEW qty, NEW tif, NEW tag,
                   NewOrder(client, cl, side, price, qty, tif, tag)
            PROVE  cur'.kind = "new"
        BY <3>1, Zenon DEF NewOrder, NoHandler
      <3>2. ASSUME NEW cl, NEW oid, NEW price \in AmendPrices, NEW qty, NEW tag,
                   ModifyOrder(cl, oid, price, qty, tag)
            PROVE  cur'.price # NullPrice
        BY <3>2, Zenon DEF ModifyOrder, NoHandler
      <3>3. ASSUME NEW cl, NEW oid, NEW tag, CancelOrder(cl, oid, tag) PROVE cur'.kind = "cancel"
        BY <3>3, Zenon DEF CancelOrder, NoHandler
      <3>4. ASSUME NEW ref, RejectRequest(ref) PROVE ~Working'
        BY <3>4, Zenon DEF RejectRequest, Working
      <3>5. \/ cur'.kind = "new" \/ cur'.price # NullPrice \/ cur'.kind = "cancel" \/ ~Working'
        BY <2>1, <3>1, <3>2, <3>3, <3>4, Zenon DEF Request
      <3> QED
        BY <3>5, Zenon
    <2>2. CASE Working /\ cur' = cur
      BY <2>2, Zenon DEF PricedOK
    <2>3. CASE ~Working'
      BY <2>3, Zenon
    <2>4. Request \/ (Working /\ cur' = cur) \/ ~Working'
      <3>1. CASE MarketEvent
        <4>1. pc' \in {"packet", "feed"}
          BY <3>1, ZenonT(30) DEF MarketEvent, MarketNew, MarketChange, MarketRestore, MarketRequeue,
             MarketDelete, MarketTrade, Aggress
        <4> QED
          BY <4>1, Zenon DEF Working
      <3>2. CASE Deciding
        BY <3>2, DecidingEffect, Zenon DEF Deciding, RejectSelfMatch, RejectCurrent, Acknowledge, KillFok,
           PassFok, ApplyReplace, CancelZeroLeaves, EndMatch, DropNew, Working
      <3>3. CASE RestNew \/ RestModified \/ CompleteCancel \/ Flush \/ RestMarketOrder \/ EndFeed
        BY <3>3, Zenon DEF RestNew, RestModified, CompleteCancel, Flush, RestMarketOrder, EndFeed, Working
      <3>4. CASE \E j \in Ids : Fill(j) \/ CancelResting(j) \/ FeedFill(j)
        BY <3>4, Zenon DEF Fill, CancelResting, FeedFill, Working
      <3>5. CASE UNCHANGED vars
        BY <3>5, Zenon DEF vars, Working
      <3> QED
        BY <3>1, <3>2, <3>3, <3>4, <3>5, Zenon DEF Next, Step, Deciding
    <2> QED
      BY <2>1, <2>2, <2>3, <2>4, Zenon
  <1> QED
    BY <1>2, <1>3, Zenon DEF PricedOK, NothingRestsAtNullPrice

\* Every priority in the books was drawn.
LEMMA PriosNext ==
    ASSUME Inv, Inv', VenueOK, PriosOK, PlaceOK, [Next]_vars PROVE PriosOK'
  <1>1. /\ TypeOK /\ TypeOK' /\ KindOK
    BY Zenon DEF Inv, HandlerOK
  <1>2. /\ nextPrio \in Nat \ {0} /\ nextPrio' \in {nextPrio, nextPrio + 1}
        /\ \A k \in Ids : l3[k].prio \in Nat /\ mkt[k] \in BookEntry /\ mkt[k].prio \in Nat
    BY <1>1, PrioGrows, EntryFields DEF TypeOK, BookEntry, Absent
  <1>3. ASSUME NEW k \in Ids PROVE l3'[k].prio < nextPrio'
    <2>1. CASE l3'[k] = l3[k]
      BY <1>2, <2>1 DEF PriosOK
    <2>2. CASE ~(l3'[k].qty > 0)
      <3>1. l3'[k] \in BookEntry
        BY <1>1, Zenon DEF TypeOK
      <3> QED
        BY <1>2, <2>2, <3>1 DEF BookEntry, Absent
    <2>3. CASE l3'[k].prio = l3[k].prio \/ l3'[k].prio = cur.prio
      <3>1. cur.prio \in Nat
        BY <1>1, Zenon DEF TypeOK, Handlers
      <3> QED
        BY <1>2, <2>3, <3>1 DEF PriosOK
    <2>4. CASE RestNew /\ k = cur.id
      <3>1. /\ l3' = [l3 EXCEPT ![k] = Entry(order[k].side, order[k].price, order[k].leaves, nextPrio)]
            /\ order[k].leaves > 0 /\ nextPrio' = nextPrio + 1
        BY <2>4, Zenon DEF RestNew, AddOrder, L3Set
      <3>2. l3'[k] = Entry(order[k].side, order[k].price, order[k].leaves, nextPrio)
        BY <1>1, <3>1, Zenon DEF TypeOK
      <3> QED
        BY <1>2, <3>1, <3>2 DEF Entry
    <2>5. CASE RestModified /\ k = cur.id /\ l3'[k].qty > 0
      <3> DEFINE prio == IF cur.requeue THEN nextPrio ELSE order[k].prio
      <3>1. /\ l3' = [l3 EXCEPT ![k] = Entry(order[k].side, order[k].price, order[k].leaves, prio)]
            /\ pc = "rest" /\ cur.kind = "modify"
            /\ nextPrio' = IF cur.requeue THEN nextPrio + 1 ELSE nextPrio
        BY <2>5, Zenon DEF RestModified, L3Set
      <3>2. l3'[k] = Entry(order[k].side, order[k].price, order[k].leaves, prio)
        BY <1>1, <3>1, Zenon DEF TypeOK
      <3>3. order[k].prio = l3[k].prio
        BY <2>5, <3>1, Zenon DEF PlaceOK, Amended
      <3>4. l3'[k].prio = prio
        BY <2>5, <3>2 DEF Entry, Absent
      <3> QED
        BY <1>2, <3>1, <3>3, <3>4 DEF PriosOK
    <2> QED
      BY <2>1, <2>2, <2>3, <2>4, <2>5, EntryShapes, Zenon
  <1>4. ASSUME mkt' = mkt, cur' = cur \/ cur'.prio = 0 \/ cur'.prio = cur.prio
        PROVE  cur'.prio < nextPrio' /\ \A k \in Ids : mkt'[k].prio < nextPrio'
    <2>1. cur.prio \in Nat
      BY <1>1, Zenon DEF TypeOK, Handlers
    <2> QED
      BY <1>2, <1>4, <2>1 DEF PriosOK
  <1>5. ASSUME NEW i \in Ids, NEW e, e.prio \in Nat, e.prio < nextPrio', mkt' = [mkt EXCEPT ![i] = e],
               cur' = cur \/ cur'.prio = e.prio
        PROVE  cur'.prio < nextPrio' /\ \A k \in Ids : mkt'[k].prio < nextPrio'
    <2>1. cur.prio \in Nat
      BY <1>1, Zenon DEF TypeOK, Handlers
    <2>2. mkt'[i] = e /\ \A k \in Ids \ {i} : mkt'[k] = mkt[k]
      BY <1>1, <1>5, Zenon DEF TypeOK
    <2> QED
      BY <1>2, <1>5, <2>1, <2>2 DEF PriosOK
  <1> DEFINE Goal == cur'.prio < nextPrio' /\ \A k \in Ids : mkt'[k].prio < nextPrio'
  <1>6. ASSUME Request PROVE Goal
    <2>1. cur' = cur \/ cur'.prio = 0
      <3>1. ASSUME NEW client, NEW cl, NEW side, NEW price, NEW qty, NEW tif, NEW tag,
                   NewOrder(client, cl, side, price, qty, tif, tag)
            PROVE  cur'.prio = 0
        BY <3>1, Zenon DEF NewOrder, NoHandler
      <3>2. ASSUME NEW cl, NEW oid, NEW price, NEW qty, NEW tag, ModifyOrder(cl, oid, price, qty, tag)
            PROVE  cur'.prio = 0
        BY <3>2, Zenon DEF ModifyOrder, NoHandler
      <3>3. ASSUME NEW cl, NEW oid, NEW tag, CancelOrder(cl, oid, tag) PROVE cur'.prio = 0
        BY <3>3, Zenon DEF CancelOrder, NoHandler
      <3>4. ASSUME NEW ref, RejectRequest(ref) PROVE cur' = cur
        BY <3>4, Zenon DEF RejectRequest
      <3> QED
        BY <1>6, <3>1, <3>2, <3>3, <3>4, Zenon DEF Request
    <2> QED
      BY <1>4, <1>6, <2>1, RequestEffect, Zenon
  <1>7. ASSUME Deciding PROVE Goal
    BY <1>4, <1>7, DecidingEffect, Zenon
  <1>8. ASSUME RestNew \/ RestModified \/ CompleteCancel \/ Flush \/ RestMarketOrder \/ EndFeed \/ UNCHANGED vars PROVE Goal
    <2>1. mkt' = mkt /\ (cur' = cur \/ cur' = NoHandler)
      BY <1>8, Zenon DEF RestNew, RestModified, CompleteCancel, Flush, RestMarketOrder, EndFeed, vars
    <2>2. NoHandler.prio = 0
      BY Zenon DEF NoHandler
    <2> QED
      BY <1>4, <2>1, <2>2, Zenon
  <1>9. ASSUME \E j \in Ids : Fill(j) \/ CancelResting(j) \/ FeedFill(j) PROVE Goal
    <2>1. mkt' = mkt /\ (cur' = cur \/ \E x : cur' = [cur EXCEPT !.qty = x])
      BY <1>9, Zenon DEF Fill, CancelResting, FeedFill
    <2>2. cur'.prio = cur.prio
      BY <1>1, <2>1, Zenon DEF TypeOK, Handlers
    <2> QED
      BY <1>4, <2>1, <2>2, Zenon
  <1>10. ASSUME NEW i \in Ids, NEW e, Aggress(i, e) PROVE mkt' = [mkt EXCEPT ![i] = e] /\ cur'.prio = e.prio
    BY <1>10, Zenon DEF Aggress, NoHandler
  <1>11. ASSUME NEW side, NEW price, NEW qty \in MarketQtys, MarketNew(side, price, qty) PROVE Goal
    <2> DEFINE e == Entry(side, price, qty, nextPrio)
    <2>1. Aggress(nextId, e) /\ nextPrio' = nextPrio + 1 /\ nextId <= MaxId
      BY <1>11, Zenon DEF MarketNew
    <2>2. nextId \in Ids /\ e.prio = nextPrio
      BY <1>1, <2>1, BoundsAssumption, InputsAssumption DEF TypeOK, Ids, Entry
    <2> HIDE DEF e
    <2> QED
      BY <1>2, <1>5, <1>10, <2>1, <2>2
  <1>12. ASSUME NEW i \in Ids, NEW price, NEW qty \in MarketQtys, MarketRequeue(i, price, qty) PROVE Goal
    <2> DEFINE e == Entry(mkt[i].side, price, qty, nextPrio)
    <2>1. Aggress(i, e) /\ nextPrio' = nextPrio + 1
      BY <1>12, Zenon DEF MarketRequeue
    <2>2. e.prio = nextPrio
      BY InputsAssumption, Zenon DEF Entry
    <2> HIDE DEF e
    <2> QED
      BY <1>2, <1>5, <1>10, <2>1, <2>2
  <1>13. ASSUME NEW i \in Ids, NEW qty, MarketRestore(i, qty) \/ MarketChange(i, qty) PROVE Goal
    <2> DEFINE e == [mkt[i] EXCEPT !.qty = qty]
    <2>1. mkt' = [mkt EXCEPT ![i] = e] /\ (cur' = cur \/ cur'.prio = e.prio)
      BY <1>10, <1>13, Zenon DEF MarketRestore, MarketChange
    <2>2. e.prio = mkt[i].prio
      BY <1>2 DEF BookEntry, Absent
    <2>3. e.prio \in Nat /\ e.prio < nextPrio'
      BY <1>2, <2>2 DEF PriosOK
    <2> HIDE DEF e
    <2> QED
      BY <1>5, <2>1, <2>3, Zenon
  <1>14. ASSUME NEW i \in Ids, MarketDelete(i) PROVE Goal
    <2>1. mkt' = [mkt EXCEPT ![i] = Absent] /\ cur' = cur
      BY <1>14, Zenon DEF MarketDelete
    <2>2. Absent.prio \in Nat /\ Absent.prio < nextPrio'
      BY <1>2 DEF Absent
    <2> QED
      BY <1>5, <2>1, <2>2, Zenon
  <1>15. ASSUME NEW side, NEW price, NEW qty, MarketTrade(side, price, qty) PROVE Goal
    <2>1. mkt' = mkt /\ cur'.prio = 0
      BY <1>15, Zenon DEF MarketTrade, NoHandler
    <2> QED
      BY <1>4, <2>1, Zenon
  <1> HIDE DEF Goal
  <1>16. Goal
    BY <1>6, <1>7, <1>8, <1>9, <1>11, <1>12, <1>13, <1>14, <1>15, Zenon
       DEF Next, Step, MarketEvent, Deciding
  <1> QED
    BY <1>3, <1>16, Zenon DEF PriosOK, Goal

-----------------------------------------------------------------------------
\* An amended order that stays at its price has nothing to trade with: it rests there, and
\* the book is not crossed.
LEMMA InPlace ==
    ASSUME Inv, PricedOK, Amended, cur.kind = "modify", cur.price = l3[cur.id].price
    PROVE  InReach = {}
  <1>1. /\ TypeOK /\ KindOK /\ ModifyOK /\ Uncrossed
    BY Zenon DEF Inv, HandlerOK
  <1>2. /\ cur.id \in Ids /\ l3[cur.id].qty > 0 /\ l3[cur.id].side = order[cur.id].side
        /\ cur.price # NullPrice
    BY <1>1, Zenon DEF KindOK, ModifyOK, Working, Amended, PricedOK
  <1> SUFFICES ASSUME NEW k \in InReach PROVE FALSE
    BY Zenon
  <1>3. /\ k \in Ids /\ l3[k].qty > 0 /\ l3[k].side = Opposite(l3[cur.id].side)
        /\ Reaches(l3[cur.id].side, l3[cur.id].price, l3[k].price)
    BY <1>2, Zenon DEF InReach, Reachable, Resting
  <1>4. l3[cur.id].side \in Sides /\ l3[cur.id].price \in Nat /\ l3[k].price \in Nat
    BY <1>1, <1>2, <1>3, EntryFields, Zenon
  <1>5. IF l3[cur.id].side = "BUY" THEN l3[cur.id].price < l3[k].price ELSE l3[k].price < l3[cur.id].price
    BY <1>1, <1>2, <1>3, <1>4, Zenon DEF Uncrossed, Resting, Opposite, Sides
  <1> QED
    BY <1>2, <1>3, <1>4, <1>5 DEF Reaches, Better, Opposite, Sides

\* A turn of the matching loop leaves the entry and the place of the order in hand alone.
LEMMA MatchTurn ==
    ASSUME Inv, NEW j \in Ids, Fill(j) \/ CancelResting(j)
    PROVE  /\ pc = "match" /\ pc' = pc /\ cur' = cur /\ j \in InReach
           /\ cur.kind = "modify" => /\ l3'[cur.id] = l3[cur.id]
                                     /\ order'[cur.id].prio = order[cur.id].prio
                                     /\ order'[cur.id].leaves > 0 => order[cur.id].leaves > 0
  <1>1. /\ TypeOK /\ KindOK /\ ModifyOK
    BY Zenon DEF Inv, HandlerOK
  <1>2. CASE Fill(j)
    <2> DEFINE q == Lesser(order[cur.id].leaves, l3[j].qty)
    <2>1. /\ pc = "match" /\ pc' = pc /\ cur' = cur /\ cur.id \in Ids /\ j # cur.id /\ j \in InReach
          /\ \A k \in Ids \ {j} : l3'[k] = l3[k]
      BY <1>2, FillEffect, Zenon
    <2>2. /\ order' = [order EXCEPT ![cur.id] = Filled(order[cur.id], q), ![j] = RestingAfter(j, q)]
          /\ order[cur.id].leaves > 0
      BY <1>2, Zenon DEF Fill
    <2> HIDE DEF q
    <2>3. order'[cur.id] = Filled(order[cur.id], q) /\ order[cur.id] \in Order
      BY <1>1, <2>1, <2>2, Zenon DEF TypeOK
    <2> QED
      BY <2>1, <2>2, <2>3, Zenon DEF Filled, Order
  <1>3. CASE CancelResting(j)
    <2>1. /\ pc = "match" /\ pc' = pc /\ cur' = cur /\ order' = [order EXCEPT ![j] = Recycled]
          /\ l3' = [l3 EXCEPT ![j] = Absent] /\ order[cur.id].leaves > 0
          /\ l3[j].side = Opposite(order[cur.id].side) /\ j \in InReach
      BY <1>3, Zenon DEF CancelResting, DeleteOrder, L3Delete, L3Set, Hit, IsFront, Resting, InReach, Reachable
    <2>2. cur.id \in Ids /\ order[cur.id].side \in Sides
      BY <1>1, <2>1, Zenon DEF KindOK, TypeOK, Order
    <2>3. cur.kind = "modify" => j # cur.id
      BY <1>1, <2>1, <2>2, Zenon DEF ModifyOK, Working, Opposite, Sides
    <2>4. cur.kind = "modify" => l3'[cur.id] = l3[cur.id] /\ order'[cur.id] = order[cur.id]
      BY <1>1, <2>1, <2>2, <2>3, Zenon DEF TypeOK
    <2> QED
      BY <2>1, <2>4, Zenon
  <1> QED
    BY <1>2, <1>3, Zenon

\* A step that is in the hands of an amendment afterwards.
LEMMA AmendStep ==
    ASSUME Inv, [Next]_vars, Amended', cur'.kind = "modify"
    PROVE  \/ ApplyReplace \/ CancelZeroLeaves \/ EndMatch \/ UNCHANGED vars
           \/ \E j \in Ids : Fill(j) \/ CancelResting(j)
  <1>1. CASE Request
    BY <1>1, RequestEffect, Zenon DEF Amended
  <1>2. CASE MarketEvent
    <2>1. pc' \in {"packet", "feed"}
      BY <1>2, ZenonT(30) DEF MarketEvent, MarketNew, MarketChange, MarketRestore, MarketRequeue,
         MarketDelete, MarketTrade, Aggress
    <2> QED
      BY <2>1, Zenon DEF Amended
  <1>3. CASE RejectSelfMatch \/ Acknowledge \/ KillFok \/ PassFok \/ DropNew
    BY <1>3, DecidingEffect, Zenon DEF Deciding, RejectSelfMatch, RejectCurrent, Acknowledge, KillFok, PassFok,
       DropNew, Amended
  <1>4. CASE RestNew \/ RestModified \/ CompleteCancel \/ Flush \/ RestMarketOrder \/ EndFeed
    BY <1>4, Zenon DEF RestNew, RestModified, CompleteCancel, Flush, RestMarketOrder, EndFeed, Amended
  <1>5. CASE \E j \in Ids : FeedFill(j)
    BY <1>5, Zenon DEF FeedFill, Amended
  <1> QED
    BY <1>1, <1>2, <1>3, <1>4, <1>5, Zenon DEF Next, Step

\* An amendment asks for a new place for what it does to the order, and for nothing else.
LEMMA PlaceNext == ASSUME Inv, PricedOK, PlaceOK, [Next]_vars PROVE PlaceOK'
  <1>1. /\ TypeOK /\ KindOK /\ ModifyOK /\ BookAgreesWithOrders /\ IndicesInLockstep
    BY Zenon DEF Inv, HandlerOK
  <1>2. ASSUME Amended', cur'.kind = "modify"
        PROVE  /\ order'[cur'.id].prio = l3'[cur'.id].prio
               /\ order'[cur'.id].leaves > 0 =>
                    IF cur'.price = l3'[cur'.id].price
                      THEN cur'.requeue <=> order'[cur'.id].leaves > l3'[cur'.id].qty
                      ELSE cur'.requeue
    <2> DEFINE i == cur.id
    <2>1. CASE ApplyReplace
      <3> DEFINE left == IF order[i].cum >= cur.qty THEN 0 ELSE cur.qty - order[i].cum
      <3>1. /\ pc = "replace" /\ l3' = l3 /\ cur' = cur
            /\ order' = [order EXCEPT ![i].quantity = cur.qty, ![i].price = cur.price, ![i].leaves = left]
        BY <2>1, Zenon DEF ApplyReplace, l3Vars
      <3>2. i \in Ids /\ i \in orders_ /\ order[i] \in Order /\ cur.qty \in Nat /\ cur.kind = "modify"
        BY <1>1, <3>1, Zenon DEF KindOK, ModifyOK, Working, TypeOK, Handlers
      <3>3. order'[i].prio = order[i].prio /\ order'[i].leaves = left
        BY <1>1, <3>1, <3>2, Zenon DEF TypeOK, Order
      <3>4. /\ l3[i].price = order[i].price /\ l3[i].qty = order[i].leaves /\ l3[i].prio = order[i].prio
            /\ order[i].leaves + order[i].cum = order[i].quantity
        BY <1>1, <3>1, <3>2, Zenon DEF BookAgreesWithOrders
      <3>5. cur.requeue <=> cur.price # order[i].price \/ cur.qty > order[i].quantity
        BY <1>1, <3>1, <3>2, Zenon DEF PlaceOK, Pending, Requeues, TypeOK, Handlers
      <3>6. order[i].leaves \in Nat /\ order[i].cum \in Nat /\ order[i].quantity \in Nat
        BY <3>2, Zenon DEF Order
      <3> QED
        BY <3>1, <3>2, <3>3, <3>4, <3>5, <3>6
    <2>2. CASE CancelZeroLeaves \/ EndMatch \/ UNCHANGED vars
      <3>1. l3' = l3 /\ order' = order /\ cur' = cur /\ Amended
        BY <1>2, <2>2, Zenon DEF CancelZeroLeaves, EndMatch, bookVars, vars, Amended
      <3> QED
        BY <1>2, <3>1, Zenon DEF PlaceOK
    <2>3. ASSUME NEW j \in Ids, Fill(j) \/ CancelResting(j)
          PROVE  /\ order'[cur'.id].prio = l3'[cur'.id].prio
                 /\ order'[cur'.id].leaves > 0 =>
                    IF cur'.price = l3'[cur'.id].price
                      THEN cur'.requeue <=> order'[cur'.id].leaves > l3'[cur'.id].qty
                      ELSE cur'.requeue
      <3>1. /\ pc = "match" /\ cur' = cur /\ j \in InReach /\ l3'[i] = l3[i]
            /\ order'[i].prio = order[i].prio
            /\ order'[i].leaves > 0 => order[i].leaves > 0
        BY <1>2, <2>3, MatchTurn, Zenon
      <3>2. Amended /\ cur.kind = "modify"
        BY <1>2, <3>1, Zenon DEF Amended
      <3>3. cur.price # l3[i].price
        BY <3>1, <3>2, InPlace, Zenon
      <3> QED
        BY <3>1, <3>2, <3>3, Zenon DEF PlaceOK
    <2> QED
      BY <1>2, <2>1, <2>2, <2>3, AmendStep, Zenon
  <1>3. ASSUME Pending', cur'.kind = "modify"
        PROVE  cur'.requeue = Requeues(order'[cur'.id], cur'.price, cur'.qty)
    <2>1. ASSUME NEW cl \in ClOrdIds \cup {NoClOrdId}, NEW oid \in Ids, NEW price, NEW qty, NEW tag \in Tags,
                 ModifyOrder(cl, oid, price, qty, tag)
          PROVE  cur'.requeue = Requeues(order'[cur'.id], cur'.price, cur'.qty)
      <3> DEFINE i == Lookup(cl, oid)
      <3>1. i \in Ids
        BY <1>1, <2>1, LookupOwn, Zenon DEF ModifyOrder, TypeOK
      <3>2. /\ order' = [order EXCEPT ![i].tag = tag]
            /\ cur' = [NoHandler EXCEPT !.kind = "modify", !.id = i, !.side = order[i].side,
                       !.price = price, !.qty = qty, !.tag = order[i].tag,
                       !.requeue = Requeues(order[i], price, qty),
                       !.ref = IF cl = NoClOrdId THEN i ELSE NoId]
        BY <2>1, Zenon DEF ModifyOrder
      <3> HIDE DEF i
      <3>3. cur'.id = i /\ cur'.requeue = Requeues(order[i], price, qty) /\ cur'.price = price /\ cur'.qty = qty
        BY <3>2, Zenon DEF NoHandler
      <3>4. order'[i].price = order[i].price /\ order'[i].quantity = order[i].quantity
        BY <1>1, <3>1, <3>2 DEF TypeOK, Order
      <3> QED
        BY <3>3, <3>4, Zenon DEF Requeues
    <2>2. ASSUME NEW client, NEW cl, NEW side, NEW price, NEW qty, NEW tif, NEW tag,
                 NewOrder(client, cl, side, price, qty, tif, tag)
          PROVE  FALSE
      BY <1>3, <2>2, Zenon DEF NewOrder, NoHandler
    <2>3. ASSUME NEW cl, NEW oid, NEW tag, CancelOrder(cl, oid, tag) PROVE FALSE
      BY <1>3, <2>3, Zenon DEF CancelOrder, Pending
    <2>4. ASSUME NEW ref, RejectRequest(ref) PROVE FALSE
      BY <1>3, <2>4, Zenon DEF RejectRequest, Pending
    <2>5. CASE Acknowledge \/ PassFok \/ UNCHANGED vars
      <3>1. order' = order /\ cur' = cur /\ Pending
        BY <1>3, <2>5, Zenon DEF Acknowledge, PassFok, bookVars, vars, Pending
      <3> QED
        BY <1>3, <3>1, Zenon DEF PlaceOK
    <2>6. CASE MarketEvent
      <3>1. pc' \in {"packet", "feed"}
        BY <2>6, ZenonT(30) DEF MarketEvent, MarketNew, MarketChange, MarketRestore, MarketRequeue,
           MarketDelete, MarketTrade, Aggress
      <3> QED
        BY <1>3, <3>1, Zenon DEF Pending
    <2>7. CASE \/ RejectSelfMatch \/ KillFok \/ ApplyReplace \/ CancelZeroLeaves \/ EndMatch \/ DropNew
      BY <1>3, <2>7, Zenon DEF RejectSelfMatch, RejectCurrent, KillFok, ApplyReplace, CancelZeroLeaves, EndMatch,
         DropNew, Pending
    <2>8. CASE RestNew \/ RestModified \/ CompleteCancel \/ Flush \/ RestMarketOrder \/ EndFeed
      BY <1>3, <2>8, Zenon DEF RestNew, RestModified, CompleteCancel, Flush, RestMarketOrder, EndFeed, Pending
    <2>9. CASE \E j \in Ids : Fill(j) \/ CancelResting(j) \/ FeedFill(j)
      BY <1>3, <2>9, Zenon DEF Fill, CancelResting, FeedFill, Pending
    <2> QED
      BY <2>1, <2>2, <2>3, <2>4, <2>5, <2>6, <2>7, <2>8, <2>9, Zenon DEF Next, Step, Request
  <1> QED
    BY <1>2, <1>3, Zenon DEF PlaceOK, Requeues

-----------------------------------------------------------------------------
\* Nothing is cached while a request may still be turned away.
LEMMA CacheNext == ASSUME Inv, PricedOK, CacheOK, [Next]_vars PROVE CacheOK'
  <1>1. ASSUME pc' \in {"idle", "smp", "fok", "replace", "cancel"} PROVE dirty' = {}
    <2>1. CASE Request
      BY <2>1, RequestEffect, Zenon DEF CacheOK
    <2>2. CASE Acknowledge \/ PassFok \/ UNCHANGED vars
      BY <1>1, <2>2, Zenon DEF Acknowledge, PassFok, bookVars, vars, CacheOK
    <2>3. CASE MarketEvent
      <3>1. pc' \in {"packet", "feed"}
        BY <2>3, ZenonT(30) DEF MarketEvent, MarketNew, MarketChange, MarketRestore, MarketRequeue,
           MarketDelete, MarketTrade, Aggress
      <3> QED
        BY <1>1, <3>1, Zenon
    <2>4. CASE RejectSelfMatch \/ KillFok \/ ApplyReplace \/ CancelZeroLeaves \/ EndMatch \/ DropNew
      BY <1>1, <2>4, Zenon DEF RejectSelfMatch, RejectCurrent, KillFok, ApplyReplace, CancelZeroLeaves, EndMatch,
         DropNew
    <2>5. CASE RestNew \/ RestModified \/ CompleteCancel \/ Flush \/ RestMarketOrder \/ EndFeed
      BY <1>1, <2>5, Zenon DEF RestNew, RestModified, CompleteCancel, Flush, RestMarketOrder, EndFeed
    <2>6. CASE \E j \in Ids : Fill(j) \/ CancelResting(j) \/ FeedFill(j)
      BY <1>1, <2>6, Zenon DEF Fill, CancelResting, FeedFill
    <2> QED
      BY <2>1, <2>2, <2>3, <2>4, <2>5, <2>6, Zenon DEF Next, Step
  <1>2. ASSUME Amended', cur'.kind = "modify", cur'.price = l3'[cur'.id].price PROVE dirty' = {}
    <2>1. CASE ApplyReplace
      BY <2>1, Zenon DEF ApplyReplace, l3Vars, CacheOK
    <2>2. CASE CancelZeroLeaves \/ EndMatch \/ UNCHANGED vars
      <3>1. l3' = l3 /\ dirty' = dirty /\ cur' = cur /\ Amended
        BY <1>2, <2>2, Zenon DEF CancelZeroLeaves, EndMatch, bookVars, vars, Amended
      <3> QED
        BY <1>2, <3>1, Zenon DEF CacheOK
    <2>3. ASSUME NEW j \in Ids, Fill(j) \/ CancelResting(j) PROVE FALSE
      <3>1. pc = "match" /\ cur' = cur /\ j \in InReach /\ l3'[cur.id] = l3[cur.id] /\ cur.kind = "modify"
        BY <1>2, <2>3, MatchTurn, Zenon
      <3> QED
        BY <1>2, <3>1, InPlace, Zenon DEF Amended
    <2> QED
      BY <1>2, <2>1, <2>2, <2>3, AmendStep, Zenon
  <1> QED
    BY <1>1, <1>2, Zenon DEF CacheOK

\* Whatever ends a client's request closes the batch of rows it publishes.
LEMMA EventsNext == ASSUME Inv, CacheOK, SelfMatchDecidedUpFront, EventsAreClosed, [Next]_vars PROVE EventsAreClosed'
  <1> SUFFICES ASSUME pc' = "flush", dirty' # {} PROVE lastEnd'
    BY Zenon DEF EventsAreClosed
  <1>1. /\ TypeOK /\ KindOK /\ NewOK /\ ModifyOK /\ BookAgreesWithOrders
    BY Zenon DEF Inv, HandlerOK
  <1>2. CASE RejectSelfMatch
    <2>1. pc = "smp" /\ dirty' = dirty /\ (lastEnd' = TRUE \/ lastEnd' = lastEnd)
      BY <1>2, Zenon DEF RejectSelfMatch, RejectCurrent, SelfMatchDecidedUpFront
    <2> QED
      BY <1>2, <2>1, Zenon DEF CacheOK
  <1>3. CASE KillFok \/ DropNew
    BY <1>3, Zenon DEF KillFok, DropNew
  <1>4. CASE RestNew
    <2> DEFINE new == Entry(order[cur.id].side, order[cur.id].price, order[cur.id].leaves, nextPrio)
    <2>1. /\ lastEnd' = IF l3[cur.id] = new THEN lastEnd ELSE TRUE
          /\ order[cur.id].leaves > 0 /\ l3[cur.id] = Absent
      BY <1>1, <1>4, Zenon DEF RestNew, AddOrder, L3Set, NewOK, Working
    <2>2. new # Absent
      BY <2>1 DEF Entry, Absent
    <2> QED
      BY <2>1, <2>2, Zenon
  <1>5. CASE RestModified
    <2> DEFINE new == Entry(order[cur.id].side, order[cur.id].price, order[cur.id].leaves,
                            IF cur.requeue THEN nextPrio ELSE order[cur.id].prio)
    <2>1. /\ lastEnd' = IF l3[cur.id] = new THEN lastEnd ELSE TRUE
          /\ dirty' = dirty \cup TouchedLevels(l3[cur.id], new) /\ pc = "rest" /\ cur.kind = "modify"
      BY <1>5, Zenon DEF RestModified, L3Set
    <2>2. CASE l3[cur.id] = new
      <3>1. dirty' = dirty
        BY <2>1, <2>2, Zenon DEF TouchedLevels
      <3>2. l3[cur.id].qty > 0 /\ order[cur.id].price = cur.price
        BY <1>1, <2>1, Zenon DEF ModifyOK, Working, Amended
      <3>3. l3[cur.id].price = cur.price
        BY <2>2, <3>2, EntryParts
      <3> QED
        BY <2>1, <3>1, <3>3, Zenon DEF CacheOK, Amended
    <2> HIDE DEF new
    <2> QED
      BY <2>1, <2>2, Zenon
  <1>6. CASE CompleteCancel
    <2>1. lastEnd' = (IF l3[cur.id] = Absent THEN lastEnd ELSE TRUE) /\ pc = "cancel"
      BY <1>6, Zenon DEF CompleteCancel, DeleteOrder, L3Delete, L3Set
    <2>2. l3[cur.id].qty > 0
      BY <1>1, <2>1, Zenon DEF ModifyOK, KindOK, BookAgreesWithOrders
    <2>3. ~(Absent.qty > 0)
      BY DEF Absent
    <2> QED
      BY <2>1, <2>2, <2>3, Zenon
  <1>7. CASE UNCHANGED vars
    BY <1>7, Zenon DEF vars, EventsAreClosed
  <1>8. CASE Request
    BY <1>8, RequestEffect, Zenon
  <1>9. CASE MarketEvent
    <2>1. pc' \in {"packet", "feed"}
      BY <1>9, ZenonT(30) DEF MarketEvent, MarketNew, MarketChange, MarketRestore, MarketRequeue,
         MarketDelete, MarketTrade, Aggress
    <2> QED
      BY <2>1, Zenon
  <1>10. CASE Acknowledge \/ PassFok \/ ApplyReplace \/ CancelZeroLeaves \/ EndMatch
    BY <1>10, Zenon DEF Acknowledge, PassFok, ApplyReplace, CancelZeroLeaves, EndMatch
  <1>11. CASE Flush \/ RestMarketOrder \/ EndFeed
    BY <1>11, Zenon DEF Flush, RestMarketOrder, EndFeed
  <1>12. CASE \E j \in Ids : Fill(j) \/ CancelResting(j) \/ FeedFill(j)
    BY <1>12, Zenon DEF Fill, CancelResting, FeedFill
  <1> QED
    BY <1>2, <1>3, <1>4, <1>5, <1>6, <1>7, <1>8, <1>9, <1>10, <1>11, <1>12, Zenon DEF Next, Step

\* A step keeps the place of every client order that stays at its price, unless it grows.
KeepsPlaces ==
    \A i \in orders_ \cap orders_' : l3'[i].price = l3[i].price =>
        /\ l3'[i].prio # l3[i].prio <=> l3'[i].qty > l3[i].qty
        /\ l3'[i].prio # l3[i].prio =>
              \A j \in Ids \ {i} : l3'[j].price = l3'[i].price => l3'[j].prio < l3'[i].prio

\* A client order loses its place only when an amendment grows it, and then to everyone.
LEMMA PlacesStep ==
    ASSUME Inv, Inv', VenueOK, PriosOK, PlaceOK, [Next]_vars PROVE KeepsPlaces
  <1>1. /\ TypeOK /\ TypeOK' /\ KindOK /\ NewOK /\ ModifyOK /\ IdsOK
    BY Zenon DEF Inv, HandlerOK
  <1> SUFFICES ASSUME NEW i \in orders_, i \in orders_', l3'[i].price = l3[i].price
               PROVE  /\ l3'[i].prio # l3[i].prio <=> l3'[i].qty > l3[i].qty
                      /\ l3'[i].prio # l3[i].prio =>
                            \A j \in Ids \ {i} : l3'[j].price = l3'[i].price => l3'[j].prio < l3'[i].prio
    BY Zenon DEF KeepsPlaces
  <1>2. i \in Ids /\ l3[i].qty \in Nat /\ l3'[i].qty \in Nat
    BY <1>1, Quantities, Zenon DEF TypeOK
  <1>3. CASE l3'[i] = l3[i]
    BY <1>2, <1>3
  <1>4. CASE l3'[i].qty < l3[i].qty /\ l3'[i].prio = l3[i].prio
    BY <1>2, <1>4
  <1>5. CASE RestModified /\ i = cur.id /\ l3'[i].qty > 0
    <2> DEFINE prio == IF cur.requeue THEN nextPrio ELSE order[i].prio
    <2>1. /\ l3' = [l3 EXCEPT ![i] = Entry(order[i].side, order[i].price, order[i].leaves, prio)]
          /\ pc = "rest" /\ cur.kind = "modify"
      BY <1>5, Zenon DEF RestModified, L3Set
    <2>2. /\ l3'[i] = Entry(order[i].side, order[i].price, order[i].leaves, prio)
          /\ \A k \in Ids \ {i} : l3'[k] = l3[k]
      BY <1>1, <1>2, <2>1, Zenon DEF TypeOK
    <2>3. /\ order[i].prio = l3[i].prio /\ order[i].price = cur.price
      BY <1>1, <1>5, <2>1, Zenon DEF PlaceOK, Amended, ModifyOK
    <2>4. /\ l3'[i].prio = prio /\ l3'[i].qty = order[i].leaves /\ l3'[i].price = order[i].price
          /\ order[i].leaves > 0
      <3>1. l3'[i].qty > 0 /\ l3'[i] = Entry(order[i].side, order[i].price, order[i].leaves, prio)
        BY <1>5, <2>2, Zenon
      <3> HIDE DEF prio
      <3> QED
        BY <3>1, EntryParts
    <2>5. cur.requeue <=> order[i].leaves > l3[i].qty
      BY <1>5, <2>1, <2>3, <2>4, Zenon DEF PlaceOK, Amended
    <2>6. \A k \in Ids : l3[k].prio < nextPrio /\ l3[k].prio \in Nat
      BY <1>1, EntryFields, Zenon DEF PriosOK
    <2>7. nextPrio \in Nat
      BY <1>1, Zenon DEF TypeOK
    <2>8. CASE cur.requeue
      <3>1. l3'[i].prio = nextPrio /\ l3'[i].qty > l3[i].qty
        BY <2>4, <2>5, <2>8, Zenon
      <3>2. l3[i].prio < nextPrio /\ l3[i].prio \in Nat
        BY <1>2, <2>6, Zenon
      <3>3. ASSUME NEW k \in Ids \ {i} PROVE l3'[k].prio < nextPrio
        BY <2>2, <2>6, Zenon
      <3>4. nextPrio # l3[i].prio
        BY <2>7, <3>2
      <3> QED
        BY <3>1, <3>3, <3>4, Zenon
    <2>9. CASE ~cur.requeue
      BY <2>3, <2>4, <2>5, <2>9, Zenon
    <2> QED
      BY <2>8, <2>9, Zenon
  <1>6. CASE ~(l3'[i].qty > 0)
    <2>1. BookAgreesWithOrders' /\ ModifyOK' /\ KindOK'
      BY Zenon DEF Inv, HandlerOK
    <2>2. l3'[i].qty > 0
      BY <1>2, <2>1, Zenon DEF BookAgreesWithOrders, ModifyOK, Working
    <2> QED
      BY <1>6, <2>2, Zenon
  <1>7. ~(RestNew /\ i = cur.id)
    BY <1>1, Zenon DEF RestNew, NewOK, Working
  <1> QED
    BY <1>3, <1>4, <1>5, <1>6, <1>7, EntryShapes, <1>2, Zenon

-----------------------------------------------------------------------------
\* A belief that shows order o live, with the fills and leaves it has.
Shows(b, o) ==
    /\ b.status \in Lifecycle!Live
    /\ b.cum = o.cum /\ b.leaves = o.leaves

HasEnded(b) == b.status \in Terminal

\* The order the engine is at work on for its owner.
InHand == IF Working THEN {cur.id} ELSE {}

\* Orders no handler has in hand: resting ones are known, the others ended or were
\* never heard of.
OthersOK ==
    \A i \in Ids :
        /\ i >= nextId => told[i] = Untold
        /\ i \notin InHand => IF i \in orders_ THEN Shows(told[i], order[i])
                              ELSE HasEnded(told[i]) \/ told[i] = Untold

\* The order in hand, phase by phase.
CurrentOK ==
    Working =>
        /\ pc = "smp" => IF cur.kind = "new" THEN told[cur.id] = Untold /\ order[cur.id].cum = 0
                         ELSE Shows(told[cur.id], order[cur.id])
        /\ pc \in {"fok", "replace", "zero"} => Shows(told[cur.id], order[cur.id])
        /\ pc = "match" => IF order[cur.id].leaves > 0
                             THEN Shows(told[cur.id], order[cur.id]) ELSE HasEnded(told[cur.id])
        /\ pc = "rest" => IF order[cur.id].leaves > 0 /\ RestsRemainder(order[cur.id])
                            THEN Shows(told[cur.id], order[cur.id]) ELSE HasEnded(told[cur.id])
        /\ cur.kind = "modify" => cur.price # NullPrice

Owners == OthersOK /\ CurrentOK

-----------------------------------------------------------------------------
\* The steps of the life of an order, as changes of one or two beliefs.

LifeStep == Lifecycle!LifeNext \/ UNCHANGED told

\* publishOrderAck of an order nothing was said of is a step of its life.
LEMMA AcceptedStep ==
    ASSUME NEW i \in Ids, told \in Beliefs, told[i] = Untold, NEW q \in Nat,
           told' = [told EXCEPT ![i] = View(Report(i, "NEW", 0, q))]
    PROVE  Lifecycle!LifeNext
  <1>1. told'[i].cum = 0 /\ told'[i].leaves = q
    BY Zenon DEF Beliefs, View, Report
  <1>2. q \in 0 .. told'[i].cum + told'[i].leaves
    BY <1>1
  <1>3. Lifecycle!Accepted(i, q)
    BY Zenon DEF Lifecycle!Accepted, Lifecycle!Unreported, Lifecycle!State, Untold, View, Report
  <1> QED
    BY <1>2, <1>3, Zenon DEF Lifecycle!LifeNext

\* The engine's reject of an order nothing was said of is a step of its life.
LEMMA RefusedStep ==
    ASSUME NEW i \in Ids, told[i] = Untold,
           told' = [told EXCEPT ![i] = View(Rejection(NoId))]
    PROVE  Lifecycle!LifeNext
  <1>1. Lifecycle!Refused(i)
    BY Zenon DEF Lifecycle!Refused, Lifecycle!Unreported, Lifecycle!State, Untold, View, Rejection, Report
  <1> QED
    BY <1>1, Zenon DEF Lifecycle!LifeNext

\* publishOrderCancel of a live order reports the fills its owner knows of.
LEMMA CanceledStep ==
    ASSUME NEW i \in Ids, told \in Beliefs, Shows(told[i], order[i]),
           told' = [told EXCEPT ![i] = View(Cancellation(i, order[i]))]
    PROVE  Lifecycle!LifeNext /\ HasEnded(told'[i])
  <1>1. View(Cancellation(i, order[i])) = Lifecycle!State("CANCELED", told[i].cum, 0)
    BY Zenon DEF Shows, View, Cancellation, Report, Lifecycle!State
  <1>2. Lifecycle!Canceled(i)
    BY <1>1, Zenon DEF Lifecycle!Canceled, Lifecycle!IsLive, Shows
  <1>3. told'[i].status = "CANCELED"
    BY Zenon DEF Beliefs, View, Cancellation, Report
  <1> QED
    BY <1>2, <1>3, Zenon DEF Lifecycle!LifeNext, HasEnded, Terminal

\* publishOrderModify keeps the fills and leaves what the new total allows.
LEMMA ReplacedStep ==
    ASSUME NEW i \in Ids, told \in Beliefs, Shows(told[i], order[i]), order[i].cum \in Nat, NEW total \in Nat,
           told' = [told EXCEPT ![i] = View(Report(i, "REPLACED", order[i].cum,
                        IF order[i].cum >= total THEN 0 ELSE total - order[i].cum))]
    PROVE  Lifecycle!LifeNext
  <1> DEFINE leaves == IF order[i].cum >= total THEN 0 ELSE total - order[i].cum
  <1>1. told'[i].cum = order[i].cum /\ told'[i].leaves = leaves
    BY Zenon DEF Beliefs, View, Report
  <1>2. total \in 0 .. told'[i].cum + told'[i].leaves
    BY <1>1
  <1>3. View(Report(i, "REPLACED", order[i].cum, leaves))
          = Lifecycle!State("REPLACED", told[i].cum,
                IF told[i].cum >= total THEN 0 ELSE total - told[i].cum)
    BY Zenon DEF Shows, View, Report, Lifecycle!State
  <1>4. Lifecycle!Replaced(i, total)
    BY <1>3, Zenon DEF Lifecycle!Replaced, Lifecycle!IsLive, Shows
  <1> QED
    BY <1>2, <1>4, Zenon DEF Lifecycle!LifeNext

\* The report of a fill says what publishOrderExecution of the owner's last belief says.
LEMMA ExecutionIsTraded ==
    ASSUME NEW i \in Ids, Shows(told[i], order[i]), order[i] \in Order, NEW n \in Nat \ {0},
           n <= order[i].leaves
    PROVE  /\ View(Execution(i, Filled(order[i], n))) = Lifecycle!Traded(told[i], n)
           /\ Lifecycle!CanTrade(i, n) /\ n \in 1 .. told[i].leaves
  <1>1. order[i].leaves \in Nat /\ order[i].cum \in Nat
    BY Zenon DEF Order
  <1>2. /\ Filled(order[i], n).leaves = told[i].leaves - n
        /\ Filled(order[i], n).cum = told[i].cum + n
    BY FilledFields DEF Shows
  <1>3. Filled(order[i], n).leaves > 0 <=> told[i].leaves > n
    BY <1>1, <1>2 DEF Shows
  <1>4. View(Execution(i, Filled(order[i], n))) = Lifecycle!Traded(told[i], n)
    BY <1>2, <1>3, Zenon DEF View, Execution, Report, Lifecycle!Traded, Lifecycle!State
  <1>5. Lifecycle!CanTrade(i, n) /\ n \in 1 .. told[i].leaves
    BY <1>1 DEF Lifecycle!CanTrade, Lifecycle!IsLive, Shows
  <1> QED
    BY <1>4, <1>5, Zenon

\* A fill that has one owner is a step of that order's life.
LEMMA ExecutedStep ==
    ASSUME NEW i \in Ids, Shows(told[i], order[i]), order[i] \in Order, NEW n \in Nat \ {0},
           n <= order[i].leaves,
           told' = [told EXCEPT ![i] = View(Execution(i, Filled(order[i], n)))]
    PROVE  Lifecycle!LifeNext
  <1>1. Lifecycle!Executed(i, n) /\ n \in 1 .. told[i].leaves
    BY ExecutionIsTraded, Zenon DEF Lifecycle!Executed
  <1> QED
    BY <1>1, Zenon DEF Lifecycle!LifeNext

\* A fill of two clients' orders moves the same quantity in both lives.
LEMMA CrossedStep ==
    ASSUME NEW i \in Ids, NEW j \in Ids, i # j, Shows(told[i], order[i]), Shows(told[j], order[j]), told \in Beliefs,
           order[i] \in Order, order[j] \in Order, NEW n \in Nat \ {0},
           n <= order[i].leaves, n <= order[j].leaves,
           told' = [told EXCEPT ![i] = View(Execution(i, Filled(order[i], n))),
                                ![j] = View(Execution(j, Filled(order[j], n)))]
    PROVE  Lifecycle!LifeNext
  <1>1. /\ View(Execution(i, Filled(order[i], n))) = Lifecycle!Traded(told[i], n)
        /\ Lifecycle!CanTrade(i, n) /\ n \in 1 .. told[i].leaves
    BY ExecutionIsTraded, Zenon
  <1>2. /\ View(Execution(j, Filled(order[j], n))) = Lifecycle!Traded(told[j], n)
        /\ Lifecycle!CanTrade(j, n)
    BY ExecutionIsTraded, Zenon
  <1>3. told' = [told EXCEPT ![i] = Lifecycle!Traded(told[i], n),
                             ![j] = Lifecycle!Traded(told[j], n)]
    BY <1>1, <1>2, Zenon
  <1>4. told' = [told EXCEPT ![i] = Lifecycle!Traded(@, n), ![j] = Lifecycle!Traded(@, n)]
    BY <1>3, Zenon DEF Beliefs
  <1>5. Lifecycle!Crossed(i, j, n)
    BY <1>1, <1>2, <1>4, Zenon DEF Lifecycle!Crossed
  <1> QED
    BY <1>1, <1>5, Zenon DEF Lifecycle!LifeNext

-----------------------------------------------------------------------------
\* What the steps share.

\* Orders outside S keep their reports, their fills and their place in the index.
LEMMA OthersFrame ==
    ASSUME OthersOK, TypeOK, nextId' \in {nextId, nextId + 1}, NEW S \in SUBSET Ids,
           \A i \in Ids \ S :
               /\ told'[i] = told[i] /\ (i \in orders_' <=> i \in orders_)
               /\ i \in orders_ => order'[i].cum = order[i].cum /\ order'[i].leaves = order[i].leaves
               /\ i \in InHand => i \in InHand',
           \A i \in S :
               /\ i < nextId'
               /\ i \notin InHand' => IF i \in orders_' THEN Shows(told'[i], order'[i])
                                 ELSE HasEnded(told'[i]) \/ told'[i] = Untold
    PROVE  OthersOK'
  <1> SUFFICES ASSUME NEW i \in Ids
               PROVE  /\ i >= nextId' => told'[i] = Untold
                      /\ i \notin InHand' => IF i \in orders_' THEN Shows(told'[i], order'[i])
                                        ELSE HasEnded(told'[i]) \/ told'[i] = Untold
    BY Zenon DEF OthersOK
  <1>1. nextId \in Int /\ nextId' \in Int /\ i \in Int /\ nextId' >= nextId
    BY DEF TypeOK, Ids
  <1>2. CASE i \in S
    BY <1>1, <1>2
  <1>3. CASE i \notin S
    <2>1. i >= nextId' => told'[i] = Untold
      BY <1>1, <1>3 DEF OthersOK
    <2>2. i \notin InHand' => IF i \in orders_' THEN Shows(told'[i], order'[i])
                         ELSE HasEnded(told'[i]) \/ told'[i] = Untold
      BY <1>3, Zenon DEF OthersOK, Shows, HasEnded
    <2> QED
      BY <2>1, <2>2, Zenon
  <1> QED
    BY <1>2, <1>3, Zenon

\* What is known of the order in hand.
LEMMA HandFacts ==
    ASSUME Inv, Working
    PROVE  /\ TypeOK /\ told \in Beliefs
           /\ cur.id \in Ids /\ cur.id < nextId /\ order[cur.id] \in Order
           /\ cur.kind \in {"new", "modify"}
           /\ cur.kind = "new" <=> cur.id \notin orders_
           /\ cur.id \in orders_ => order[cur.id].tif = "GTC"
  <1>1. TypeOK /\ KindOK /\ NewOK /\ ModifyOK /\ IdsOK
    BY Zenon DEF Inv, HandlerOK
  <1>2. cur.id \in Ids /\ cur.id < nextId /\ cur.kind \in {"new", "modify"}
    BY <1>1, Zenon DEF KindOK, Working
  <1>3. cur.kind = "new" <=> cur.id \notin orders_
    BY <1>1, <1>2, Zenon DEF NewOK, ModifyOK
  <1>4. cur.id \in orders_ => order[cur.id].tif = "GTC"
    BY <1>1, <1>2, Zenon DEF IdsOK
  <1>5. told \in Beliefs /\ order[cur.id] \in Order
    BY <1>1, <1>2, Zenon DEF TypeOK, Beliefs
  <1> QED
    BY <1>1, <1>2, <1>3, <1>4, <1>5, Zenon

\* A resting order that is not in hand is known to its owner.
LEMMA RestingFacts ==
    ASSUME Inv, Owners, NEW j \in orders_, j \notin InHand
    PROVE  /\ j \in Ids /\ order[j] \in Order /\ told \in Beliefs /\ Shows(told[j], order[j])
           /\ nextId \in Nat /\ j < nextId
           /\ ~(cur.kind = "modify" /\ cur.id = j) =>
                 l3[j].qty = order[j].leaves /\ order[j].leaves > 0
  <1>1. TypeOK /\ IdsOK /\ BookAgreesWithOrders
    BY Zenon DEF Inv, HandlerOK
  <1>2. j \in Ids /\ order[j] \in Order /\ told \in Beliefs /\ nextId \in Nat /\ j \in Nat
    BY <1>1 DEF TypeOK, Beliefs, Ids
  <1>3. Shows(told[j], order[j])
    BY <1>2, Zenon DEF Owners, OthersOK
  <1>4. ~(j >= nextId)
    BY <1>1, <1>2, Zenon DEF IdsOK
  <1>5. ~(cur.kind = "modify" /\ cur.id = j) =>
            l3[j].qty = order[j].leaves /\ order[j].leaves > 0
    BY <1>1, OwnAgrees, Zenon
  <1> QED
    BY <1>2, <1>3, <1>4, <1>5

\* A change of one belief leaves the others alone.
LEMMA OneBelief ==
    ASSUME NEW i \in Ids, told \in Beliefs, NEW v, told' = [told EXCEPT ![i] = v]
    PROVE  told'[i] = v /\ \A k \in Ids \ {i} : told'[k] = told[k]
  BY Zenon DEF Beliefs

\* Steps of the feed and of the dispatcher: no order's state, no report, nothing in hand.
LEMMA QuietStep ==
    ASSUME Inv, Owners, ~Working, ~Working', told' = told, order' = order,
           orders_' = orders_, nextId' \in {nextId, nextId + 1}
    PROVE  Owners' /\ LifeStep
  <1>1. TypeOK /\ OthersOK
    BY Zenon DEF Inv, Owners
  <1>2. \A i \in Ids :
               /\ told'[i] = told[i] /\ (i \in orders_' <=> i \in orders_)
               /\ i \in orders_ => order'[i].cum = order[i].cum /\ order'[i].leaves = order[i].leaves
               /\ i \in InHand => i \in InHand'
    BY Zenon DEF InHand
  <1> DEFINE S == {}
  <1>3. S \in SUBSET Ids /\ \A i \in S : FALSE
    BY Zenon
  <1> HIDE DEF S
  <1>4. OthersOK'
    BY <1>1, <1>2, <1>3, OthersFrame, Zenon
  <1>5. CurrentOK'
    BY Zenon DEF CurrentOK
  <1> QED
    BY <1>4, <1>5, Zenon DEF Owners, LifeStep

\* Steps that change the state, the report or the handling of one order only.
LEMMA OneFrame ==
    ASSUME OthersOK, TypeOK, nextId' \in {nextId, nextId + 1}, NEW i \in Ids, i < nextId',
           \A k \in Ids \ {i} :
               /\ told'[k] = told[k] /\ (k \in orders_' <=> k \in orders_)
               /\ k \in orders_ => order'[k].cum = order[k].cum /\ order'[k].leaves = order[k].leaves
               /\ k \in InHand => k \in InHand',
           i \notin InHand' => IF i \in orders_' THEN Shows(told'[i], order'[i])
                               ELSE HasEnded(told'[i]) \/ told'[i] = Untold
    PROVE  OthersOK'
  <1> DEFINE S == {i}
  <1>1. S \in SUBSET Ids /\ \A k \in S : k = i
    BY Zenon
  <1>2. \A k \in Ids \ S : k \in Ids \ {i}
    BY Zenon
  <1> HIDE DEF S
  <1> QED
    BY <1>1, <1>2, OthersFrame, Zenon

-----------------------------------------------------------------------------
\* Requests.

\* A new order is in hand before anything is said of its state.
LEMMA NewOrderOwners ==
    ASSUME Inv, Owners, NEW client \in Clients \cup {NoClient},
           NEW cl \in ClOrdIds \cup {NoClOrdId}, NEW side \in Sides, NEW price \in NewPrices,
           NEW qty \in NewQtys, NEW tif \in NewTifs, NEW tag \in Tags,
           NewOrder(client, cl, side, price, qty, tif, tag)
    PROVE  Owners' /\ LifeStep
  <1>1. TypeOK /\ OthersOK /\ IdsOK
    BY Zenon DEF Inv, HandlerOK, Owners
  <1>2. /\ pc = "idle" /\ pc' = "smp" /\ nextId <= MaxId /\ nextId' = nextId + 1
        /\ told' = told /\ orders_' = orders_
    BY Zenon DEF NewOrder, Notify, indexVars
  <1>3. nextId \in Ids /\ nextId < nextId'
    BY <1>1, <1>2 DEF TypeOK, Ids
  <1>4. cur'.id = nextId /\ cur'.kind = "new"
    BY Zenon DEF NewOrder, NoHandler
  <1>5. \A k \in Ids \ {nextId} : order'[k] = order[k]
    BY <1>1, <1>3, Zenon DEF NewOrder, TypeOK
  <1>6. Working' /\ nextId \in InHand' /\ ~Working
    BY <1>2, <1>4, Zenon DEF Working, InHand
  <1>7. OthersOK'
    <2>1. \A k \in Ids \ {nextId} :
               /\ told'[k] = told[k] /\ (k \in orders_' <=> k \in orders_)
               /\ k \in orders_ => order'[k].cum = order[k].cum /\ order'[k].leaves = order[k].leaves
               /\ k \in InHand => k \in InHand'
      BY <1>2, <1>5, <1>6, Zenon DEF InHand
    <2> QED
      BY <1>1, <1>2, <1>3, <1>6, <2>1, OneFrame, Zenon
  <1>8. told'[cur'.id] = Untold /\ order'[cur'.id].cum = 0
    <2>1. told'[cur'.id] = Untold
      BY <1>1, <1>2, <1>3, <1>4 DEF OthersOK, TypeOK
    <2>2. order'[nextId].cum = 0
      BY <1>1, <1>3, Zenon DEF NewOrder, TypeOK
    <2> QED
      BY <1>4, <2>1, <2>2, Zenon
  <1>9. CurrentOK'
    BY <1>2, <1>4, <1>8, Zenon DEF CurrentOK
  <1> QED
    BY <1>2, <1>7, <1>9, Zenon DEF Owners, LifeStep

\* The id a request names its order by leads to a resting order.
LEMMA LookupFacts ==
    ASSUME Inv, NEW cl \in ClOrdIds \cup {NoClOrdId}, NEW oid \in Ids, Lookup(cl, oid) # NoId
    PROVE  Lookup(cl, oid) \in orders_ /\ Lookup(cl, oid) \in Ids
  BY Zenon DEF Inv, Lookup, IndicesInLockstep, TypeOK

\* An amendment request changes the order's tag and says nothing of its state.
LEMMA ModifyOrderOwners ==
    ASSUME Inv, Owners, NullPrice \notin AmendPrices, NEW cl \in ClOrdIds \cup {NoClOrdId},
           NEW oid \in Ids, NEW price \in AmendPrices, NEW qty \in AmendQtys, NEW tag \in Tags,
           ModifyOrder(cl, oid, price, qty, tag)
    PROVE  Owners' /\ LifeStep
  <1> DEFINE i == Lookup(cl, oid)
  <1>1. TypeOK /\ OthersOK
    BY Zenon DEF Inv, Owners
  <1>2. /\ pc = "idle" /\ pc' = "smp" /\ i # NoId /\ told' = told /\ orders_' = orders_
        /\ nextId' = nextId /\ order' = [order EXCEPT ![i].tag = tag]
    BY Zenon DEF ModifyOrder, Notify, indexVars
  <1>3. i \in orders_ /\ i \in Ids
    BY <1>2, LookupFacts, Zenon
  <1>4. cur'.id = i /\ cur'.kind = "modify" /\ cur'.price = price
    BY Zenon DEF ModifyOrder, NoHandler
  <1> HIDE DEF i
  <1>5. ~Working /\ Working' /\ InHand = {} /\ i \in InHand'
    BY <1>2, <1>4, Zenon DEF Working, InHand
  <1>6. i \notin InHand
    BY <1>5, Zenon
  <1>7. /\ i < nextId /\ Shows(told[i], order[i]) /\ order[i] \in Order
    BY <1>3, <1>6, RestingFacts, Zenon
  <1>8. /\ \A k \in Ids \ {i} : order'[k] = order[k]
        /\ order'[i] = [order[i] EXCEPT !.tag = tag]
    BY <1>1, <1>2, <1>3, Zenon DEF TypeOK
  <1>9. order'[i].cum = order[i].cum /\ order'[i].leaves = order[i].leaves
    BY <1>7, <1>8, Zenon DEF Order
  <1>10. OthersOK'
    <2>1. \A k \in Ids \ {i} :
               /\ told'[k] = told[k] /\ (k \in orders_' <=> k \in orders_)
               /\ k \in orders_ => order'[k].cum = order[k].cum /\ order'[k].leaves = order[k].leaves
               /\ k \in InHand => k \in InHand'
      BY <1>2, <1>5, <1>8, Zenon
    <2> QED
      BY <1>1, <1>2, <1>3, <1>5, <1>7, <2>1, OneFrame, Zenon
  <1>11. Shows(told'[cur'.id], order'[cur'.id])
    BY <1>2, <1>4, <1>7, <1>9, Zenon DEF Shows
  <1>12. CurrentOK'
    BY <1>2, <1>4, <1>11, Zenon DEF CurrentOK
  <1> QED
    BY <1>2, <1>10, <1>12, Zenon DEF Owners, LifeStep

\* Neither does a cancel request, before the cancel itself.
LEMMA CancelOrderOwners ==
    ASSUME Inv, Owners, NEW cl \in ClOrdIds \cup {NoClOrdId}, NEW oid \in Ids,
           NEW tag \in Tags, CancelOrder(cl, oid, tag)
    PROVE  Owners' /\ LifeStep
  <1> DEFINE i == Lookup(cl, oid)
  <1>1. TypeOK /\ OthersOK
    BY Zenon DEF Inv, Owners
  <1>2. /\ pc = "idle" /\ pc' = "cancel" /\ i # NoId /\ told' = told /\ orders_' = orders_
        /\ nextId' = nextId /\ order' = [order EXCEPT ![i].tag = tag]
    BY Zenon DEF CancelOrder, Notify, indexVars
  <1>3. i \in orders_ /\ i \in Ids
    BY <1>2, LookupFacts, Zenon
  <1> HIDE DEF i
  <1>4. ~Working /\ ~Working' /\ InHand = {}
    BY <1>2, Zenon DEF Working, InHand
  <1>5. i \notin InHand
    BY <1>4, Zenon
  <1>6. /\ i < nextId /\ Shows(told[i], order[i]) /\ order[i] \in Order
    BY <1>3, <1>5, RestingFacts, Zenon
  <1>7. /\ \A k \in Ids \ {i} : order'[k] = order[k]
        /\ order'[i] = [order[i] EXCEPT !.tag = tag]
    BY <1>1, <1>2, <1>3, Zenon DEF TypeOK
  <1>8. Shows(told'[i], order'[i])
    BY <1>2, <1>6, <1>7 DEF Shows, Order
  <1>9. OthersOK'
    <2>1. \A k \in Ids \ {i} :
               /\ told'[k] = told[k] /\ (k \in orders_' <=> k \in orders_)
               /\ k \in orders_ => order'[k].cum = order[k].cum /\ order'[k].leaves = order[k].leaves
               /\ k \in InHand => k \in InHand'
      BY <1>2, <1>4, <1>7, Zenon
    <2> QED
      BY <1>1, <1>2, <1>3, <1>6, <1>8, <2>1, OneFrame, Zenon
  <1> QED
    BY <1>2, <1>4, <1>9, Zenon DEF Owners, LifeStep, CurrentOK

\* A refused request, the feed's own bookkeeping and the flush concern no order's owner.
LEMMA QuietOwners ==
    ASSUME Inv, Owners,
           \/ \E ref \in Ids \cup {NoId} : RejectRequest(ref)
           \/ MarketEvent \/ Flush \/ RestMarketOrder \/ EndFeed
    PROVE  Owners' /\ LifeStep
  <1> DEFINE Quiet == /\ pc \in {"idle", "packet", "feed", "flush"}
                      /\ pc' \in {"idle", "packet", "feed", "flush"}
                      /\ told' = told /\ order' = order /\ orders_' = orders_
                      /\ nextId' \in {nextId, nextId + 1}
  <1>1. ASSUME NEW ref \in Ids \cup {NoId}, RejectRequest(ref) PROVE Quiet
    BY <1>1, Zenon DEF RejectRequest, Notify, bookVars
  <1>2. ASSUME NEW side \in Sides, NEW price \in Prices, NEW qty \in MarketQtys,
               MarketNew(side, price, qty) \/ MarketTrade(side, price, qty)
        PROVE  Quiet
    BY <1>2, Zenon DEF MarketNew, MarketTrade, Aggress, InPacket, Silent, indexVars
  <1>3. ASSUME NEW i \in Ids, NEW qty \in MarketQtys, MarketChange(i, qty) \/ MarketRestore(i, qty)
        PROVE  Quiet
    BY <1>3, Zenon DEF MarketChange, MarketRestore, Aggress, InPacket, Silent, indexVars, bookVars
  <1>4. ASSUME NEW i \in Ids, NEW price \in Prices, NEW qty \in MarketQtys,
               MarketRequeue(i, price, qty)
        PROVE  Quiet
    BY <1>4, Zenon DEF MarketRequeue, Aggress, InPacket, Silent, indexVars
  <1>5. ASSUME NEW i \in Ids, MarketDelete(i) PROVE Quiet
    BY <1>5, Zenon DEF MarketDelete, InPacket, Silent, indexVars
  <1>6. ASSUME Flush PROVE Quiet
    BY <1>6, Zenon DEF Flush, Silent, indexVars
  <1>7. ASSUME RestMarketOrder PROVE Quiet
    BY <1>7, Zenon DEF RestMarketOrder, Silent, indexVars
  <1>8. ASSUME EndFeed PROVE Quiet
    BY <1>8, Zenon DEF EndFeed, Silent, bookVars
  <1>9. Quiet
    BY <1>1, <1>2, <1>3, <1>4, <1>5, <1>6, <1>7, <1>8, Zenon DEF MarketEvent
  <1>10. ~Working /\ ~Working'
    BY <1>9, Zenon DEF Working
  <1> QED
    BY <1>9, <1>10, QuietStep, Zenon

-----------------------------------------------------------------------------
\* A step on the order in hand that ends with the order in hand, or in its final state.
LEMMA HandFrame ==
    ASSUME Inv, Owners, Working, nextId' = nextId,
           \A k \in Ids \ {cur.id} :
               /\ told'[k] = told[k] /\ (k \in orders_' <=> k \in orders_)
               /\ k \in orders_ => order'[k].cum = order[k].cum /\ order'[k].leaves = order[k].leaves,
           \/ Working' /\ cur'.id = cur.id
           \/ IF cur.id \in orders_' THEN Shows(told'[cur.id], order'[cur.id])
              ELSE HasEnded(told'[cur.id]) \/ told'[cur.id] = Untold
    PROVE  OthersOK'
  <1>1. OthersOK /\ TypeOK /\ cur.id \in Ids /\ cur.id < nextId'
    BY HandFacts, Zenon DEF Owners
  <1>2. \A k \in Ids \ {cur.id} : k \notin InHand
    BY Zenon DEF InHand
  <1>3. Working' /\ cur'.id = cur.id => cur.id \in InHand'
    BY Zenon DEF InHand
  <1> QED
    BY <1>1, <1>2, <1>3, OneFrame, Zenon

\* A step of the engine that changes no order and reports nothing.
LEMMA SilentFrame ==
    ASSUME Inv, Owners, Working, Working', nextId' = nextId, told' = told, order' = order,
           orders_' = orders_, cur' = cur
    PROVE  OthersOK' /\ LifeStep
  BY HandFrame, Zenon DEF LifeStep

\* The pre-trade reject: a new order ends before it was acknowledged, an amended one
\* stays as its owner knows it.
LEMMA RejectSelfMatchOwners ==
    ASSUME Inv, Owners, SelfMatchDecidedUpFront, RejectSelfMatch
    PROVE  Owners' /\ LifeStep
  <1> DEFINE i == cur.id
  <1>1. pc = "smp" /\ Working /\ RejectCurrent
    BY Zenon DEF RejectSelfMatch, SelfMatchDecidedUpFront, Working
  <1>2. /\ TypeOK /\ told \in Beliefs /\ i \in Ids /\ order[i] \in Order
        /\ cur.kind = "new" <=> i \notin orders_
    BY <1>1, HandFacts, Zenon
  <1>3. pc' = "flush" /\ ~Working' /\ orders_' = orders_ /\ nextId' = nextId
    BY <1>1, Zenon DEF RejectCurrent, Working, indexVars
  <1>4. CASE cur.kind = "new"
    <2>1. /\ told' = [told EXCEPT ![i] = View(Rejection(NoId))] /\ told[i] = Untold
          /\ order' = [order EXCEPT ![i] = Recycled]
      BY <1>1, <1>4, Zenon DEF RejectCurrent, Owners, CurrentOK
    <2>2. Lifecycle!LifeNext
      BY <1>2, <2>1, RefusedStep, Zenon
    <2>3. HasEnded(told'[i]) /\ \A k \in Ids \ {i} : told'[k] = told[k] /\ order'[k] = order[k]
      BY <1>2, <2>1, OneBelief DEF TypeOK, HasEnded, Terminal, View, Rejection, Report
    <2>4. OthersOK'
      BY <1>1, <1>2, <1>3, <1>4, <2>3, HandFrame, Zenon
    <2> QED
      BY <1>3, <2>2, <2>4, Zenon DEF Owners, CurrentOK, LifeStep
  <1>5. CASE cur.kind # "new"
    <2>1. /\ told' = told /\ order' = [order EXCEPT ![i].tag = cur.tag]
          /\ Shows(told[i], order[i])
      BY <1>1, <1>5, Zenon DEF RejectCurrent, RestoreTag, Notify, Owners, CurrentOK
    <2>2. /\ \A k \in Ids \ {i} : order'[k] = order[k]
          /\ order'[i] = [order[i] EXCEPT !.tag = cur.tag]
      BY <1>2, <2>1, Zenon DEF TypeOK
    <2>3. Shows(told'[i], order'[i])
      BY <1>2, <2>1, <2>2 DEF Shows, Order
    <2>4. OthersOK'
      BY <1>1, <1>2, <1>3, <1>5, <2>1, <2>2, <2>3, HandFrame, Zenon
    <2> QED
      BY <1>3, <2>1, <2>4, Zenon DEF Owners, CurrentOK, LifeStep
  <1> QED
    BY <1>4, <1>5, Zenon

\* publishOrderAck is the first an owner hears of the order's state.
LEMMA AcknowledgeOwners == ASSUME Inv, Owners, Acknowledge PROVE Owners' /\ LifeStep
  <1> DEFINE i == cur.id
  <1>1. /\ pc = "smp" /\ pc' = "fok" /\ cur' = cur /\ nextId' = nextId /\ orders_' = orders_
        /\ order' = order
    BY Zenon DEF Acknowledge, bookVars
  <1>2. Working /\ Working'
    BY <1>1, Zenon DEF Working
  <1>3. /\ told \in Beliefs /\ i \in Ids /\ order[i] \in Order /\ cur.kind \in {"new", "modify"}
        /\ order[i].leaves \in Nat
    BY <1>2, HandFacts, Zenon DEF Order
  <1>4. CASE cur.kind = "new"
    <2>1. /\ told[i] = Untold /\ order[i].cum = 0
          /\ Tell(Report(i, "NEW", 0, order[i].leaves))
      BY <1>1, <1>2, <1>4, Zenon DEF Acknowledge, Owners, CurrentOK
    <2>2. told' = [told EXCEPT ![i] = View(Report(i, "NEW", 0, order[i].leaves))]
      BY <2>1, Zenon DEF Tell, Report
    <2>3. Lifecycle!LifeNext
      BY <1>3, <2>1, <2>2, AcceptedStep, Zenon
    <2>4. /\ told'[i] = View(Report(i, "NEW", 0, order[i].leaves))
          /\ \A k \in Ids \ {i} : told'[k] = told[k]
      BY <1>3, <2>2, OneBelief, Zenon
    <2>5. Shows(told'[i], order'[i])
      BY <1>1, <2>1, <2>4 DEF Shows, Lifecycle!Live, View, Report
    <2>6. OthersOK'
      BY <1>1, <1>2, <2>4, HandFrame, Zenon
    <2>7. CurrentOK'
      BY <1>1, <1>4, <2>5, Zenon DEF CurrentOK
    <2> QED
      BY <2>3, <2>6, <2>7, Zenon DEF Owners, LifeStep
  <1>5. CASE cur.kind = "modify"
    <2>1. told' = told /\ Shows(told[i], order[i]) /\ cur.price # NullPrice
      BY <1>1, <1>2, <1>5, Zenon DEF Acknowledge, Silent, Owners, CurrentOK
    <2>2. OthersOK' /\ LifeStep
      BY <1>1, <1>2, <2>1, SilentFrame, Zenon
    <2>3. CurrentOK'
      BY <1>1, <2>1, Zenon DEF CurrentOK
    <2> QED
      BY <2>2, <2>3, Zenon DEF Owners
  <1> QED
    BY <1>3, <1>4, <1>5, Zenon

\* A fill-or-kill order that cannot fill ends with what its owner was acknowledged.
LEMMA KillFokOwners == ASSUME Inv, Owners, KillFok PROVE Owners' /\ LifeStep
  <1> DEFINE i == cur.id
  <1>1. /\ pc = "fok" /\ order[i].tif = "FOK" /\ pc' = "flush" /\ nextId' = nextId
        /\ orders_' = orders_ /\ order' = [order EXCEPT ![i] = Recycled]
        /\ Tell(Cancellation(i, order[i]))
    BY Zenon DEF KillFok, indexVars
  <1>2. Working /\ ~Working'
    BY <1>1, Zenon DEF Working
  <1>3. TypeOK /\ told \in Beliefs /\ i \in Ids /\ i \notin orders_ /\ Shows(told[i], order[i])
    BY <1>1, <1>2, HandFacts, Zenon DEF Owners, CurrentOK
  <1>4. told' = [told EXCEPT ![i] = View(Cancellation(i, order[i]))]
    BY <1>1, Zenon DEF Tell, Cancellation, Report
  <1>5. Lifecycle!LifeNext /\ HasEnded(told'[i])
    BY <1>3, <1>4, CanceledStep, Zenon
  <1>6. \A k \in Ids \ {i} : told'[k] = told[k] /\ order'[k] = order[k]
    BY <1>1, <1>3, <1>4, OneBelief, Zenon DEF TypeOK
  <1>7. OthersOK'
    BY <1>1, <1>2, <1>3, <1>5, <1>6, HandFrame, Zenon
  <1> QED
    BY <1>2, <1>5, <1>7, Zenon DEF Owners, CurrentOK, LifeStep

\* The checks before the match say nothing.
LEMMA PassFokOwners == ASSUME Inv, Owners, PassFok PROVE Owners' /\ LifeStep
  <1>1. /\ pc = "fok" /\ cur' = cur /\ nextId' = nextId /\ orders_' = orders_
        /\ order' = order /\ told' = told
        /\ pc' = IF cur.kind = "modify" THEN "replace"
                 ELSE IF order[cur.id].leaves = 0 THEN "zero" ELSE "match"
    BY Zenon DEF PassFok, bookVars, Silent
  <1>2. Working /\ Working'
    BY <1>1, Zenon DEF Working
  <1>3. /\ Shows(told[cur.id], order[cur.id]) /\ (cur.kind = "modify" => cur.price # NullPrice)
        /\ order[cur.id].leaves \in Nat
    BY <1>1, <1>2, HandFacts, Zenon DEF Owners, CurrentOK, Order
  <1>4. OthersOK' /\ LifeStep
    BY <1>1, <1>2, SilentFrame, Zenon
  <1>5. CurrentOK'
    BY <1>1, <1>3 DEF CurrentOK
  <1> QED
    BY <1>4, <1>5, Zenon DEF Owners

\* publishOrderModify shows the amended order, fills kept.
LEMMA ApplyReplaceOwners == ASSUME Inv, Owners, ApplyReplace PROVE Owners' /\ LifeStep
  <1> DEFINE i == cur.id
             leaves == IF order[i].cum >= cur.qty THEN 0 ELSE cur.qty - order[i].cum
             o == [order[i] EXCEPT !.quantity = cur.qty, !.price = cur.price, !.leaves = leaves]
  <1>1. /\ pc = "replace" /\ cur' = cur /\ nextId' = nextId /\ orders_' = orders_
        /\ order' = [order EXCEPT ![i].quantity = cur.qty, ![i].price = cur.price,
                                  ![i].leaves = leaves]
        /\ pc' = (IF leaves = 0 THEN "zero" ELSE "match")
        /\ Tell(Report(i, "REPLACED", order[i].cum, leaves))
    BY Zenon DEF ApplyReplace, indexVars
  <1>2. Working /\ Working'
    BY <1>1, Zenon DEF Working
  <1>3. /\ TypeOK /\ told \in Beliefs /\ i \in Ids /\ order[i] \in Order
        /\ order[i].cum \in Nat /\ cur.qty \in Nat
        /\ Shows(told[i], order[i]) /\ (cur.kind = "modify" => cur.price # NullPrice)
    BY <1>1, <1>2, HandFacts, Zenon DEF Owners, CurrentOK, Order, TypeOK, Handlers
  <1>4. told' = [told EXCEPT ![i] = View(Report(i, "REPLACED", order[i].cum, leaves))]
    BY <1>1, Zenon DEF Tell, Report
  <1>5. Lifecycle!LifeNext
    BY <1>3, <1>4, ReplacedStep, Zenon
  <1>6. /\ told'[i] = View(Report(i, "REPLACED", order[i].cum, leaves))
        /\ \A k \in Ids \ {i} : told'[k] = told[k]
    BY <1>3, <1>4, OneBelief, Zenon
  <1>7. order'[i].leaves = leaves /\ order'[i].cum = order[i].cum
    <2>1. order' = [order EXCEPT ![i] = o]
      BY <1>1, <1>3, Zenon DEF TypeOK
    <2>2. order'[i] = o
      BY <1>3, <2>1, Zenon DEF TypeOK
    <2>3. o.leaves = leaves /\ o.cum = order[i].cum
      BY <1>3, Zenon DEF Order
    <2> QED
      BY <2>2, <2>3, Zenon
  <1>8. \A k \in Ids \ {i} : order'[k] = order[k]
    BY <1>1, <1>3, Zenon DEF TypeOK
  <1>9. Shows(told'[i], order'[i]) /\ leaves \in Nat
    BY <1>3, <1>6, <1>7 DEF Shows, Lifecycle!Live, View, Report
  <1> HIDE DEF leaves
  <1>10. OthersOK'
    BY <1>1, <1>2, <1>6, <1>8, HandFrame, Zenon
  <1>11. CurrentOK'
    BY <1>1, <1>3, <1>7, <1>9 DEF CurrentOK
  <1> QED
    BY <1>5, <1>10, <1>11, Zenon DEF Owners, LifeStep

\* An order with nothing left ends with the fills its owner knows of.
LEMMA CancelZeroLeavesOwners == ASSUME Inv, Owners, CancelZeroLeaves PROVE Owners' /\ LifeStep
  <1> DEFINE i == cur.id
  <1>1. /\ pc = "zero" /\ pc' = "rest" /\ cur' = cur /\ nextId' = nextId /\ orders_' = orders_
        /\ order' = order /\ Tell(Cancellation(i, order[i]))
    BY Zenon DEF CancelZeroLeaves, bookVars
  <1>2. Working /\ Working'
    BY <1>1, Zenon DEF Working
  <1>3. /\ told \in Beliefs /\ i \in Ids /\ Shows(told[i], order[i])
        /\ order[i].leaves = 0 /\ (cur.kind = "modify" => cur.price # NullPrice)
    BY <1>1, <1>2, HandFacts, Zenon DEF Owners, CurrentOK, Inv, HandlerOK, RestOK
  <1>4. told' = [told EXCEPT ![i] = View(Cancellation(i, order[i]))]
    BY <1>1, Zenon DEF Tell, Cancellation, Report
  <1>5. Lifecycle!LifeNext /\ HasEnded(told'[i])
    BY <1>3, <1>4, CanceledStep, Zenon
  <1>6. \A k \in Ids \ {i} : told'[k] = told[k]
    BY <1>3, <1>4, OneBelief, Zenon
  <1>7. OthersOK'
    BY <1>1, <1>2, <1>6, HandFrame, Zenon
  <1>8. CurrentOK'
    BY <1>1, <1>3, <1>5 DEF CurrentOK
  <1> QED
    BY <1>5, <1>7, <1>8, Zenon DEF Owners, LifeStep

\* The end of the matching loop: what cannot rest is reported cancelled, once.
LEMMA EndMatchOwners == ASSUME Inv, Owners, EndMatch PROVE Owners' /\ LifeStep
  <1> DEFINE i == cur.id
             rests == order[i].leaves > 0 /\ RestsRemainder(order[i])
  <1>1. /\ pc = "match" /\ pc' = "rest" /\ cur' = cur /\ nextId' = nextId /\ orders_' = orders_
        /\ order' = order
        /\ IF order[i].leaves > 0 /\ ~RestsRemainder(order[i])
             THEN Tell(Cancellation(i, order[i])) ELSE Silent
    BY Zenon DEF EndMatch, bookVars
  <1>2. Working /\ Working'
    BY <1>1, Zenon DEF Working
  <1>3. /\ told \in Beliefs /\ i \in Ids /\ (cur.kind = "modify" => cur.price # NullPrice)
        /\ IF order[i].leaves > 0 THEN Shows(told[i], order[i]) ELSE HasEnded(told[i])
    BY <1>1, <1>2, HandFacts, Zenon DEF Owners, CurrentOK
  <1>4. CASE order[i].leaves > 0 /\ ~RestsRemainder(order[i])
    <2>1. told' = [told EXCEPT ![i] = View(Cancellation(i, order[i]))]
      BY <1>1, <1>4, Zenon DEF Tell, Cancellation, Report
    <2>2. Lifecycle!LifeNext /\ HasEnded(told'[i])
      BY <1>3, <1>4, <2>1, CanceledStep, Zenon
    <2>3. \A k \in Ids \ {i} : told'[k] = told[k]
      BY <1>3, <2>1, OneBelief, Zenon
    <2>4. OthersOK'
      BY <1>1, <1>2, <2>3, HandFrame, Zenon
    <2>5. CurrentOK'
      BY <1>1, <1>3, <1>4, <2>2, Zenon DEF CurrentOK
    <2> QED
      BY <2>2, <2>4, <2>5, Zenon DEF Owners, LifeStep
  <1>5. CASE ~(order[i].leaves > 0 /\ ~RestsRemainder(order[i]))
    <2>1. told' = told
      BY <1>1, <1>5, Zenon DEF Silent
    <2>2. OthersOK' /\ LifeStep
      BY <1>1, <1>2, <2>1, SilentFrame, Zenon
    <2>3. CurrentOK'
      BY <1>1, <1>3, <1>5, <2>1, Zenon DEF CurrentOK
    <2> QED
      BY <2>2, <2>3, Zenon DEF Owners
  <1> QED
    BY <1>4, <1>5, Zenon

-----------------------------------------------------------------------------
\* Fills and the cancels that take an order off the book.

\* What a fill leaves its owner with: a live order as it is, or the end.
LEMMA FilledBelief ==
    ASSUME NEW i \in Ids, NEW o \in Order, NEW n \in Nat, n <= o.leaves
    PROVE  LET b == View(Execution(i, Filled(o, n)))
           IN  IF o.leaves = n THEN HasEnded(b) ELSE Shows(b, Filled(o, n))
  <1>1. Filled(o, n).leaves = o.leaves - n /\ o.leaves \in Nat
    BY FilledFields, Zenon DEF Order
  <1>2. CASE o.leaves = n
    BY <1>1, <1>2 DEF View, Execution, Report, HasEnded, Terminal
  <1>3. CASE o.leaves # n
    <2>1. Filled(o, n).leaves > 0
      BY <1>1, <1>3
    <2> QED
      BY <1>3, <2>1, Zenon DEF View, Execution, Report, Shows, Lifecycle!Live
  <1> QED
    BY <1>2, <1>3, Zenon

\* The resting side of a fill: its owner hears of it exactly if it is a client's.
LEMMA RestingFill ==
    ASSUME Inv, Owners, NEW j \in Ids, j \notin InHand, NEW n \in Nat, l3[j].qty > 0,
           j \in orders_ => n <= order[j].leaves,
           FillIndices(j, n), order'[j] = RestingAfter(j, n),
           told'[j] = IF j \in orders_ THEN View(Execution(j, Filled(order[j], n))) ELSE told[j]
    PROVE  /\ j < nextId
           /\ \A k \in Ids \ {j} : k \in orders_' <=> k \in orders_
           /\ IF j \in orders_' THEN Shows(told'[j], order'[j])
              ELSE HasEnded(told'[j]) \/ told'[j] = Untold
  <1>1. TypeOK /\ IdsOK /\ OthersOK
    BY Zenon DEF Inv, HandlerOK, Owners
  <1>2. j < nextId
    <2>1. l3[j] # Absent
      BY DEF Absent
    <2>2. ~(j >= nextId)
      BY <1>1, <2>1, Zenon DEF IdsOK
    <2> QED
      BY <1>1, <2>2 DEF TypeOK, Ids
  <1>3. CASE j \in orders_
    <2>1. order[j] \in Order
      BY <1>1, Zenon DEF TypeOK
    <2>2. IF order[j].leaves = n THEN HasEnded(told'[j]) ELSE Shows(told'[j], Filled(order[j], n))
      BY <1>3, <2>1, FilledBelief, Zenon
    <2>3. CASE order[j].leaves = n
      <3>1. orders_' = orders_ \ {j}
        BY <1>3, <2>3, Zenon DEF FillIndices, UnindexOrder
      <3> QED
        BY <1>2, <2>2, <2>3, <3>1, Zenon
    <2>4. CASE order[j].leaves # n
      <3>1. orders_' = orders_ /\ order'[j] = Filled(order[j], n)
        BY <1>3, <2>4, Zenon DEF FillIndices, RestingAfter, indexVars
      <3> QED
        BY <1>2, <1>3, <2>2, <2>4, <3>1, Zenon
    <2> QED
      BY <2>3, <2>4, Zenon
  <1>4. CASE j \notin orders_
    <2>1. orders_' = orders_
      BY <1>4, Zenon DEF FillIndices, indexVars
    <2> QED
      BY <1>1, <1>2, <1>4, <2>1, Zenon DEF OthersOK
  <1> QED
    BY <1>3, <1>4, Zenon

\* fillResting tells both owners of the same quantity.
LEMMA FillOwners == ASSUME Inv, Owners, NEW j \in Ids, Fill(j) PROVE Owners' /\ LifeStep
  <1> DEFINE a == cur.id
             n == Lesser(order[a].leaves, l3[j].qty)
             S == {a, j}
  <1>1. /\ TypeOK /\ NewOK /\ ModifyOK /\ BookAgreesWithOrders /\ OthersOK /\ CurrentOK
    BY Zenon DEF Inv, HandlerOK, Owners
  <1>2. /\ l3[j].qty > 0 /\ l3[j].side = Opposite(order[a].side)
        /\ order[a].leaves > 0 /\ pc = "match" /\ pc' = pc /\ cur' = cur /\ nextId' = nextId
        /\ FillIndices(j, n)
        /\ order' = [order EXCEPT ![a] = Filled(@, n), ![j] = RestingAfter(j, n)]
        /\ IF j \in orders_ THEN TellBoth(Execution(a, Filled(order[a], n)),
                                          Execution(j, Filled(order[j], n)))
                            ELSE Tell(Execution(a, Filled(order[a], n)))
    BY Zenon DEF Fill, Hit, IsFront, Resting
  <1>3. Working /\ Working' /\ InHand = {a} /\ InHand' = {a}
    BY <1>2, Zenon DEF Working, InHand
  <1>4. /\ told \in Beliefs /\ a \in Ids /\ a < nextId /\ order[a] \in Order
        /\ order[a].leaves \in Nat /\ order[j] \in Order /\ l3[j].qty \in Nat
    <2>1. told \in Beliefs /\ a \in Ids /\ a < nextId /\ order[a] \in Order
      BY <1>3, HandFacts, Zenon
    <2>2. order[j] \in Order /\ order[a].leaves \in Nat
      BY <1>1, <2>1, Zenon DEF TypeOK, Order
    <2> QED
      BY <1>1, <2>1, <2>2, EntryFields, Zenon
  <1>5. j # a /\ j \notin InHand
    <2>1. /\ l3[j].qty > 0 /\ l3[j].side = Opposite(order[a].side) /\ order[a].side \in Sides
          /\ l3[a] = Absent \/ l3[a].side = order[a].side
      BY <1>1, <1>2, <1>3, <1>4, HandFacts, Zenon DEF NewOK, ModifyOK, Order
    <2>2. j # a
      BY <2>1 DEF Absent, Opposite, Sides
    <2> QED
      BY <1>3, <2>2, Zenon
  <1>6. n \in Nat \ {0} /\ n <= order[a].leaves /\ n <= l3[j].qty
    BY <1>2, <1>4 DEF Lesser
  <1>7. Shows(told[a], order[a]) /\ (cur.kind = "modify" => cur.price # NullPrice)
    BY <1>1, <1>2, <1>3, Zenon DEF CurrentOK
  <1>8. j \in orders_ => Shows(told[j], order[j]) /\ n <= order[j].leaves
    BY <1>5, <1>6, RestingFacts, Zenon
  <1> HIDE DEF n
  <1>9. /\ order'[a] = Filled(order[a], n) /\ order'[j] = RestingAfter(j, n)
        /\ \A k \in Ids \ {a, j} : order'[k] = order[k]
    BY <1>1, <1>2, <1>4, <1>5, Zenon DEF TypeOK
  <1>10. /\ told'[a] = View(Execution(a, Filled(order[a], n)))
         /\ told'[j] = IF j \in orders_ THEN View(Execution(j, Filled(order[j], n))) ELSE told[j]
         /\ \A k \in Ids \ {a, j} : told'[k] = told[k]
         /\ Lifecycle!LifeNext
    <2>1. CASE j \in orders_
      <3>1. told' = [told EXCEPT ![a] = View(Execution(a, Filled(order[a], n))),
                                 ![j] = View(Execution(j, Filled(order[j], n)))]
        BY <1>2, <2>1, Zenon DEF TellBoth, Execution, Report
      <3>2. Lifecycle!LifeNext
        BY <1>4, <1>5, <1>6, <1>7, <1>8, <2>1, <3>1, CrossedStep, Zenon
      <3> QED
        BY <1>4, <1>5, <2>1, <3>1, <3>2, Zenon DEF Beliefs
    <2>2. CASE j \notin orders_
      <3>1. told' = [told EXCEPT ![a] = View(Execution(a, Filled(order[a], n)))]
        BY <1>2, <2>2, Zenon DEF Tell, Execution, Report
      <3>2. Lifecycle!LifeNext
        BY <1>4, <1>6, <1>7, <3>1, ExecutedStep, Zenon
      <3> QED
        BY <1>4, <1>5, <2>2, <3>1, <3>2, OneBelief, Zenon
    <2> QED
      BY <2>1, <2>2, Zenon
  <1>11. /\ j < nextId /\ \A k \in Ids \ {j} : k \in orders_' <=> k \in orders_
         /\ IF j \in orders_' THEN Shows(told'[j], order'[j])
            ELSE HasEnded(told'[j]) \/ told'[j] = Untold
    BY <1>2, <1>5, <1>6, <1>8, <1>9, <1>10, RestingFill, Zenon
  <1>12. S \in SUBSET Ids /\ (\A k \in S : k = a \/ k = j) /\ \A k \in Ids \ S : k \in Ids \ {a, j}
    BY <1>4, Zenon
  <1>13. OthersOK'
    <2>1. \A k \in Ids \ S :
               /\ told'[k] = told[k] /\ (k \in orders_' <=> k \in orders_)
               /\ k \in orders_ => order'[k].cum = order[k].cum /\ order'[k].leaves = order[k].leaves
               /\ k \in InHand => k \in InHand'
      BY <1>3, <1>9, <1>10, <1>11, <1>12, Zenon
    <2>2. \A k \in S :
               /\ k < nextId'
               /\ k \notin InHand' => IF k \in orders_' THEN Shows(told'[k], order'[k])
                                      ELSE HasEnded(told'[k]) \/ told'[k] = Untold
      BY <1>2, <1>3, <1>4, <1>11, <1>12, Zenon
    <2> HIDE DEF S
    <2> QED
      BY <1>1, <1>2, <1>12, <2>1, <2>2, OthersFrame, Zenon
  <1>14. CurrentOK'
    <2>1. IF order[a].leaves = n THEN HasEnded(told'[a]) ELSE Shows(told'[a], order'[a])
      BY <1>4, <1>6, <1>9, <1>10, FilledBelief, Zenon
    <2>2. order'[a].leaves > 0 <=> order[a].leaves # n
      BY <1>4, <1>6, <1>9, FilledFields
    <2> QED
      BY <1>2, <1>7, <2>1, <2>2, Zenon DEF CurrentOK
  <1> QED
    BY <1>10, <1>13, <1>14, Zenon DEF Owners, LifeStep

\* fillRestingFromFeed tells the one owner there is.
LEMMA FeedFillOwners == ASSUME Inv, Owners, NEW j \in Ids, FeedFill(j) PROVE Owners' /\ LifeStep
  <1> DEFINE n == Lesser(cur.qty, l3[j].qty)
  <1>1. TypeOK /\ OthersOK /\ KindOK
    BY Zenon DEF Inv, HandlerOK, Owners
  <1>2. /\ pc = "feed" /\ pc' = pc /\ cur.qty > 0 /\ l3[j].qty > 0 /\ nextId' = nextId
        /\ FillIndices(j, n) /\ order' = [order EXCEPT ![j] = RestingAfter(j, n)]
        /\ IF j \in orders_ THEN Tell(Execution(j, Filled(order[j], n))) ELSE Silent
    BY Zenon DEF FeedFill, Hit, IsFront, Resting
  <1>3. ~Working /\ ~Working' /\ InHand = {} /\ j \notin InHand /\ cur.kind # "modify"
    BY <1>1, <1>2, Zenon DEF Working, InHand, KindOK
  <1>4. told \in Beliefs /\ cur.qty \in Nat /\ l3[j].qty \in Nat /\ order[j] \in Order
    <2>1. told \in Beliefs /\ cur.qty \in Nat /\ order[j] \in Order
      BY <1>1, Zenon DEF TypeOK, Beliefs, Handlers
    <2> QED
      BY <1>1, <2>1, EntryFields, Zenon
  <1>5. n \in Nat \ {0} /\ n <= l3[j].qty
    BY <1>2, <1>4 DEF Lesser
  <1>6. j \in orders_ => Shows(told[j], order[j]) /\ n <= order[j].leaves
    BY <1>3, <1>5, RestingFacts, Zenon
  <1> HIDE DEF n
  <1>7. /\ order'[j] = RestingAfter(j, n) /\ \A k \in Ids \ {j} : order'[k] = order[k]
    BY <1>1, <1>2, Zenon DEF TypeOK
  <1>8. /\ told'[j] = IF j \in orders_ THEN View(Execution(j, Filled(order[j], n))) ELSE told[j]
        /\ \A k \in Ids \ {j} : told'[k] = told[k]
        /\ LifeStep
    <2>1. CASE j \in orders_
      <3>1. told' = [told EXCEPT ![j] = View(Execution(j, Filled(order[j], n)))]
        BY <1>2, <2>1, Zenon DEF Tell, Execution, Report
      <3>2. Lifecycle!LifeNext
        BY <1>4, <1>5, <1>6, <2>1, <3>1, ExecutedStep, Zenon
      <3> QED
        BY <1>4, <2>1, <3>1, <3>2, OneBelief, Zenon DEF LifeStep
    <2>2. CASE j \notin orders_
      BY <1>2, <2>2, Zenon DEF Silent, LifeStep
    <2> QED
      BY <2>1, <2>2, Zenon
  <1>9. /\ j < nextId /\ \A k \in Ids \ {j} : k \in orders_' <=> k \in orders_
        /\ IF j \in orders_' THEN Shows(told'[j], order'[j])
           ELSE HasEnded(told'[j]) \/ told'[j] = Untold
    BY <1>2, <1>3, <1>5, <1>6, <1>7, <1>8, RestingFill, Zenon
  <1>10. OthersOK'
    <2>1. \A k \in Ids \ {j} : k \notin InHand
      BY <1>3, Zenon
    <2> QED
      BY <1>1, <1>2, <1>7, <1>8, <1>9, <2>1, OneFrame, Zenon
  <1> QED
    BY <1>3, <1>8, <1>10, Zenon DEF Owners, CurrentOK

\* A resting order that is cancelled, for its owner or by self-match prevention, ends
\* with the fills its owner knows of.
LEMMA CanceledOrder ==
    ASSUME Inv, Owners, NEW j \in orders_, j \notin InHand, DeleteOrder(j, TRUE) \/ DeleteOrder(j, FALSE),
           order' = [order EXCEPT ![j] = Recycled], Tell(Cancellation(j, order[j])),
           nextId' = nextId, InHand' = InHand
    PROVE  OthersOK' /\ Lifecycle!LifeNext /\ \A k \in Ids \ {j} : told'[k] = told[k] /\ order'[k] = order[k]
  <1>1. /\ j \in Ids /\ told \in Beliefs /\ Shows(told[j], order[j]) /\ j < nextId
        /\ TypeOK /\ OthersOK
    BY RestingFacts, Zenon DEF Inv, Owners
  <1>2. told' = [told EXCEPT ![j] = View(Cancellation(j, order[j]))]
    BY Zenon DEF Tell, Cancellation, Report
  <1>3. Lifecycle!LifeNext /\ HasEnded(told'[j])
    BY <1>1, <1>2, CanceledStep, Zenon
  <1>4. \A k \in Ids \ {j} : told'[k] = told[k] /\ order'[k] = order[k]
    BY <1>1, <1>2, OneBelief, Zenon DEF TypeOK
  <1>5. orders_' = orders_ \ {j}
    BY Zenon DEF DeleteOrder, UnindexOrder
  <1>6. j \notin orders_' /\ \A k \in Ids \ {j} : k \in orders_' <=> k \in orders_
    BY <1>5, Zenon
  <1>7. OthersOK'
    BY <1>1, <1>3, <1>4, <1>6, OneFrame, Zenon
  <1> QED
    BY <1>3, <1>4, <1>7, Zenon

\* handleSelfMatch under CANCEL_RESTING leaves the incoming order as its owner knows it.
LEMMA CancelRestingOwners ==
    ASSUME Inv, Owners, NEW j \in Ids, CancelResting(j) PROVE Owners' /\ LifeStep
  <1> DEFINE a == cur.id
  <1>1. /\ NewOK /\ ModifyOK /\ CurrentOK
    BY Zenon DEF Inv, HandlerOK, Owners
  <1>2. /\ pc = "match" /\ pc' = pc /\ cur' = cur /\ nextId' = nextId /\ j \in orders_
        /\ order[a].leaves > 0 /\ l3[j].qty > 0 /\ l3[j].side = Opposite(order[a].side)
        /\ DeleteOrder(j, FALSE) /\ order' = [order EXCEPT ![j] = Recycled]
        /\ Tell(Cancellation(j, order[j]))
    BY Zenon DEF CancelResting, PreventsMatch, SelfMatch, Hit, IsFront, Resting
  <1>3. Working /\ Working' /\ InHand = {a} /\ InHand' = InHand
    BY <1>2, Zenon DEF Working, InHand
  <1>4. a \in Ids /\ order[a] \in Order
    BY <1>3, HandFacts, Zenon
  <1>5. j # a /\ j \notin InHand
    <2>1. j # a
      BY <1>1, <1>2, <1>3, <1>4, HandFacts, Zenon DEF NewOK, ModifyOK, Absent, Opposite, Order, Sides
    <2> QED
      BY <1>3, <2>1, Zenon
  <1>6. /\ OthersOK' /\ Lifecycle!LifeNext
        /\ \A k \in Ids \ {j} : told'[k] = told[k] /\ order'[k] = order[k]
    BY <1>2, <1>3, <1>5, CanceledOrder, Zenon
  <1>7. told'[a] = told[a] /\ order'[a] = order[a]
    BY <1>4, <1>5, <1>6, Zenon
  <1>8. CurrentOK'
    BY <1>1, <1>2, <1>3, <1>7, Zenon DEF CurrentOK
  <1> QED
    BY <1>6, <1>8, Zenon DEF Owners, LifeStep

\* Symbol::cancelOrder ends the order with the fills its owner knows of.
LEMMA CompleteCancelOwners == ASSUME Inv, Owners, CompleteCancel PROVE Owners' /\ LifeStep
  <1>1. /\ pc = "cancel" /\ pc' = "flush" /\ nextId' = nextId /\ DeleteOrder(cur.id, TRUE)
        /\ order' = [order EXCEPT ![cur.id] = Recycled] /\ Tell(Cancellation(cur.id, order[cur.id]))
    BY Zenon DEF CompleteCancel
  <1>2. ~Working /\ ~Working' /\ InHand = {} /\ InHand' = InHand
    BY <1>1, Zenon DEF Working, InHand
  <1>3. cur.id \in orders_ /\ cur.id \notin InHand
    BY <1>1, <1>2, Zenon DEF Inv, HandlerOK, ModifyOK
  <1>4. OthersOK' /\ Lifecycle!LifeNext
    BY <1>1, <1>2, <1>3, CanceledOrder, Zenon
  <1> QED
    BY <1>2, <1>4, Zenon DEF Owners, CurrentOK, LifeStep

-----------------------------------------------------------------------------
\* Resting what the engine left says nothing more.

\* OrderBook::addOrder rests an order its owner believes live.
LEMMA RestNewOwners == ASSUME Inv, Owners, RestNew PROVE Owners' /\ LifeStep
  <1> DEFINE i == cur.id
  <1>1. /\ pc = "rest" /\ order[i].leaves > 0 /\ RestsRemainder(order[i]) /\ pc' = "flush"
        /\ told' = told /\ nextId' = nextId /\ orders_' = orders_ \cup {i}
        /\ order' = [order EXCEPT ![i].prio = nextPrio]
    BY Zenon DEF RestNew, AddOrder, IndexOrder, Silent
  <1>2. Working /\ ~Working'
    BY <1>1, Zenon DEF Working
  <1>3. TypeOK /\ i \in Ids /\ order[i] \in Order /\ Shows(told[i], order[i])
    BY <1>1, <1>2, HandFacts, Zenon DEF Owners, CurrentOK
  <1>4. /\ \A k \in Ids \ {i} : order'[k] = order[k]
        /\ order'[i] = [order[i] EXCEPT !.prio = nextPrio]
    BY <1>1, <1>3, Zenon DEF TypeOK
  <1>5. Shows(told'[i], order'[i])
    BY <1>1, <1>3, <1>4 DEF Shows, Order
  <1>6. i \in orders_' /\ \A k \in Ids \ {i} : k \in orders_' <=> k \in orders_
    BY <1>1, Zenon
  <1>7. OthersOK'
    BY <1>1, <1>2, <1>4, <1>5, <1>6, HandFrame, Zenon
  <1> QED
    BY <1>1, <1>2, <1>7, Zenon DEF Owners, CurrentOK, LifeStep

\* An Order that goes back to the pool unrested is one whose owner knows that it ended.
LEMMA DropNewOwners == ASSUME Inv, Owners, DropNew PROVE Owners' /\ LifeStep
  <1> DEFINE i == cur.id
  <1>1. /\ pc = "rest" /\ cur.kind = "new" /\ ~(order[i].leaves > 0 /\ RestsRemainder(order[i]))
        /\ pc' = "flush" /\ told' = told /\ nextId' = nextId /\ orders_' = orders_
        /\ order' = [order EXCEPT ![i] = Recycled]
    BY Zenon DEF DropNew, indexVars, Silent
  <1>2. Working /\ ~Working'
    BY <1>1, Zenon DEF Working
  <1>3. TypeOK /\ i \in Ids /\ i \notin orders_ /\ HasEnded(told[i])
    BY <1>1, <1>2, HandFacts, Zenon DEF Owners, CurrentOK
  <1>4. \A k \in Ids \ {i} : order'[k] = order[k]
    BY <1>1, <1>3, Zenon DEF TypeOK
  <1>5. OthersOK'
    BY <1>1, <1>2, <1>3, <1>4, HandFrame, Zenon
  <1> QED
    BY <1>1, <1>2, <1>5, Zenon DEF Owners, CurrentOK, LifeStep

\* An amended order rests if its owner believes it live, and leaves the book if not.
LEMMA RestModifiedOwners == ASSUME Inv, Owners, RestModified PROVE Owners' /\ LifeStep
  <1> DEFINE i == cur.id
             prio == IF cur.requeue THEN nextPrio ELSE order[i].prio
             new == IF order[i].leaves = 0 THEN Recycled ELSE [order[i] EXCEPT !.prio = prio]
  <1>1. /\ pc = "rest" /\ cur.kind = "modify" /\ pc' = "flush" /\ told' = told /\ nextId' = nextId
        /\ order' = [order EXCEPT ![i] = new]
        /\ IF order[i].leaves = 0 THEN UnindexOrder(i) /\ FreeOrder(i)
                                  ELSE UNCHANGED <<indexVars, pool>>
    BY Zenon DEF RestModified, Silent
  <1>2. Working /\ Amended /\ ~Working'
    BY <1>1, Zenon DEF Working, Amended
  <1>3. /\ TypeOK /\ i \in Ids /\ order[i] \in Order /\ i \in orders_ /\ order[i].tif = "GTC"
        /\ order[i].leaves \in Nat
    BY <1>1, <1>2, HandFacts, Zenon DEF Order
  <1>4. order[i].price # NullPrice
    BY <1>1, <1>2, Zenon DEF Inv, HandlerOK, ModifyOK, Owners, CurrentOK
  <1>5. IF order[i].leaves > 0 THEN Shows(told[i], order[i]) ELSE HasEnded(told[i])
    BY <1>1, <1>2, <1>3, <1>4, Zenon DEF Owners, CurrentOK, RestsRemainder
  <1>6. order'[i] = new /\ \A k \in Ids \ {i} : order'[k] = order[k]
    BY <1>1, <1>3, Zenon DEF TypeOK
  <1>7. CASE order[i].leaves = 0
    <2>1. orders_' = orders_ \ {i}
      BY <1>1, <1>7, Zenon DEF UnindexOrder
    <2>2. i \notin orders_' /\ \A k \in Ids \ {i} : k \in orders_' <=> k \in orders_
      BY <2>1, Zenon
    <2>3. HasEnded(told'[i])
      BY <1>1, <1>3, <1>5, <1>7
    <2> HIDE DEF new
    <2> QED
      BY <1>1, <1>2, <1>6, <2>2, <2>3, HandFrame, Zenon DEF Owners, CurrentOK, LifeStep
  <1>8. CASE order[i].leaves # 0
    <2>1. orders_' = orders_
      BY <1>1, <1>8, Zenon DEF indexVars
    <2>2. Shows(told'[i], order'[i])
      <3>1. Shows(told[i], order[i])
        BY <1>3, <1>5, <1>8
      <3>2. order'[i] = [order[i] EXCEPT !.prio = prio]
        BY <1>6, <1>8, Zenon
      <3> QED
        BY <1>1, <1>3, <3>1, <3>2 DEF Shows, Order
    <2> HIDE DEF new
    <2> QED
      BY <1>1, <1>2, <1>3, <1>6, <2>1, <2>2, HandFrame, Zenon DEF Owners, CurrentOK, LifeStep
  <1> QED
    BY <1>7, <1>8, Zenon

-----------------------------------------------------------------------------
\* At the start no owner was told anything.
LEMMA InitOwners == Init => Owners
  BY Zenon DEF Init, Owners, OthersOK, CurrentOK, Working, Untold

\* Every step keeps owners informed and is a step of the life of an order, if no
\* amendment comes without a price and the backstop against self-matches is not reached.
LEMMA NextOwners ==
    ASSUME NullPrice \notin AmendPrices, Inv, Owners, SelfMatchDecidedUpFront, [Next]_vars
    PROVE  Owners' /\ LifeStep
  <1>1. CASE Request
    BY <1>1, NewOrderOwners, ModifyOrderOwners, CancelOrderOwners, QuietOwners, Zenon DEF Request
  <1>2. CASE MarketEvent
    BY <1>2, QuietOwners, Zenon
  <1>3. CASE Step
    BY <1>3, RejectSelfMatchOwners, AcknowledgeOwners, KillFokOwners, PassFokOwners,
       ApplyReplaceOwners, CancelZeroLeavesOwners, FillOwners, CancelRestingOwners,
       EndMatchOwners, RestNewOwners, DropNewOwners, RestModifiedOwners, CompleteCancelOwners,
       FeedFillOwners, QuietOwners, Zenon DEF Step
  <1>4. CASE UNCHANGED vars
    <2>1. /\ pc' = pc /\ cur' = cur /\ told' = told /\ order' = order /\ orders_' = orders_
          /\ nextId' = nextId
      BY <1>4, Zenon DEF vars
    <2>2. Owners'
      BY <2>1, Zenon DEF Owners, OthersOK, CurrentOK, InHand, Working
    <2> QED
      BY <2>1, <2>2, Zenon DEF LifeStep
  <1> QED
    BY <1>1, <1>2, <1>3, <1>4, Zenon DEF Next
=============================================================================
