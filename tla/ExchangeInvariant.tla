------------------------- MODULE ExchangeInvariant --------------------------
(***************************************************************************)
(* The inductive invariant of module Exchange, what the operators of the   *)
(* book, the indices and the reports keep of it, and what a step of the    *)
(* exchange changes: the one entry of the book it may touch and the two    *)
(* orders of a fill. Two results need no more than that: orders carry tags *)
(* that were accepted, and the mirror stays within the venue's own book.   *)
(***************************************************************************)
EXTENDS Exchange, TLAPS

\* The phases in which a client order is in the hands of the engine.
Working == pc \in {"smp", "fok", "replace", "zero", "match", "rest"}
Amended == pc \in {"zero", "match", "rest"}

\* Which kind of request each phase belongs to.
KindOK ==
    /\ pc \in {"idle", "packet"} => cur = NoHandler
    /\ Working => cur.kind \in {"new", "modify"}
    /\ pc = "replace" => cur.kind = "modify"
    /\ pc = "cancel" => cur.kind = "cancel"
    /\ pc = "feed" => cur.kind \in {"market", "replay"}
    /\ pc = "flush" => cur.kind \in {"new", "modify", "cancel"}
    /\ pc \notin {"idle", "packet"} => cur.id \in Ids /\ cur.id < nextId

\* A new order is in no index and not in the book until it rests.
NewOK ==
    Working /\ cur.kind = "new" =>
        /\ cur.id \notin orders_ /\ l3[cur.id] = Absent /\ mkt[cur.id] = Absent
        /\ order[cur.id].side = cur.side /\ order[cur.id].price = cur.price
        /\ order[cur.id].leaves + order[cur.id].cum = order[cur.id].quantity
        /\ order[cur.id].cl # NoClOrdId => byClOrdId[order[cur.id].cl] = NoId

\* An order being amended rests at its old price and quantity.
ModifyOK ==
    /\ (Working /\ cur.kind = "modify") \/ pc = "cancel" => cur.id \in orders_
    /\ Working /\ cur.kind = "modify" =>
        /\ l3[cur.id].qty > 0 /\ l3[cur.id].side = order[cur.id].side
        /\ order[cur.id].side = cur.side
    /\ Amended /\ cur.kind = "modify" =>
        /\ order[cur.id].price = cur.price
        /\ order[cur.id].leaves > 0 =>
              order[cur.id].leaves + order[cur.id].cum = order[cur.id].quantity

\* What the matching loop leaves behind has nothing to trade with.
RestOK ==
    /\ pc = "zero" => order[cur.id].leaves = 0
    /\ pc = "rest" /\ order[cur.id].leaves > 0 =>
            Reachable(order[cur.id].side, cur.price) = {}

\* A feed's aggressor is in no index and not in the book.
FeedOK == pc = "feed" => cur.id \notin orders_ /\ l3[cur.id] = Absent

\* Ids that were not handed out are unused; client and venue orders share none.
IdsOK ==
    \A i \in Ids :
        /\ i >= nextId => i \notin orders_ /\ l3[i] = Absent /\ mkt[i] = Absent
        /\ mkt[i] # Absent => i \notin orders_
        /\ i \in orders_ => order[i].tif = "GTC"

HandlerOK == KindOK /\ NewOK /\ ModifyOK /\ RestOK /\ FeedOK /\ IdsOK

Inv == /\ TypeOK /\ BookAgreesWithOrders /\ IndicesInLockstep /\ ReturnedOnce
       /\ HandlerOK /\ Uncrossed

-----------------------------------------------------------------------------
\* Constants and the values built from them are in the types TypeOK names.
LEMMA ConstantTypes ==
    /\ Recycled \in Order /\ Absent \in BookEntry /\ NoHandler \in Handlers
    /\ Recycled.tag \in Tags
    /\ NoId \notin Ids
    /\ Untold \in [status : Statuses, cum : Nat, leaves : Nat]
  <1>1. (CHOOSE t \in Tags : TRUE) \in Tags
    BY TagsAssumption, Zenon
  <1> QED
    BY <1>1, BoundsAssumption DEF Recycled, Order, Absent, BookEntry, NoHandler,
       Handlers, Kinds, NoId, Ids, Untold, Statuses, AllPrices, NullPrice, Prices,
       Sides, TimesInForce

\* Init establishes the inductive invariant.
LEMMA InitInv == Init => Inv
  <1> SUFFICES ASSUME Init PROVE Inv
    BY Zenon
  <1>1. TypeOK
    BY ConstantTypes, BoundsAssumption DEF Init, TypeOK, Levels, Phases, NoId
  <1>2. BookAgreesWithOrders /\ IndicesInLockstep /\ ReturnedOnce
    BY ConstantTypes, Zenon DEF Init, BookAgreesWithOrders, IndicesInLockstep, ReturnedOnce,
       NoHandler, NoId
  <1>3. KindOK /\ NewOK /\ ModifyOK /\ RestOK /\ FeedOK /\ IdsOK
    BY Zenon DEF Init, KindOK, NewOK, ModifyOK, RestOK, FeedOK, IdsOK, Working, Amended
  <1>4. Uncrossed
    BY Zenon DEF Init, Uncrossed, Resting, Absent
  <1> QED
    BY <1>1, <1>2, <1>3, <1>4, Zenon DEF Inv, HandlerOK

\* A change of one book entry keeps the book's own variables in their types.
LEMMA L3SetTypes ==
    ASSUME TypeOK, NEW i \in Ids, NEW new \in BookEntry, NEW own,
           NEW last \in BOOLEAN, L3Set(i, new, own, last)
    PROVE  /\ l3' \in [Ids -> BookEntry]
           /\ DOMAIN mdQty' \subseteq AllPrices /\ \A p \in DOMAIN mdQty' : mdQty'[p] \in Int
           /\ dirty' \subseteq Levels
           /\ lastEnd' \in BOOLEAN
  <1>1. l3[i] \in BookEntry
    BY Zenon DEF TypeOK
  <1>2. l3' \in [Ids -> BookEntry] /\ lastEnd' \in BOOLEAN
    BY Zenon DEF L3Set, TypeOK
  <1>3. dirty' \subseteq Levels
    BY <1>1 DEF L3Set, TypeOK, TouchedLevels, Levels, BookEntry, Absent
  <1>4. CASE own \/ l3[i] = new
    BY <1>2, <1>3, <1>4, Zenon DEF L3Set, TypeOK
  <1>5. CASE ~own /\ l3[i] # new
    <2> DEFINE price == IF new.qty = 0 THEN l3[i].price ELSE new.price
    <2>1. price \in AllPrices /\ new.qty \in Int /\ l3[i].qty \in Int
      BY <1>1, <1>5 DEF BookEntry, Absent
    <2>2. mdQty' = PhantomTotals(mdQty, l3[i].price, l3[i].qty, price, new.qty)
      BY <1>5, Zenon DEF L3Set
    <2> HIDE DEF price
    <2>3. DOMAIN mdQty' \subseteq AllPrices /\ \A p \in DOMAIN mdQty' : mdQty'[p] \in Int
      BY <2>1, <2>2 DEF PhantomTotals, TypeOK
    <2> QED
      BY <1>2, <1>3, <2>3, Zenon
  <1> QED
    BY <1>4, <1>5, Zenon

\* The entry of a resting quantity is a book entry.
LEMMA EntryType ==
    ASSUME NEW side \in Sides, NEW price \in AllPrices, NEW qty \in Nat, NEW prio \in Nat
    PROVE  Entry(side, price, qty, prio) \in BookEntry
  BY Zenon DEF Entry, BookEntry

\* An entry without quantity is Absent, and every other one has all its fields.
LEMMA BookEntryParts ==
    ASSUME NEW e \in BookEntry
    PROVE  /\ e.qty \in Nat /\ e.prio \in Nat /\ e.side \in Sides
           /\ e.qty = 0 => e.price = 0 /\ e = Absent
           /\ e.qty > 0 => e.price \in AllPrices
           /\ e = Absent => e.qty = 0
  BY DEF BookEntry, Absent, Sides

\* An entry made for some quantity shows that quantity, side, price and priority.
LEMMA EntryParts ==
    ASSUME NEW side, NEW price, NEW qty, NEW prio, NEW e, e = Entry(side, price, qty, prio), e.qty > 0
    PROVE  qty # 0 /\ e.side = side /\ e.price = price /\ e.qty = qty /\ e.prio = prio
  BY DEF Entry, Absent

\* A book entry that rests has a side, a price and a quantity; one that does not is Absent.
LEMMA EntryFields ==
    ASSUME TypeOK, NEW j \in Ids
    PROVE  /\ l3[j].side \in Sides /\ l3[j].qty \in Nat /\ l3[j].prio \in Nat
           /\ l3[j].qty > 0 => l3[j].price \in AllPrices
           /\ l3[j].qty = 0 <=> l3[j] = Absent
           /\ l3[j].price \in Nat
  <1>1. l3[j] \in BookEntry
    BY Zenon DEF TypeOK
  <1> QED
    BY <1>1, BoundsAssumption DEF BookEntry, Absent, Sides, AllPrices, Prices, NullPrice

\* A simulator order that is not being amended rests as its record says.
LEMMA OwnAgrees ==
    ASSUME BookAgreesWithOrders, NEW j \in orders_, ~(cur.kind = "modify" /\ cur.id = j)
    PROVE  /\ l3[j].side = order[j].side /\ l3[j].price = order[j].price
           /\ l3[j].qty = order[j].leaves /\ l3[j].prio = order[j].prio
           /\ order[j].leaves > 0
           /\ order[j].leaves + order[j].cum = order[j].quantity
  BY Zenon DEF BookAgreesWithOrders

\* A fill moves quantity from the leaves to the fills and changes nothing else.
LEMMA FilledFields ==
    ASSUME NEW o \in Order, NEW q \in Nat, q <= o.leaves
    PROVE  /\ Filled(o, q) \in Order
           /\ Filled(o, q).leaves = o.leaves - q /\ Filled(o, q).cum = o.cum + q
           /\ Filled(o, q).client = o.client /\ Filled(o, q).cl = o.cl
           /\ Filled(o, q).side = o.side /\ Filled(o, q).price = o.price
           /\ Filled(o, q).quantity = o.quantity /\ Filled(o, q).tif = o.tif
           /\ Filled(o, q).tag = o.tag /\ Filled(o, q).prio = o.prio
  <1> DEFINE x == o.leaves - q
             y == o.cum + q
  <1>1. x \in Nat /\ y \in Nat
    BY DEF Order
  <1>2. Filled(o, q) = [o EXCEPT !.leaves = x, !.cum = y]
    BY Zenon DEF Filled
  <1> HIDE DEF x, y
  <1>3. [o EXCEPT !.leaves = x, !.cum = y] \in Order
    BY <1>1, Zenon DEF Order
  <1>4. Filled(o, q).leaves = x /\ Filled(o, q).cum = y
    BY <1>2, Zenon DEF Order
  <1> QED
    BY <1>2, <1>3, <1>4, Zenon DEF x, y, Order

-----------------------------------------------------------------------------
\* What the reports publish has the type of a report.

Beliefs == [Ids -> [status : Statuses, cum : Nat, leaves : Nat]]

\* What a report is made of decides that it is one.
LEMMA ReportType ==
    ASSUME NEW i \in Ids \cup {NoId}, NEW status \in Statuses, NEW cum \in Nat, NEW leaves \in Nat
    PROVE  /\ Report(i, status, cum, leaves) \in Reports
           /\ Report(i, status, cum, leaves).order = i
           /\ Report(i, status, cum, leaves).status = status
  BY Zenon DEF Report, Reports

\* The reports the engine and the exchange publish are reports.
LEMMA ReportTypes ==
    ASSUME NEW i \in Ids \cup {NoId}, NEW o \in Order
    PROVE  /\ Execution(i, o) \in Reports /\ Execution(i, o).order = i
           /\ Cancellation(i, o) \in Reports /\ Cancellation(i, o).order = i
           /\ Rejection(i) \in Reports /\ Rejection(i).order = i
  <1>1. o.cum \in Nat /\ o.leaves \in Nat
    BY Zenon DEF Order
  <1> QED
    BY <1>1, ReportType, SMTT(30) DEF Execution, Cancellation, Rejection, Statuses

\* What an owner remembers of a report has the type of a belief.
LEMMA ViewType ==
    ASSUME NEW r \in Reports PROVE View(r) \in [status : Statuses, cum : Nat, leaves : Nat]
  BY Zenon DEF View, Reports

\* Publishing reports keeps the response queue and the owners' beliefs in their types.
LEMMA TellTypes ==
    ASSUME TypeOK
    PROVE  /\ Silent => emit' \subseteq Reports /\ told' \in Beliefs
           /\ \A r \in Reports : Notify(r) => emit' \subseteq Reports /\ told' \in Beliefs
           /\ \A r \in Reports : Tell(r) => emit' \subseteq Reports /\ told' \in Beliefs
           /\ \A r, t \in Reports : TellBoth(r, t) => emit' \subseteq Reports /\ told' \in Beliefs
  <1>1. Silent => emit' \subseteq Reports /\ told' \in Beliefs
    BY Zenon DEF Silent, TypeOK, Beliefs
  <1>2. ASSUME NEW r \in Reports, Notify(r) PROVE emit' \subseteq Reports /\ told' \in Beliefs
    BY <1>2, Zenon DEF Notify, TypeOK, Beliefs
  <1>3. ASSUME NEW r \in Reports, Tell(r) PROVE emit' \subseteq Reports /\ told' \in Beliefs
    BY <1>3, ViewType, Zenon DEF Tell, TypeOK, Beliefs
  <1>4. ASSUME NEW r \in Reports, NEW t \in Reports, TellBoth(r, t)
        PROVE  emit' \subseteq Reports /\ told' \in Beliefs
    BY <1>4, ViewType, Zenon DEF TellBoth, TypeOK, Beliefs
  <1> QED
    BY <1>1, <1>2, <1>3, <1>4, Zenon

-----------------------------------------------------------------------------
\* What keeps each part of the invariant, whichever action does it.

\* A book that only loses entries, or quantity of entries, stays uncrossed.
LEMMA ShrinkUncrossed ==
    ASSUME Uncrossed,
           \A k \in Ids : l3'[k].qty > 0 =>
               l3[k].qty > 0 /\ l3'[k].side = l3[k].side /\ l3'[k].price = l3[k].price
    PROVE  Uncrossed'
  BY Zenon DEF Uncrossed, Resting

\* An order that appears where nothing it crosses is resting leaves the book uncrossed.
LEMMA PlaceUncrossed ==
    ASSUME TypeOK, Uncrossed, NEW i \in Ids, NEW side \in Sides, NEW price \in AllPrices,
           Reachable(side, price) = {},
           l3' \in [Ids -> BookEntry],
           l3'[i].side = side, l3'[i].price = price,
           \A k \in Ids \ {i} : l3'[k] = l3[k]
    PROVE  Uncrossed'
  <1> SUFFICES ASSUME NEW b \in Ids, NEW s \in Ids, l3'[b].qty > 0, l3'[b].side = "BUY",
                      l3'[s].qty > 0, l3'[s].side = "SELL"
               PROVE  l3'[b].price < l3'[s].price
    BY Zenon DEF Uncrossed, Resting
  <1>1. b # s
    BY Zenon
  <1>2. l3[b].price \in Nat /\ l3[s].price \in Nat /\ price \in Nat
    BY EntryFields, BoundsAssumption DEF AllPrices, NullPrice, Prices
  <1>3. CASE b # i /\ s # i
    BY <1>3, Zenon DEF Uncrossed, Resting
  <1>4. CASE b = i
    <2>1. s \in Resting(Opposite(side))
      BY <1>1, <1>4, Zenon DEF Resting, Opposite
    <2>2. ~Reaches(side, price, l3[s].price)
      BY <2>1, Zenon DEF Reachable
    <2> QED
      BY <1>1, <1>2, <1>4, <2>2 DEF Reaches, Better, Opposite
  <1>5. CASE s = i
    <2>1. b \in Resting(Opposite(side))
      BY <1>1, <1>5, Zenon DEF Resting, Opposite
    <2>2. ~Reaches(side, price, l3[b].price)
      BY <2>1, Zenon DEF Reachable
    <2> QED
      BY <1>1, <1>2, <1>5, <2>2 DEF Reaches, Better, Opposite
  <1> QED
    BY <1>3, <1>4, <1>5, Zenon

\* Erasing an order from its indices keeps the rest of them in lockstep.
LEMMA UnindexLockstep ==
    ASSUME TypeOK, IndicesInLockstep, NEW j \in orders_, UnindexOrder(j),
           \A k \in orders_ \ {j} : order'[k].cl = order[k].cl
    PROVE  /\ IndicesInLockstep'
           /\ orders_' = orders_ \ {j} /\ orders_' \subseteq Ids /\ byOrderId' \subseteq Ids
           /\ byClOrdId' \in [ClOrdIds -> Ids \cup {NoId}]
           /\ \A c \in ClOrdIds : byClOrdId[c] = NoId => byClOrdId'[c] = NoId
  <1>1. j \in Ids /\ order[j] \in Order /\ order[j].cl \in ClOrdIds \cup {NoClOrdId}
    BY Zenon DEF TypeOK, Order
  <1>2. \A k \in orders_ : k \in Ids /\ order[k].cl \in ClOrdIds \cup {NoClOrdId}
    BY Zenon DEF TypeOK, Order
  <1>3. /\ orders_' = orders_ \ {j} /\ byOrderId' = byOrderId \ {j}
        /\ byClOrdId' = IF order[j].cl # NoClOrdId
                          THEN [byClOrdId EXCEPT ![order[j].cl] = NoId] ELSE byClOrdId
    BY Zenon DEF UnindexOrder
  <1>4. /\ byClOrdId' \in [ClOrdIds -> Ids \cup {NoId}]
        /\ \A c \in ClOrdIds : byClOrdId'[c] = IF c = order[j].cl THEN NoId ELSE byClOrdId[c]
    BY <1>1, <1>3, NamesAssumption, Zenon DEF TypeOK
  <1>5. orders_' \subseteq Ids /\ byOrderId' \subseteq Ids
    BY <1>3, Zenon DEF TypeOK
  <1>6. IndicesInLockstep'
    BY <1>1, <1>2, <1>3, <1>4, SMTT(30) DEF IndicesInLockstep
  <1> QED
    BY <1>3, <1>4, <1>5, <1>6, Zenon

\* Lockstep depends on the indices and on the client order ids alone.
LEMMA SameLockstep ==
    ASSUME IndicesInLockstep, orders_' = orders_, byOrderId' = byOrderId,
           byClOrdId' = byClOrdId, \A k \in orders_ : order'[k].cl = order[k].cl
    PROVE  IndicesInLockstep'
  BY Zenon DEF IndicesInLockstep

-----------------------------------------------------------------------------
\* Whole steps that several actions share.

\* Taking a simulator order off the book, out of the indices and back to the pool.
LEMMA Removal ==
    ASSUME Inv, NEW j \in orders_, NEW own, NEW last \in BOOLEAN,
           L3Set(j, Absent, own, last), UnindexOrder(j), FreeOrder(j),
           order' = [order EXCEPT ![j] = Recycled], nextId' = nextId, mkt' = mkt
    PROVE  /\ l3' \in [Ids -> BookEntry] /\ order' \in [Ids -> Order]
           /\ DOMAIN mdQty' \subseteq AllPrices /\ \A p \in DOMAIN mdQty' : mdQty'[p] \in Int
           /\ dirty' \subseteq Levels /\ lastEnd' \in BOOLEAN
           /\ orders_' \subseteq Ids /\ byOrderId' \subseteq Ids
           /\ byClOrdId' \in [ClOrdIds -> Ids \cup {NoId}]
           /\ \A c \in ClOrdIds : byClOrdId[c] = NoId => byClOrdId'[c] = NoId
           /\ orders_' = orders_ \ {j}
           /\ \A k \in Ids \ {j} : l3'[k] = l3[k] /\ order'[k] = order[k] /\ pool'[k] = pool[k]
           /\ pool' \in [Ids -> Int] /\ pool'[j] = pool[j] - 1
           /\ IndicesInLockstep' /\ Uncrossed' /\ IdsOK'
  <1>1. TypeOK /\ IndicesInLockstep /\ Uncrossed /\ IdsOK
    BY Zenon DEF Inv, HandlerOK
  <1>2. j \in Ids
    BY <1>1, Zenon DEF TypeOK
  <1>3. /\ order' \in [Ids -> Order] /\ \A k \in Ids \ {j} : order'[k] = order[k]
    BY <1>1, <1>2, ConstantTypes, Zenon DEF TypeOK
  <1>4. /\ pool' \in [Ids -> Int] /\ pool'[j] = pool[j] - 1
        /\ \A k \in Ids \ {j} : pool'[k] = pool[k]
    BY <1>1, <1>2 DEF TypeOK, FreeOrder
  <1>5. /\ l3' \in [Ids -> BookEntry]
        /\ DOMAIN mdQty' \subseteq AllPrices /\ \A p \in DOMAIN mdQty' : mdQty'[p] \in Int
        /\ dirty' \subseteq Levels /\ lastEnd' \in BOOLEAN
    BY <1>1, <1>2, ConstantTypes, L3SetTypes, Zenon
  <1>6. l3'[j] = Absent /\ \A k \in Ids \ {j} : l3'[k] = l3[k]
    BY <1>1, <1>2, Zenon DEF L3Set, TypeOK
  <1>7. Uncrossed'
    BY <1>1, <1>6, ShrinkUncrossed DEF Absent
  <1>8. /\ IndicesInLockstep'
        /\ orders_' = orders_ \ {j} /\ orders_' \subseteq Ids /\ byOrderId' \subseteq Ids
        /\ byClOrdId' \in [ClOrdIds -> Ids \cup {NoId}]
        /\ \A c \in ClOrdIds : byClOrdId[c] = NoId => byClOrdId'[c] = NoId
    <2>1. \A k \in orders_ \ {j} : order'[k].cl = order[k].cl
      BY <1>1, <1>3, Zenon DEF TypeOK
    <2> QED
      BY <1>1, <2>1, UnindexLockstep, Zenon
  <1>9. IdsOK'
    BY <1>1, <1>3, <1>6, <1>8, Zenon DEF IdsOK
  <1> QED
    BY <1>3, <1>4, <1>5, <1>6, <1>7, <1>8, <1>9, Zenon

\* The parts of the invariant that speak of the book, the orders and the indices only.
LEMMA BookUnchanged ==
    ASSUME Inv, UNCHANGED <<bookVars, mkt>>
    PROVE  /\ l3' = l3 /\ order' = order /\ orders_' = orders_ /\ byClOrdId' = byClOrdId
           /\ byOrderId' = byOrderId /\ pool' = pool /\ mdQty' = mdQty /\ nextId' = nextId
           /\ nextPrio' = nextPrio /\ dirty' = dirty /\ lastEnd' = lastEnd /\ mkt' = mkt
           /\ IndicesInLockstep' /\ Uncrossed' /\ IdsOK'
  <1>1. /\ l3' = l3 /\ order' = order /\ orders_' = orders_ /\ byClOrdId' = byClOrdId
        /\ byOrderId' = byOrderId /\ pool' = pool /\ mdQty' = mdQty /\ nextId' = nextId
        /\ nextPrio' = nextPrio /\ dirty' = dirty /\ lastEnd' = lastEnd /\ mkt' = mkt
    BY Zenon DEF bookVars
  <1>2. IndicesInLockstep /\ Uncrossed /\ IdsOK
    BY Zenon DEF Inv, HandlerOK
  <1> QED
    BY <1>1, <1>2, Zenon DEF IndicesInLockstep, Uncrossed, Resting, IdsOK

\* Every entry has a quantity, before and after a step.
LEMMA Quantities ==
    ASSUME TypeOK, TypeOK'
    PROVE  \A k \in Ids : l3[k].qty \in Nat /\ l3'[k].qty \in Nat
  <1>1. \A e \in BookEntry : e.qty \in Nat
    BY DEF BookEntry, Absent
  <1> QED
    BY <1>1, Zenon DEF TypeOK

\* A request that finds its order finds a simulator order.
LEMMA LookupOwn ==
    ASSUME TypeOK, IndicesInLockstep, NEW cl \in ClOrdIds \cup {NoClOrdId}, NEW oid \in Ids,
           Lookup(cl, oid) # NoId
    PROVE  Lookup(cl, oid) \in orders_
  BY Zenon DEF Lookup, IndicesInLockstep

\* The venue's orders are not the clients', and their ids have been handed out.
LEMMA VenueOrder ==
    ASSUME Inv, NEW i \in Ids, mkt[i].qty > 0
    PROVE  /\ i \notin orders_ /\ i < nextId /\ mkt[i].side \in Sides
           /\ mkt[i].price \in AllPrices /\ mkt[i].prio \in Nat /\ nextId \in Int /\ i \in Int
  <1>1. TypeOK /\ IdsOK
    BY Zenon DEF Inv, HandlerOK
  <1>2. mkt[i] \in BookEntry /\ nextId \in Int /\ i \in Int
    BY <1>1, BoundsAssumption, SMTT(30) DEF TypeOK, Ids
  <1>3. mkt[i] # Absent
    BY SMTT(30) DEF Absent
  <1>4. /\ mkt[i].side \in Sides /\ mkt[i].price \in AllPrices /\ mkt[i].prio \in Nat
    BY <1>2, <1>3, Zenon DEF BookEntry
  <1> QED
    BY <1>1, <1>2, <1>3, <1>4 DEF IdsOK

-----------------------------------------------------------------------------
\* The liquidity the order in hand reaches.
InReach == Reachable(order[cur.id].side, cur.price)

\* What one turn of the matching loop that fills does to both orders.
LEMMA FillEffect ==
    ASSUME Inv, NEW j \in Ids, Fill(j), NEW q, q = Lesser(order[cur.id].leaves, l3[j].qty)
    PROVE  /\ pc = "match" /\ pc' = pc /\ cur' = cur /\ smp' = smp /\ cur.id \in Ids /\ j # cur.id
           /\ j \in InReach /\ IsFront(Opposite(order[cur.id].side), j)
           /\ ~PreventsMatch(cur.id, j) /\ order[cur.id].side \in Sides /\ cur.price \in AllPrices
           /\ q \in Nat \ {0} /\ q <= order[cur.id].leaves /\ l3'[j].qty = l3[j].qty - q
           /\ l3'[j].qty > 0 => /\ l3'[j].side = l3[j].side /\ l3'[j].price = l3[j].price
                                /\ l3'[j].prio = l3[j].prio
           /\ \A k \in Ids \ {j} : l3'[k] = l3[k] /\ (k \in orders_' <=> k \in orders_)
           /\ \A k \in Ids \ {cur.id, j} : order'[k] = order[k]
           /\ order[cur.id].leaves \in Nat /\ order'[cur.id].leaves = order[cur.id].leaves - q
           /\ order'[cur.id].side = order[cur.id].side /\ order'[cur.id].tif = order[cur.id].tif
           /\ order'[cur.id].client = order[cur.id].client
           /\ order'[cur.id].tag = order[cur.id].tag /\ order'[cur.id].prio = order[cur.id].prio
           /\ order'[cur.id].price = order[cur.id].price
           /\ j \in orders_' => /\ j \in orders_ /\ order'[j].client = order[j].client
                                /\ order'[j].tag = order[j].tag
  <1> DEFINE a == cur.id
  <1>1. TypeOK /\ BookAgreesWithOrders /\ KindOK /\ NewOK /\ ModifyOK
    BY Zenon DEF Inv, HandlerOK
  <1>2. /\ l3[j].qty > 0 /\ l3[j].side = Opposite(order[a].side) /\ order[a].leaves > 0
        /\ pc = "match" /\ pc' = pc /\ cur' = cur /\ smp' = smp
        /\ IsFront(Opposite(order[a].side), j) /\ Reaches(order[a].side, cur.price, l3[j].price)
        /\ ~PreventsMatch(a, j)
    BY Zenon DEF Fill, Hit, IsFront, Resting
  <1>3. /\ a \in Ids /\ order[a] \in Order /\ order[j] \in Order /\ l3[j].qty \in Nat
        /\ order[a].leaves \in Nat /\ order[a].side \in Sides /\ cur.price \in AllPrices
    <2>1. a \in Ids /\ order[a] \in Order /\ order[j] \in Order /\ cur \in Handlers
      BY <1>1, <1>2, Zenon DEF KindOK, TypeOK
    <2> QED
      BY <2>1, <1>1, EntryFields, Zenon DEF Order, Handlers
  <1>4. j # a
    BY <1>1, <1>2, <1>3 DEF NewOK, ModifyOK, KindOK, Working, Absent, Opposite, Order, Sides
  <1>5. q \in Nat \ {0} /\ q <= order[a].leaves /\ q <= l3[j].qty
    BY <1>2, <1>3 DEF Lesser
  <1>6. /\ L3Execute(j, q, j \in orders_, order[a].leaves = q) /\ FillIndices(j, q)
        /\ order' = [order EXCEPT ![a] = Filled(@, q), ![j] = RestingAfter(j, q)]
    BY Zenon DEF Fill
  <1>7. /\ order'[a] = Filled(order[a], q) /\ order'[j] = RestingAfter(j, q)
        /\ \A k \in Ids \ {a, j} : order'[k] = order[k]
    BY <1>1, <1>3, <1>4, <1>6, Zenon DEF TypeOK
  <1>8. /\ order'[a].leaves = order[a].leaves - q /\ order'[a].client = order[a].client
        /\ order'[a].side = order[a].side /\ order'[a].tif = order[a].tif
        /\ order'[a].tag = order[a].tag /\ order'[a].prio = order[a].prio
        /\ order'[a].price = order[a].price
    BY <1>3, <1>5, <1>7, FilledFields, SMTT(30)
  <1>9. j \in InReach
    BY <1>2, <1>3, Zenon DEF InReach, Reachable, Resting
  <1>10. /\ l3'[j] = Entry(l3[j].side, l3[j].price, l3[j].qty - q, l3[j].prio)
         /\ \A k \in Ids \ {j} : l3'[k] = l3[k]
    BY <1>1, <1>6, Zenon DEF L3Execute, L3Set, TypeOK
  <1>11. /\ l3'[j].qty = l3[j].qty - q
         /\ l3'[j].qty > 0 => /\ l3'[j].side = l3[j].side /\ l3'[j].price = l3[j].price
                              /\ l3'[j].prio = l3[j].prio
    BY <1>3, <1>5, <1>10 DEF Entry, Absent
  <1>12. /\ \A k \in Ids \ {j} : k \in orders_' <=> k \in orders_
         /\ j \in orders_' => j \in orders_ /\ order'[j] = Filled(order[j], q)
    <2>1. CASE j \in orders_ /\ order[j].leaves = q
      BY <1>6, <2>1, Zenon DEF FillIndices, UnindexOrder
    <2>2. CASE ~(j \in orders_ /\ order[j].leaves = q)
      BY <1>6, <1>7, <2>2, Zenon DEF FillIndices, indexVars, RestingAfter
    <2> QED
      BY <2>1, <2>2, Zenon
  <1>13. j \in orders_' => order'[j].client = order[j].client /\ order'[j].tag = order[j].tag
    <2> SUFFICES ASSUME j \in orders_' PROVE order'[j].client = order[j].client /\ order'[j].tag = order[j].tag
      BY Zenon
    <2>1. q <= order[j].leaves
      BY <1>1, <1>4, <1>5, <1>12, OwnAgrees, Zenon
    <2> QED
      BY <1>3, <1>5, <1>12, <2>1, FilledFields, SMTT(30)
  <1> QED
    BY <1>2, <1>3, <1>4, <1>5, <1>7, <1>8, <1>9, <1>10, <1>11, <1>12, <1>13, Zenon

-----------------------------------------------------------------------------
\* A step that leaves the book and its caches alone.
BookStill == /\ l3' = l3 /\ mdQty' = mdQty /\ orders_' = orders_ /\ dirty' = dirty /\ pub' = pub
             /\ pc' = "idle" => pc = "idle"

\* A step that changes one entry, and tells the observers of it, inside a handler.  An
\* order is in the index while it has an entry of its own.
EntryStep ==
    /\ pub' = pub /\ pc' # "idle"
    /\ \E i \in Ids, new \in BookEntry, last \in BOOLEAN :
          /\ L3Set(i, new, i \in orders_ \cup orders_', last)
          /\ orders_' \ {i} = orders_ \ {i}
          /\ i \in orders_ \ orders_' => new = Absent
          /\ i \in orders_' \ orders_ => l3[i] = Absent

\* A fill changes the entry of the resting order only, and unindexes it when it empties it.
LEMMA ExecuteEntry ==
    ASSUME Inv, TypeOK', NEW j \in Ids, NEW q \in Nat \ {0}, NEW last \in BOOLEAN,
           L3Execute(j, q, j \in orders_, last), FillIndices(j, q), pub' = pub, pc' # "idle",
           ~(cur.kind = "modify" /\ cur.id = j)
    PROVE  EntryStep
  <1> DEFINE new == Entry(l3[j].side, l3[j].price, l3[j].qty - q, l3[j].prio)
  <1>1. TypeOK /\ BookAgreesWithOrders
    BY Zenon DEF Inv
  <1>2. L3Set(j, new, j \in orders_, last) /\ l3'[j] = new
    BY <1>1, Zenon DEF L3Execute, L3Set, TypeOK
  <1>3. new \in BookEntry
    <2>1. l3'[j] \in BookEntry
      BY Zenon DEF TypeOK
    <2> QED
      BY <1>2, <2>1, Zenon
  <1>4. CASE j \in orders_ /\ order[j].leaves = q
    <2>1. orders_' = orders_ \ {j}
      BY <1>4, Zenon DEF FillIndices, UnindexOrder
    <2>2. l3[j].qty - q = 0
      BY <1>1, <1>4, OwnAgrees
    <2>3. new = Absent
      BY <2>2, Zenon DEF Entry
    <2>4. j \in orders_ \cup orders_' <=> j \in orders_
      BY <1>4, Zenon
    <2> HIDE DEF new
    <2> QED
      BY <1>2, <1>3, <1>4, <2>1, <2>3, <2>4, Zenon DEF EntryStep
  <1>5. CASE ~(j \in orders_ /\ order[j].leaves = q)
    <2>1. orders_' = orders_
      BY <1>5, Zenon DEF FillIndices, indexVars
    <2> HIDE DEF new
    <2> QED
      BY <1>2, <1>3, <2>1, Zenon DEF EntryStep
  <1> QED
    BY <1>4, <1>5, Zenon

\* The same for a step that sets one entry and keeps the index.
LEMMA SetEntry ==
    ASSUME TypeOK, TypeOK', NEW i \in Ids, NEW new, NEW last \in BOOLEAN,
           L3Set(i, new, i \in orders_, last), orders_' = orders_, pub' = pub, pc' # "idle"
    PROVE  EntryStep
  <1>1. new \in BookEntry
    BY Zenon DEF L3Set, TypeOK
  <1>2. i \in orders_ \cup orders_' <=> i \in orders_
    BY Zenon
  <1> QED
    BY <1>1, <1>2, Zenon DEF EntryStep

\* The same for a step that takes an order off the book and out of the indices.
LEMMA DropEntry ==
    ASSUME NEW i \in orders_, i \in Ids, NEW last \in BOOLEAN,
           L3Set(i, Absent, i \in orders_, last), UnindexOrder(i), pub' = pub, pc' # "idle"
    PROVE  EntryStep
  <1>1. orders_' = orders_ \ {i} /\ Absent \in BookEntry
    BY Zenon DEF UnindexOrder, BookEntry
  <1>2. i \in orders_ \cup orders_' <=> i \in orders_
    BY Zenon
  <1> QED
    BY <1>1, <1>2, Zenon DEF EntryStep

\* A request is looked up, recorded and answered before anything in the book moves.
LEMMA RequestEffect ==
    ASSUME Request
    PROVE  /\ l3' = l3 /\ mdQty' = mdQty /\ dirty' = dirty /\ lastEnd' = lastEnd /\ orders_' = orders_
           /\ pub' = pub /\ mkt' = mkt /\ nextPrio' = nextPrio /\ pc = "idle"
           /\ pc' \in {"smp", "cancel"} \/ (pc' = pc /\ cur' = cur /\ order' = order)
  <1> DEFINE Still == /\ l3' = l3 /\ mdQty' = mdQty /\ dirty' = dirty /\ lastEnd' = lastEnd /\ orders_' = orders_
                      /\ pub' = pub /\ mkt' = mkt /\ nextPrio' = nextPrio /\ pc = "idle"
                      /\ pc' \in {"smp", "cancel"} \/ (pc' = pc /\ cur' = cur /\ order' = order)
  <1>1. ASSUME NEW client, NEW cl, NEW side, NEW price, NEW qty, NEW tif, NEW tag,
               NewOrder(client, cl, side, price, qty, tif, tag)
        PROVE  Still
    BY <1>1, Zenon DEF NewOrder, l3Vars, indexVars
  <1>2. ASSUME NEW cl, NEW oid, NEW price, NEW qty, NEW tag, ModifyOrder(cl, oid, price, qty, tag)
        PROVE  Still
    BY <1>2, Zenon DEF ModifyOrder, l3Vars, indexVars
  <1>3. ASSUME NEW cl, NEW oid, NEW tag, CancelOrder(cl, oid, tag) PROVE Still
    BY <1>3, Zenon DEF CancelOrder, l3Vars, indexVars
  <1>4. ASSUME NEW ref, RejectRequest(ref) PROVE Still
    BY <1>4, Zenon DEF RejectRequest, bookVars
  <1> HIDE DEF Still
  <1>5. Still
    BY <1>1, <1>2, <1>3, <1>4, Zenon DEF Request
  <1> QED
    BY <1>5, Zenon DEF Still

\* The steps of the engine that decide, report or write onto the order in hand, before or
\* after the loop that changes the book.
Deciding == \/ RejectSelfMatch \/ Acknowledge \/ KillFok \/ PassFok \/ ApplyReplace
            \/ CancelZeroLeaves \/ EndMatch \/ DropNew

\* They leave the book alone.
LEMMA DecidingEffect ==
    ASSUME Deciding
    PROVE  /\ l3' = l3 /\ mdQty' = mdQty /\ dirty' = dirty /\ orders_' = orders_
           /\ pub' = pub /\ mkt' = mkt /\ nextPrio' = nextPrio /\ cur' = cur
           /\ pc' \in {"fok", "replace", "zero", "match", "rest", "flush"}
  BY Zenon DEF Deciding, RejectSelfMatch, RejectCurrent, Acknowledge, KillFok, PassFok, ApplyReplace,
     CancelZeroLeaves, EndMatch, DropNew, l3Vars, indexVars, bookVars

\* Every step leaves the book alone, publishes it, or changes one entry of it.
LEMMA StepEffect ==
    ASSUME Inv, Inv', [Next]_vars PROVE BookStill \/ Flush \/ EntryStep
  <1>1. /\ TypeOK /\ TypeOK' /\ BookAgreesWithOrders /\ KindOK /\ NewOK /\ ModifyOK /\ IdsOK
    BY Zenon DEF Inv, HandlerOK
  <1>2. CASE Request
    BY <1>2, RequestEffect, Zenon DEF BookStill
  <1>3. CASE UNCHANGED vars
    BY <1>3, Zenon DEF vars, BookStill
  <1>4. CASE Deciding \/ EndFeed
    BY <1>4, DecidingEffect, Zenon DEF EndFeed, BookStill, bookVars
  <1>5. ASSUME NEW j \in Ids, Fill(j) PROVE EntryStep
    <2> DEFINE q == Lesser(order[cur.id].leaves, l3[j].qty)
    <2>1. j # cur.id /\ q \in Nat \ {0} /\ pc = "match"
      BY <1>5, FillEffect, Zenon
    <2>2. /\ L3Execute(j, q, j \in orders_, order[cur.id].leaves = q) /\ FillIndices(j, q)
          /\ pub' = pub /\ pc' = pc
      BY <1>5, Zenon DEF Fill
    <2> HIDE DEF q
    <2> QED
      BY <1>1, <2>1, <2>2, ExecuteEntry, Zenon
  <1>6. ASSUME NEW j \in Ids, FeedFill(j) PROVE EntryStep
    <2> DEFINE q == Lesser(cur.qty, l3[j].qty)
    <2>1. /\ L3Execute(j, q, j \in orders_, cur.qty = q) /\ FillIndices(j, q)
          /\ pub' = pub /\ pc' = pc /\ pc = "feed" /\ cur.qty > 0 /\ l3[j].qty > 0
      BY <1>6, Zenon DEF FeedFill, Hit, IsFront, Resting
    <2>2. q \in Nat \ {0}
      <3>1. cur.qty \in Nat /\ l3[j].qty \in Nat
        BY <1>1, EntryFields, Zenon DEF TypeOK, Handlers
      <3> QED
        BY <2>1, <3>1 DEF Lesser
    <2>3. cur.kind # "modify"
      BY <1>1, <2>1, Zenon DEF KindOK
    <2> HIDE DEF q
    <2> QED
      BY <1>1, <2>1, <2>2, <2>3, ExecuteEntry, Zenon
  <1>7. ASSUME NEW j \in Ids, CancelResting(j) PROVE EntryStep
    BY <1>5, <1>7, DropEntry, Zenon DEF CancelResting, DeleteOrder, L3Delete, PreventsMatch, SelfMatch
  <1>8. CASE RestNew
    <2> DEFINE i == cur.id
               new == Entry(order[i].side, order[i].price, order[i].leaves, nextPrio)
    <2>1. /\ L3Set(i, new, TRUE, TRUE) /\ orders_' = orders_ \cup {i} /\ pub' = pub /\ pc' = "flush"
          /\ i \in Ids /\ i \notin orders_ /\ l3[i] = Absent
      BY <1>1, <1>8, Zenon DEF RestNew, AddOrder, IndexOrder, NewOK, KindOK, Working
    <2>2. new \in BookEntry
      <3>1. l3'[i] = new
        BY <1>1, <2>1, Zenon DEF L3Set, TypeOK
      <3>2. l3'[i] \in BookEntry
        BY <1>1, <2>1, Zenon DEF TypeOK
      <3> QED
        BY <3>1, <3>2, Zenon
    <2>3. (i \in orders_ \cup orders_') = TRUE
      BY <2>1, Zenon
    <2> HIDE DEF new
    <2>4. L3Set(i, new, i \in orders_ \cup orders_', TRUE)
      BY <2>1, <2>3, Zenon
    <2> QED
      BY <2>1, <2>2, <2>4, Zenon DEF EntryStep
  <1>9. CASE RestModified
    <2> DEFINE i == cur.id
               new == Entry(order[i].side, order[i].price, order[i].leaves,
                            IF cur.requeue THEN nextPrio ELSE order[i].prio)
    <2>1. /\ L3Set(i, new, i \in orders_, TRUE) /\ pub' = pub /\ pc' = "flush"
          /\ IF order[i].leaves = 0 THEN UnindexOrder(i) ELSE orders_' = orders_
          /\ i \in Ids /\ i \in orders_
      BY <1>1, <1>9, Zenon DEF RestModified, ModifyOK, KindOK, Working, indexVars
    <2>2. CASE order[i].leaves = 0
      BY <2>1, <2>2, DropEntry, Zenon DEF Entry
    <2>3. CASE order[i].leaves # 0
      BY <1>1, <2>1, <2>3, SetEntry, Zenon
    <2> QED
      BY <2>2, <2>3, Zenon
  <1>10. CASE CompleteCancel
    <2>1. cur.id \in orders_ /\ cur.id \in Ids
      BY <1>1, <1>10, Zenon DEF CompleteCancel, ModifyOK, KindOK
    <2> QED
      BY <1>10, <2>1, DropEntry, Zenon DEF CompleteCancel, DeleteOrder, L3Delete
  <1>11. CASE RestMarketOrder
    <2>1. cur.id \in Ids
      BY <1>1, <1>11, Zenon DEF RestMarketOrder, KindOK
    <2> QED
      BY <1>1, <1>11, <2>1, SetEntry, Zenon DEF RestMarketOrder, indexVars
  <1>12. CASE MarketEvent
    <2>1. ASSUME NEW i \in Ids, NEW qty, MarketChange(i, qty) PROVE EntryStep
      BY <1>1, <2>1, SetEntry, Zenon DEF MarketChange, indexVars
    <2>2. ASSUME NEW i \in Ids, NEW price, NEW qty, MarketRequeue(i, price, qty) PROVE EntryStep
      BY <1>1, <2>2, SetEntry, Zenon DEF MarketRequeue, Aggress, L3Delete, indexVars
    <2>3. ASSUME NEW i \in Ids, MarketDelete(i) PROVE EntryStep
      BY <1>1, <2>3, SetEntry, Zenon DEF MarketDelete, L3Delete, indexVars
    <2>4. ASSUME NEW side, NEW price, NEW qty, MarketNew(side, price, qty) \/ MarketTrade(side, price, qty)
          PROVE  BookStill
      BY <2>4, Zenon DEF MarketNew, MarketTrade, Aggress, BookStill, l3Vars, indexVars
    <2>5. ASSUME NEW i \in Ids, NEW qty, MarketRestore(i, qty) PROVE BookStill
      BY <2>5, Zenon DEF MarketRestore, Aggress, BookStill, bookVars
    <2> QED
      BY <1>12, <2>1, <2>2, <2>3, <2>4, <2>5, Zenon DEF MarketEvent
  <1> QED
    BY <1>2, <1>3, <1>4, <1>5, <1>6, <1>7, <1>8, <1>9, <1>10, <1>11, <1>12, Zenon DEF Next, Step, Deciding

-----------------------------------------------------------------------------
\* The phases in which a request has not been accepted yet.
Pending == pc \in {"smp", "fok", "replace"}

\* An order carries the tag it last accepted, except while a request that may still be
\* turned away holds it; that request remembers the tag it displaced.
TagOK ==
    /\ \A i \in orders_ :
          ~(cur.id = i /\ (pc = "cancel" \/ Pending)) => order[i].tag = accTag[i]
    /\ Pending /\ cur.kind = "modify" => cur.tag = accTag[cur.id]
    /\ Working /\ cur.kind = "new" => order[cur.id].tag = accTag[cur.id]

\* A step outside the phases that may still turn a request away leaves the tags alone.
LEMMA TagsKept ==
    ASSUME TagOK, accTag' = accTag, orders_' \subseteq orders_,
           \A k \in orders_' : order'[k].tag = order[k].tag,
           ~Pending, pc # "cancel", ~Pending', pc' # "cancel",
           Working' /\ cur'.kind = "new" => /\ Working /\ cur' = cur
                                            /\ order'[cur.id].tag = order[cur.id].tag
    PROVE  TagOK'
  BY Zenon DEF TagOK

\* What a fill leaves of the tags.
LEMMA FillTags ==
    ASSUME TypeOK, NEW j \in Ids, NEW q, FillIndices(j, q),
           NEW o, o = RestingAfter(j, q)
    PROVE  orders_' \subseteq orders_ /\ (j \in orders_' => o.tag = order[j].tag)
  <1>1. order[j] \in Order
    BY Zenon DEF TypeOK
  <1>2. CASE j \in orders_ /\ order[j].leaves = q
    BY <1>2, Zenon DEF FillIndices, UnindexOrder
  <1>3. CASE ~(j \in orders_ /\ order[j].leaves = q)
    <2>1. orders_' = orders_ /\ (o = order[j] \/ o = Filled(order[j], q))
      BY <1>3, Zenon DEF FillIndices, indexVars, RestingAfter
    <2>2. Filled(order[j], q).tag = order[j].tag
      BY <1>1, Zenon DEF Filled, Order
    <2> QED
      BY <2>1, <2>2, Zenon
  <1> QED
    BY <1>2, <1>3, Zenon

\* The tags stay those of the accepted requests through every step.
LEMMA TagNext == ASSUME Inv, SelfMatchDecidedUpFront, TagOK, [Next]_vars PROVE TagOK'
  <1>1. /\ TypeOK /\ KindOK /\ NewOK /\ ModifyOK /\ IndicesInLockstep /\ IdsOK
    BY Zenon DEF Inv, HandlerOK
  <1>2. \A k \in Ids : order[k] \in Order
    BY <1>1, Zenon DEF TypeOK
  <1>3. CASE Request
    <2>1. ASSUME NEW client, NEW cl, NEW side, NEW price, NEW qty, NEW tif, NEW tag,
                 NewOrder(client, cl, side, price, qty, tif, tag)
          PROVE  TagOK'
      <3> DEFINE o == [client |-> client, cl |-> cl, side |-> side, price |-> price,
                       quantity |-> qty, leaves |-> qty, cum |-> 0, tif |-> tif,
                       tag |-> tag, prio |-> 0]
      <3>1. /\ pc = "idle" /\ pc' = "smp" /\ order' = [order EXCEPT ![nextId] = o] /\ nextId <= MaxId
            /\ accTag' = [accTag EXCEPT ![nextId] = tag] /\ orders_' = orders_
            /\ cur' = [NoHandler EXCEPT !.kind = "new", !.id = nextId, !.side = side,
                                        !.price = price, !.qty = qty, !.tag = tag]
        BY <2>1, Zenon DEF NewOrder, indexVars
      <3>2. nextId \in Ids /\ nextId \notin orders_
        BY <1>1, <3>1, BoundsAssumption DEF TypeOK, Ids, IdsOK
      <3>3. cur'.id = nextId /\ cur'.kind = "new"
        BY <3>1, Zenon DEF NoHandler
      <3>4. order'[nextId].tag = tag /\ accTag'[nextId] = tag
        BY <1>1, <3>1, <3>2, Zenon DEF TypeOK
      <3>5. \A k \in orders_ : order'[k] = order[k] /\ accTag'[k] = accTag[k]
        BY <1>1, <3>1, <3>2, Zenon DEF TypeOK
      <3>6. \A k \in orders_ : order[k].tag = accTag[k]
        BY <3>1, Zenon DEF TagOK, Pending
      <3> QED
        BY <3>1, <3>3, <3>4, <3>5, <3>6, Zenon DEF TagOK
    <2>2. ASSUME NEW i \in orders_, NEW tag \in Tags, pc = "idle",
                 order' = [order EXCEPT ![i].tag = tag], cur'.id = i, cur'.tag = order[i].tag,
                 cur'.kind # "new", pc' \in {"smp", "cancel"}, orders_' = orders_, accTag' = accTag
          PROVE  TagOK'
      <3>1. \A k \in orders_ \ {i} : order'[k] = order[k]
        BY <1>1, <2>2, Zenon DEF TypeOK
      <3>2. \A k \in orders_ : order[k].tag = accTag[k]
        BY <2>2, Zenon DEF TagOK, Pending
      <3> QED
        BY <2>2, <3>1, <3>2, Zenon DEF TagOK, Pending, Working
    <2>3. ASSUME NEW cl \in ClOrdIds \cup {NoClOrdId}, NEW oid \in Ids, NEW price, NEW qty, NEW tag \in Tags,
                 ModifyOrder(cl, oid, price, qty, tag)
          PROVE  TagOK'
      <3> DEFINE i == Lookup(cl, oid)
      <3>1. i \in orders_
        BY <1>1, <2>3, LookupOwn, Zenon DEF ModifyOrder
      <3>2. /\ pc = "idle" /\ order' = [order EXCEPT ![i].tag = tag] /\ pc' = "smp"
            /\ orders_' = orders_ /\ accTag' = accTag
            /\ cur' = [NoHandler EXCEPT !.kind = "modify", !.id = i, !.side = order[i].side,
                       !.price = price, !.qty = qty, !.tag = order[i].tag,
                       !.requeue = Requeues(order[i], price, qty),
                       !.ref = IF cl = NoClOrdId THEN i ELSE NoId]
        BY <2>3, Zenon DEF ModifyOrder, indexVars
      <3> HIDE DEF i
      <3>3. cur'.id = i /\ cur'.tag = order[i].tag /\ cur'.kind = "modify"
        BY <3>2, Zenon DEF NoHandler
      <3> QED
        BY <2>2, <3>1, <3>2, <3>3, Zenon
    <2>4. ASSUME NEW cl \in ClOrdIds \cup {NoClOrdId}, NEW oid \in Ids, NEW tag \in Tags,
                 CancelOrder(cl, oid, tag)
          PROVE  TagOK'
      <3> DEFINE i == Lookup(cl, oid)
      <3>1. i \in orders_
        BY <1>1, <2>4, LookupOwn, Zenon DEF CancelOrder
      <3>2. /\ pc = "idle" /\ order' = [order EXCEPT ![i].tag = tag] /\ pc' = "cancel"
            /\ orders_' = orders_ /\ accTag' = accTag
            /\ cur' = [NoHandler EXCEPT !.kind = "cancel", !.id = i, !.tag = order[i].tag]
        BY <2>4, Zenon DEF CancelOrder, indexVars
      <3> HIDE DEF i
      <3>3. cur'.id = i /\ cur'.tag = order[i].tag /\ cur'.kind = "cancel"
        BY <3>2, Zenon DEF NoHandler
      <3> QED
        BY <2>2, <3>1, <3>2, <3>3, Zenon
    <2>5. ASSUME NEW ref, RejectRequest(ref) PROVE TagOK'
      BY <2>5, Zenon DEF RejectRequest, bookVars, TagOK, Working, Pending
    <2> QED
      BY <1>3, <2>1, <2>3, <2>4, <2>5, Zenon DEF Request
  <1>4. CASE MarketEvent
    <2>1. /\ order' = order /\ orders_' = orders_ /\ accTag' = accTag
          /\ pc \in {"idle", "packet"} /\ pc' \in {"packet", "feed"}
      BY <1>4, ZenonT(30) DEF MarketEvent, MarketNew, MarketChange, MarketRestore, MarketRequeue,
         MarketDelete, MarketTrade, Aggress, InPacket, indexVars, bookVars
    <2> QED
      BY <2>1, TagsKept, Zenon DEF Pending, Working
  <1>5. CASE UNCHANGED vars
    BY <1>5, Zenon DEF vars, TagOK, Working, Pending
  <1>6. CASE Acknowledge \/ PassFok
    <2>1. /\ pc \in {"smp", "fok"} /\ cur' = cur /\ order' = order /\ orders_' = orders_ /\ accTag' = accTag
          /\ cur.kind = "modify" => pc' \in {"fok", "replace"}
          /\ pc' \in {"fok", "replace", "zero", "match"}
      BY <1>6, Zenon DEF Acknowledge, PassFok, bookVars
    <2>2. cur.kind \in {"new", "modify"} /\ (cur.kind = "new" => cur.id \notin orders_)
      BY <1>1, <2>1, Zenon DEF KindOK, NewOK, Working
    <2> QED
      BY <2>1, <2>2, Zenon DEF TagOK, Working, Pending
  <1>7. CASE RejectSelfMatch
    <2>1. /\ pc = "smp" /\ pc' = "flush" /\ cur' = cur /\ orders_' = orders_ /\ accTag' = accTag
          /\ \/ cur.kind = "new" /\ order' = [order EXCEPT ![cur.id] = Recycled]
             \/ cur.kind = "modify" /\ order' = [order EXCEPT ![cur.id].tag = cur.tag]
      BY <1>7, Zenon DEF RejectSelfMatch, RejectCurrent, RestoreTag, SelfMatchDecidedUpFront, indexVars
    <2>2. cur.id \in Ids /\ (cur.kind = "new" => cur.id \notin orders_)
      BY <1>1, <2>1, Zenon DEF KindOK, NewOK, Working
    <2>3. \A k \in orders_ \ {cur.id} : order'[k] = order[k]
      BY <1>1, <2>1, Zenon DEF TypeOK
    <2>4. cur.kind = "modify" => order'[cur.id].tag = cur.tag
      BY <1>1, <2>1, <2>2, <1>2 DEF TypeOK, Order
    <2> QED
      BY <2>1, <2>2, <2>3, <2>4, Zenon DEF TagOK, Working, Pending
  <1>8. CASE KillFok
    <2>1. /\ pc = "fok" /\ pc' = "flush" /\ cur' = cur /\ orders_' = orders_ /\ accTag' = accTag
          /\ order' = [order EXCEPT ![cur.id] = Recycled] /\ order[cur.id].tif = "FOK"
      BY <1>8, Zenon DEF KillFok, indexVars
    <2>2. cur.id \in Ids /\ cur.id \notin orders_
      BY <1>1, <2>1, Zenon DEF KindOK, IdsOK
    <2>3. \A k \in orders_ : order'[k] = order[k]
      BY <1>1, <2>1, <2>2, Zenon DEF TypeOK
    <2> QED
      BY <2>1, <2>2, <2>3, Zenon DEF TagOK, Working, Pending
  <1>9. CASE ApplyReplace
    <2>1. /\ pc = "replace" /\ pc' \in {"zero", "match"} /\ cur' = cur /\ orders_' = orders_
          /\ accTag' = [accTag EXCEPT ![cur.id] = order[cur.id].tag]
          /\ order' = [order EXCEPT ![cur.id].quantity = cur.qty, ![cur.id].price = cur.price,
                         ![cur.id].leaves = IF order[cur.id].cum >= cur.qty THEN 0 ELSE cur.qty - order[cur.id].cum]
      BY <1>9, Zenon DEF ApplyReplace, indexVars
    <2>2. cur.id \in Ids /\ cur.kind = "modify"
      BY <1>1, <2>1, Zenon DEF KindOK
    <2>3. order'[cur.id].tag = order[cur.id].tag /\ accTag'[cur.id] = order[cur.id].tag
      BY <1>1, <1>2, <2>1, <2>2 DEF TypeOK, Order
    <2>4. \A k \in orders_ \ {cur.id} : order'[k] = order[k] /\ accTag'[k] = accTag[k]
      BY <1>1, <2>1, Zenon DEF TypeOK
    <2> QED
      BY <2>1, <2>2, <2>3, <2>4, Zenon DEF TagOK, Working, Pending
  <1>10. CASE CancelZeroLeaves \/ EndMatch
    <2>1. /\ pc \in {"zero", "match"} /\ pc' = "rest" /\ cur' = cur /\ order' = order
          /\ orders_' = orders_ /\ accTag' = accTag
      BY <1>10, Zenon DEF CancelZeroLeaves, EndMatch, bookVars
    <2> QED
      BY <2>1, TagsKept, Zenon DEF Pending, Working
  <1>11. ASSUME NEW j \in Ids, Fill(j) PROVE TagOK'
    <2> DEFINE q == Lesser(order[cur.id].leaves, l3[j].qty)
    <2>1. /\ pc = "match" /\ pc' = pc /\ cur' = cur /\ accTag' = accTag /\ FillIndices(j, q)
          /\ order' = [order EXCEPT ![cur.id] = Filled(order[cur.id], q), ![j] = RestingAfter(j, q)]
      BY <1>11, Zenon DEF Fill
    <2>2. j # cur.id /\ cur.id \in Ids
      BY <1>11, FillEffect, Zenon
    <2> HIDE DEF q
    <2>3. /\ order'[j] = RestingAfter(j, q) /\ order'[cur.id] = Filled(order[cur.id], q)
          /\ \A k \in Ids \ {j, cur.id} : order'[k] = order[k]
      BY <1>1, <2>1, <2>2, Zenon DEF TypeOK
    <2>4. order'[cur.id].tag = order[cur.id].tag
      BY <1>2, <2>2, <2>3, Zenon DEF Filled, Order
    <2>5. orders_' \subseteq orders_ /\ (j \in orders_' => order'[j].tag = order[j].tag)
      BY <1>1, <2>1, <2>3, FillTags
    <2>6. \A k \in orders_' : order'[k].tag = order[k].tag
      BY <1>1, <2>2, <2>3, <2>4, <2>5, Zenon DEF TypeOK
    <2> QED
      BY <2>1, <2>4, <2>5, <2>6, TagsKept, Zenon DEF Pending, Working
  <1>12. ASSUME NEW j \in Ids, FeedFill(j) PROVE TagOK'
    <2> DEFINE q == Lesser(cur.qty, l3[j].qty)
    <2>1. /\ pc = "feed" /\ pc' = pc /\ accTag' = accTag /\ FillIndices(j, q)
          /\ order' = [order EXCEPT ![j] = RestingAfter(j, q)]
      BY <1>12, Zenon DEF FeedFill
    <2> HIDE DEF q
    <2>2. order'[j] = RestingAfter(j, q) /\ \A k \in Ids \ {j} : order'[k] = order[k]
      BY <1>1, <2>1, Zenon DEF TypeOK
    <2>3. orders_' \subseteq orders_ /\ (j \in orders_' => order'[j].tag = order[j].tag)
      BY <1>1, <2>1, <2>2, FillTags, ZenonT(30)
    <2>4. \A k \in orders_' : order'[k].tag = order[k].tag
      BY <1>1, <2>2, <2>3, Zenon DEF TypeOK
    <2> QED
      BY <2>1, <2>3, <2>4, TagsKept, Zenon DEF Pending, Working
  <1>13. ASSUME NEW j \in Ids, CancelResting(j) PROVE TagOK'
    <2>1. /\ pc = "match" /\ pc' = pc /\ cur' = cur /\ accTag' = accTag /\ orders_' = orders_ \ {j}
          /\ order' = [order EXCEPT ![j] = Recycled] /\ j \in orders_
      BY <1>13, Zenon DEF CancelResting, DeleteOrder, UnindexOrder, PreventsMatch, SelfMatch
    <2>2. \A k \in Ids \ {j} : order'[k] = order[k]
      BY <1>1, <2>1, Zenon DEF TypeOK
    <2>3. cur.id \in Ids /\ (cur.kind = "new" => cur.id # j)
      BY <1>1, <2>1, Zenon DEF KindOK, NewOK, Working
    <2> QED
      BY <1>1, <2>1, <2>2, <2>3, TagsKept, Zenon DEF Pending, Working, TypeOK
  <1>14. CASE RestNew
    <2>1. /\ pc = "rest" /\ cur.kind = "new" /\ pc' = "flush" /\ cur' = cur /\ accTag' = accTag
          /\ order' = [order EXCEPT ![cur.id].prio = nextPrio] /\ orders_' = orders_ \cup {cur.id}
      BY <1>14, Zenon DEF RestNew, AddOrder, IndexOrder
    <2>2. cur.id \in Ids
      BY <1>1, <2>1, Zenon DEF KindOK
    <2>3. order'[cur.id].tag = order[cur.id].tag /\ \A k \in Ids \ {cur.id} : order'[k] = order[k]
      BY <1>1, <1>2, <2>1, <2>2, Zenon DEF TypeOK, Order
    <2>4. \A k \in orders_' : order[k].tag = accTag[k]
      BY <2>1, Zenon DEF TagOK, Pending, Working
    <2> QED
      BY <1>1, <2>1, <2>2, <2>3, <2>4, Zenon DEF TagOK, Pending, Working, TypeOK
  <1>15. CASE DropNew
    <2>1. /\ pc = "rest" /\ cur.kind = "new" /\ pc' = "flush" /\ cur' = cur /\ accTag' = accTag
          /\ order' = [order EXCEPT ![cur.id] = Recycled] /\ orders_' = orders_
      BY <1>15, Zenon DEF DropNew, indexVars
    <2>2. cur.id \notin orders_
      BY <1>1, <2>1, Zenon DEF NewOK, Working
    <2>3. \A k \in orders_ : order'[k] = order[k]
      BY <1>1, <2>1, <2>2, Zenon DEF TypeOK
    <2> QED
      BY <2>1, <2>3, TagsKept, Zenon DEF Pending, Working
  <1>16. CASE RestModified
    <2> DEFINE prio == IF cur.requeue THEN nextPrio ELSE order[cur.id].prio
    <2>1. /\ pc = "rest" /\ pc' = "flush" /\ cur' = cur /\ accTag' = accTag
          /\ order' = [order EXCEPT ![cur.id] = IF order[cur.id].leaves = 0 THEN Recycled
                                                ELSE [order[cur.id] EXCEPT !.prio = prio]]
          /\ IF order[cur.id].leaves = 0 THEN orders_' = orders_ \ {cur.id} ELSE orders_' = orders_
      BY <1>16, Zenon DEF RestModified, UnindexOrder, indexVars
    <2> HIDE DEF prio
    <2>2. cur.id \in Ids
      BY <1>1, <2>1, Zenon DEF KindOK
    <2>3. order[cur.id].leaves # 0 => order'[cur.id].tag = order[cur.id].tag
      BY <1>1, <1>2, <2>1, <2>2, Zenon DEF TypeOK, Order
    <2>4. \A k \in Ids \ {cur.id} : order'[k] = order[k]
      BY <1>1, <2>1, Zenon DEF TypeOK
    <2>5. orders_' \subseteq orders_ /\ \A k \in orders_' : order'[k].tag = order[k].tag
      BY <1>1, <2>1, <2>3, <2>4, Zenon DEF TypeOK
    <2> QED
      BY <2>1, <2>5, TagsKept, Zenon DEF Pending, Working
  <1>17. CASE CompleteCancel
    <2>1. /\ pc = "cancel" /\ pc' = "flush" /\ cur' = cur /\ accTag' = accTag
          /\ order' = [order EXCEPT ![cur.id] = Recycled] /\ orders_' = orders_ \ {cur.id}
      BY <1>17, Zenon DEF CompleteCancel, DeleteOrder, UnindexOrder
    <2>2. \A k \in orders_' : order'[k] = order[k]
      BY <1>1, <2>1, Zenon DEF TypeOK
    <2> QED
      BY <2>1, <2>2, Zenon DEF TagOK, Pending, Working
  <1>18. CASE Flush \/ RestMarketOrder \/ EndFeed
    <2>1. /\ pc \in {"flush", "packet", "feed"} /\ pc' \in {"idle", "packet"} /\ order' = order
          /\ orders_' = orders_ /\ accTag' = accTag
      BY <1>18, Zenon DEF Flush, RestMarketOrder, EndFeed, bookVars, indexVars
    <2> QED
      BY <2>1, TagsKept, Zenon DEF Pending, Working
  <1> QED
    BY <1>3, <1>4, <1>5, <1>6, <1>7, <1>8, <1>9, <1>10, <1>11, <1>12, <1>13, <1>14, <1>15, <1>16,
       <1>17, <1>18, Zenon DEF Next, Step

-----------------------------------------------------------------------------
\* The venue's own book is not crossed, and the event in hand is one of its orders.
VenueOK ==
    /\ \A i, k \in Ids : mkt[i].qty > 0 /\ mkt[i].side = "BUY" /\ mkt[k].qty > 0 /\ mkt[k].side = "SELL"
            => mkt[i].price < mkt[k].price
    /\ \A i \in Ids : mkt[i].qty > 0 => mkt[i].price \in Prices
    /\ pc = "feed" /\ cur.kind = "market" =>
          /\ cur.qty <= mkt[cur.id].qty /\ mkt[cur.id].qty > 0
          /\ cur.side = mkt[cur.id].side /\ cur.price = mkt[cur.id].price
          /\ cur.prio = mkt[cur.id].prio

\* A phantom entry shows no more than its venue order.
Within(e, v) == /\ e.qty <= v.qty
                /\ e.side = v.side /\ e.price = v.price /\ e.prio = v.prio

\* A step that touches one order keeps the mirror within the venue if that order does.
LEMMA MirrorStep ==
    ASSUME MirrorWithinVenue, NEW i \in Ids,
           \A k \in Ids \ {i} : /\ l3'[k] = l3[k] /\ mkt'[k] = mkt[k]
                                /\ k \in orders_' <=> k \in orders_,
           i \in orders_' \/ ~(l3'[i].qty > 0) \/ Within(l3'[i], mkt'[i])
    PROVE  MirrorWithinVenue'
  BY Zenon DEF MirrorWithinVenue, Within

\* What a venue's new or changed order does to the venue's book.
LEMMA VenueStep ==
    ASSUME TypeOK, VenueOK, NEW i \in Ids, NEW e \in BookEntry,
           mkt' = [mkt EXCEPT ![i] = e],
           e.qty > 0 => e.price \in Prices /\ e.side \in Sides /\ VenueUncrossed(e.side, e.price, i),
           pc' = "feed" /\ cur'.kind = "market" =>
              /\ cur'.id = i /\ cur'.qty = e.qty /\ e.qty > 0 /\ cur'.side = e.side
              /\ cur'.price = e.price /\ cur'.prio = e.prio
    PROVE  VenueOK'
  <1>1. mkt'[i] = e /\ \A k \in Ids \ {i} : mkt'[k] = mkt[k]
    BY Zenon DEF TypeOK
  <1>2. \A k \in Ids : mkt'[k].qty > 0 => mkt'[k].price \in Prices
    BY <1>1, Zenon DEF VenueOK
  <1>3. \A k \in Ids \ {i} : mkt[k].qty > 0 /\ e.qty > 0 =>
            /\ e.side = "BUY" /\ mkt[k].side = "SELL" => e.price < mkt[k].price
            /\ e.side = "SELL" /\ mkt[k].side = "BUY" => mkt[k].price < e.price
    <2> SUFFICES ASSUME NEW k \in Ids \ {i}, mkt[k].qty > 0, e.qty > 0
                 PROVE  /\ e.side = "BUY" /\ mkt[k].side = "SELL" => e.price < mkt[k].price
                        /\ e.side = "SELL" /\ mkt[k].side = "BUY" => mkt[k].price < e.price
      BY Zenon
    <2>1. mkt[k].price \in Prices /\ e.price \in Prices
      BY Zenon DEF VenueOK
    <2>2. mkt[k].side = Opposite(e.side) => ~Reaches(e.side, e.price, mkt[k].price)
      BY Zenon DEF VenueUncrossed
    <2> QED
      BY <2>1, <2>2, BoundsAssumption DEF Opposite, Reaches, Better, Prices
  <1>4. \A a, b \in Ids : mkt'[a].qty > 0 /\ mkt'[a].side = "BUY" /\ mkt'[b].qty > 0 /\ mkt'[b].side = "SELL"
            => mkt'[a].price < mkt'[b].price
    <2> SUFFICES ASSUME NEW a \in Ids, NEW b \in Ids, mkt'[a].qty > 0, mkt'[a].side = "BUY",
                        mkt'[b].qty > 0, mkt'[b].side = "SELL"
                 PROVE  mkt'[a].price < mkt'[b].price
      BY Zenon
    <2>1. CASE a # i /\ b # i
      BY <1>1, <2>1, Zenon DEF VenueOK
    <2>2. CASE a = i /\ b # i
      BY <1>1, <1>3, <2>2, Zenon
    <2>3. CASE a # i /\ b = i
      BY <1>1, <1>3, <2>3, Zenon
    <2>4. CASE a = i /\ b = i
      BY <2>4, Zenon
    <2> QED
      BY <2>1, <2>2, <2>3, <2>4, Zenon
  <1>5. e.qty \in Nat
    BY DEF BookEntry, Absent
  <1> QED
    BY <1>1, <1>2, <1>4, <1>5 DEF VenueOK

\* A venue order leaves no other venue order in reach: the venue's book does not cross it.
LEMMA VenueSelf ==
    ASSUME TypeOK, VenueOK, NEW i \in Ids, mkt[i].qty > 0
    PROVE  mkt[i].price \in Prices /\ mkt[i].side \in Sides /\ VenueUncrossed(mkt[i].side, mkt[i].price, i)
  <1>1. mkt[i].price \in Prices /\ mkt[i].side \in Sides
    BY DEF VenueOK, TypeOK, BookEntry, Absent
  <1>2. ASSUME NEW k \in Ids \ {i}, mkt[k].qty > 0, mkt[k].side = Opposite(mkt[i].side)
        PROVE  ~Reaches(mkt[i].side, mkt[i].price, mkt[k].price)
    <2>1. mkt[k].price \in Prices
      BY <1>2, Zenon DEF VenueOK
    <2>2. IF mkt[i].side = "BUY" THEN mkt[i].price < mkt[k].price ELSE mkt[k].price < mkt[i].price
      BY <1>1, <1>2, Zenon DEF VenueOK, Sides, Opposite
    <2> QED
      BY <1>1, <2>1, <2>2, BoundsAssumption DEF Reaches, Better, Opposite, Sides, Prices, NullPrice
  <1> QED
    BY <1>1, <1>2, Zenon DEF VenueUncrossed

\* An order leaves the indices only with its entry.
LEMMA UnindexedIsGone ==
    ASSUME TypeOK, BookStill \/ Flush \/ EntryStep
    PROVE  \A k \in Ids : k \in orders_ \ orders_' => l3'[k] = Absent
  <1>1. CASE BookStill \/ Flush
    BY <1>1, Zenon DEF BookStill, Flush, indexVars
  <1>2. CASE EntryStep
    <2>1. PICK i \in Ids, new \in BookEntry :
              /\ l3' = [l3 EXCEPT ![i] = new] /\ orders_' \ {i} = orders_ \ {i}
              /\ i \in orders_ \ orders_' => new = Absent
      BY <1>2, Zenon DEF EntryStep, L3Set
    <2> QED
      BY <2>1, Zenon DEF TypeOK
  <1> QED
    BY <1>1, <1>2, Zenon

\* A fill takes from the phantom entry and from nothing else.
LEMMA FillMirror ==
    ASSUME TypeOK, TypeOK', MirrorWithinVenue, NEW j \in Ids, NEW q \in Nat, NEW own, NEW last,
           L3Execute(j, q, own, last), FillIndices(j, q), mkt' = mkt,
           \A k \in Ids : k \in orders_ \ orders_' => l3'[k] = Absent
    PROVE  MirrorWithinVenue'
  <1> DEFINE new == Entry(l3[j].side, l3[j].price, l3[j].qty - q, l3[j].prio)
  <1>1. l3' = [l3 EXCEPT ![j] = new]
    BY Zenon DEF L3Execute, L3Set
  <1>2. l3'[j] = new /\ \A k \in Ids \ {j} : l3'[k] = l3[k]
    BY <1>1, Zenon DEF TypeOK
  <1>3. orders_' = orders_ \/ orders_' = orders_ \ {j}
    BY Zenon DEF FillIndices, UnindexOrder, indexVars
  <1>4. l3[j].qty \in Nat /\ mkt[j] \in BookEntry /\ l3'[j] \in BookEntry
    BY EntryFields, Zenon DEF TypeOK
  <1>5. ASSUME j \notin orders_', l3'[j].qty > 0 PROVE Within(l3'[j], mkt'[j])
    <2>1. j \notin orders_
      BY <1>5 DEF Absent
    <2>2. /\ new = [side |-> l3[j].side, price |-> l3[j].price, qty |-> l3[j].qty - q, prio |-> l3[j].prio]
          /\ l3[j].qty - q > 0
      BY <1>2, <1>5 DEF Entry, Absent
    <2>3. Within(l3[j], mkt[j])
      BY <1>4, <2>1, <2>2 DEF MirrorWithinVenue, Within
    <2>4. mkt[j].qty \in Nat
      BY <1>4 DEF BookEntry, Absent
    <2> QED
      BY <1>2, <1>4, <2>2, <2>3, <2>4 DEF Within
  <1>6. \A k \in Ids \ {j} : l3'[k] = l3[k] /\ mkt'[k] = mkt[k] /\ (k \in orders_' <=> k \in orders_)
    BY <1>2, <1>3, Zenon
  <1> HIDE DEF new
  <1> QED
    BY <1>5, <1>6, MirrorStep, Zenon

\* The mirror stays within its venue, and the venue's book uncrossed, through every step.
LEMMA MirrorNext ==
    ASSUME Inv, Inv', VenueOK, MirrorWithinVenue, [Next]_vars PROVE VenueOK' /\ MirrorWithinVenue'
  <1>1. /\ TypeOK /\ TypeOK' /\ KindOK /\ FeedOK /\ IdsOK /\ ModifyOK
    BY Zenon DEF Inv, HandlerOK
  <1>2. \A k \in Ids : k \in orders_ \ orders_' => l3'[k] = Absent
    BY <1>1, StepEffect, UnindexedIsGone, Zenon
  <1>3. ASSUME mkt' = mkt, pc' # "feed" PROVE VenueOK'
    BY <1>3, Zenon DEF VenueOK
  <1>4. ASSUME l3' = l3, mkt' = mkt, orders_' = orders_ PROVE MirrorWithinVenue'
    BY <1>4, Zenon DEF MirrorWithinVenue
  <1>5. \A k \in Ids : mkt[k] \in BookEntry /\ mkt'[k] \in BookEntry /\ l3[k] \in BookEntry
    BY <1>1, Zenon DEF TypeOK
  <1>6. CASE Request
    <2>1. l3' = l3 /\ mkt' = mkt /\ orders_' = orders_ /\ pc' # "feed"
      BY <1>6, RequestEffect, Zenon
    <2> QED
      BY <1>3, <1>4, <2>1, Zenon
  <1>7. CASE UNCHANGED vars
    BY <1>4, <1>7, Zenon DEF vars, VenueOK
  <1>8. CASE Deciding \/ Flush \/ EndFeed
    <2>1. l3' = l3 /\ mkt' = mkt /\ orders_' = orders_ /\ pc' # "feed"
      BY <1>8, DecidingEffect, Zenon DEF Flush, EndFeed, indexVars, bookVars
    <2> QED
      BY <1>3, <1>4, <2>1, Zenon
  <1>9. ASSUME NEW j \in Ids, Fill(j) PROVE VenueOK' /\ MirrorWithinVenue'
    <2> DEFINE q == Lesser(order[cur.id].leaves, l3[j].qty)
    <2>1. q \in Nat
      BY <1>9, FillEffect, Zenon
    <2>2. /\ L3Execute(j, q, j \in orders_, order[cur.id].leaves = q) /\ FillIndices(j, q) /\ mkt' = mkt
          /\ pc' = "match"
      BY <1>9, Zenon DEF Fill
    <2> HIDE DEF q
    <2> QED
      BY <1>1, <1>2, <1>3, <2>1, <2>2, FillMirror, Zenon
  <1>10. ASSUME NEW j \in Ids, FeedFill(j) PROVE VenueOK' /\ MirrorWithinVenue'
    <2> DEFINE q == Lesser(cur.qty, l3[j].qty)
    <2>1. cur.qty \in Nat /\ l3[j].qty \in Nat /\ cur \in Handlers
      BY <1>1, EntryFields, Zenon DEF TypeOK, Handlers
    <2>2. q \in Nat /\ q <= cur.qty
      BY <2>1 DEF Lesser
    <2>3. /\ L3Execute(j, q, j \in orders_, cur.qty = q) /\ FillIndices(j, q) /\ mkt' = mkt
          /\ pc = "feed" /\ pc' = "feed" /\ cur' = [cur EXCEPT !.qty = cur.qty - q]
      BY <1>10, Zenon DEF FeedFill
    <2> HIDE DEF q
    <2>4. /\ cur'.qty = cur.qty - q /\ cur'.kind = cur.kind /\ cur'.id = cur.id /\ cur'.side = cur.side
          /\ cur'.price = cur.price /\ cur'.prio = cur.prio
      BY <2>1, <2>3, Zenon DEF Handlers
    <2>5. cur.id \in Ids /\ mkt[cur.id].qty \in Nat
      BY <1>1, <1>5, <2>3 DEF KindOK, BookEntry, Absent
    <2>6. VenueOK'
      BY <2>1, <2>2, <2>3, <2>4, <2>5 DEF VenueOK
    <2> QED
      BY <1>1, <1>2, <2>2, <2>3, <2>6, FillMirror, Zenon
  <1>11. ASSUME NEW i \in Ids, NEW new, l3' = [l3 EXCEPT ![i] = new], mkt' = mkt, pc' # "feed",
                i \in orders_' \/ new = Absent,
                \A k \in Ids \ {i} : k \in orders_' <=> k \in orders_
         PROVE  VenueOK' /\ MirrorWithinVenue'
    <2>1. l3'[i] = new /\ \A k \in Ids \ {i} : l3'[k] = l3[k]
      BY <1>1, <1>11, Zenon DEF TypeOK
    <2>2. i \in orders_' \/ ~(l3'[i].qty > 0)
      BY <1>11, <2>1 DEF Absent
    <2> QED
      BY <1>3, <1>11, <2>1, <2>2, MirrorStep, Zenon
  <1>12. ASSUME NEW j \in Ids, CancelResting(j) PROVE VenueOK' /\ MirrorWithinVenue'
    <2>1. /\ l3' = [l3 EXCEPT ![j] = Absent] /\ mkt' = mkt /\ pc' = "match" /\ orders_' = orders_ \ {j}
      BY <1>12, Zenon DEF CancelResting, DeleteOrder, L3Delete, L3Set, UnindexOrder
    <2> QED
      BY <1>11, <2>1, Zenon
  <1>13. CASE CompleteCancel
    <2>1. /\ l3' = [l3 EXCEPT ![cur.id] = Absent] /\ mkt' = mkt /\ pc' = "flush" /\ orders_' = orders_ \ {cur.id}
          /\ cur.id \in Ids
      BY <1>1, <1>13, Zenon DEF CompleteCancel, DeleteOrder, L3Delete, L3Set, UnindexOrder, KindOK
    <2> QED
      BY <1>11, <2>1, Zenon
  <1>14. CASE RestNew
    <2>1. /\ l3' = [l3 EXCEPT ![cur.id] = Entry(order[cur.id].side, order[cur.id].price, order[cur.id].leaves, nextPrio)]
          /\ mkt' = mkt /\ pc' = "flush" /\ orders_' = orders_ \cup {cur.id} /\ cur.id \in Ids
      BY <1>1, <1>14, Zenon DEF RestNew, AddOrder, L3Set, IndexOrder, KindOK
    <2> QED
      BY <1>11, <2>1, Zenon
  <1>15. CASE RestModified
    <2> DEFINE new == Entry(order[cur.id].side, order[cur.id].price, order[cur.id].leaves,
                            IF cur.requeue THEN nextPrio ELSE order[cur.id].prio)
    <2>1. /\ l3' = [l3 EXCEPT ![cur.id] = new] /\ mkt' = mkt /\ pc' = "flush" /\ cur.id \in Ids /\ cur.id \in orders_
          /\ IF order[cur.id].leaves = 0 THEN orders_' = orders_ \ {cur.id} ELSE orders_' = orders_
      BY <1>1, <1>15, Zenon DEF RestModified, L3Set, UnindexOrder, indexVars, KindOK, ModifyOK, Working
    <2>2. cur.id \in orders_' \/ new = Absent
      BY <2>1, Zenon DEF Entry
    <2>3. \A k \in Ids \ {cur.id} : k \in orders_' <=> k \in orders_
      BY <2>1, Zenon
    <2> HIDE DEF new
    <2> QED
      BY <1>11, <2>1, <2>2, <2>3, Zenon
  <1>16. CASE RestMarketOrder
    <2> DEFINE i == cur.id
    <2>1. /\ l3' = [l3 EXCEPT ![i] = Entry(cur.side, cur.price, cur.qty, cur.prio)] /\ mkt' = mkt
          /\ pc = "feed" /\ cur.kind = "market" /\ cur.qty > 0 /\ pc' = "packet" /\ orders_' = orders_ /\ i \in Ids
      BY <1>1, <1>16, Zenon DEF RestMarketOrder, L3Set, indexVars, KindOK
    <2>2. /\ l3'[i] = Entry(cur.side, cur.price, cur.qty, cur.prio) /\ \A k \in Ids \ {i} : l3'[k] = l3[k]
      BY <1>1, <2>1, Zenon DEF TypeOK
    <2>3. Within(l3'[i], mkt'[i])
      BY <2>1, <2>2 DEF VenueOK, Within, Entry
    <2> QED
      BY <1>3, <2>1, <2>2, <2>3, MirrorStep, Zenon
  <1>17. ASSUME NEW i \in Ids, NEW qty \in MarketQtys, MarketChange(i, qty) PROVE VenueOK' /\ MirrorWithinVenue'
    <2> DEFINE e == [mkt[i] EXCEPT !.qty = qty]
    <2>1. /\ mkt[i].qty > 0 /\ l3[i].qty > 0 /\ mkt' = [mkt EXCEPT ![i] = e] /\ pc' = "packet"
          /\ l3' = [l3 EXCEPT ![i] = [l3[i] EXCEPT !.qty = qty]] /\ orders_' = orders_
      BY <1>17, Zenon DEF MarketChange, L3Set, indexVars
    <2>2. /\ mkt'[i] = e /\ \A k \in Ids \ {i} : mkt'[k] = mkt[k]
          /\ l3'[i] = [l3[i] EXCEPT !.qty = qty] /\ \A k \in Ids \ {i} : l3'[k] = l3[k]
      BY <1>1, <2>1, Zenon DEF TypeOK
    <2>3. /\ e.side = mkt[i].side /\ e.price = mkt[i].price /\ e.qty = qty /\ e.prio = mkt[i].prio /\ e \in BookEntry
          /\ qty \in Nat \ {0}
      BY <1>5, <2>1, InputsAssumption DEF BookEntry, Absent
    <2>4. VenueOK'
      BY <1>1, <2>1, <2>3, VenueStep, VenueSelf, Zenon
    <2>5. i \notin orders_
      BY <1>17, VenueOrder, Zenon DEF MarketChange
    <2>6. Within(l3[i], mkt[i])
      BY <2>1, <2>5, Zenon DEF MirrorWithinVenue, Within
    <2>7. Within(l3'[i], mkt'[i])
      BY <1>5, <2>1, <2>2, <2>3, <2>6 DEF Within, BookEntry, Absent
    <2> QED
      BY <2>1, <2>2, <2>4, <2>7, MirrorStep, Zenon
  <1>18. ASSUME NEW i \in Ids, NEW e \in BookEntry, e.qty > 0, Aggress(i, e), e.price \in Prices, e.side \in Sides,
                VenueUncrossed(e.side, e.price, i)
         PROVE  VenueOK' /\ mkt'[i] = e /\ \A k \in Ids \ {i} : mkt'[k] = mkt[k]
    <2>1. /\ mkt' = [mkt EXCEPT ![i] = e] /\ pc' = "feed"
          /\ cur' = [NoHandler EXCEPT !.kind = "market", !.id = i, !.side = e.side,
                                !.price = e.price, !.qty = e.qty, !.prio = e.prio]
      BY <1>18, Zenon DEF Aggress
    <2>2. /\ cur'.id = i /\ cur'.qty = e.qty /\ cur'.side = e.side /\ cur'.price = e.price /\ cur'.prio = e.prio
      BY <2>1, Zenon DEF NoHandler
    <2>3. VenueOK'
      BY <1>1, <1>18, <2>1, <2>2, VenueStep, Zenon
    <2> QED
      BY <1>1, <2>1, <2>3, Zenon DEF TypeOK
  <1>19. ASSUME NEW side \in Sides, NEW price \in Prices, NEW qty \in MarketQtys, MarketNew(side, price, qty)
         PROVE  VenueOK' /\ MirrorWithinVenue'
    <2> DEFINE e == Entry(side, price, qty, nextPrio)
    <2>1. /\ Aggress(nextId, e) /\ nextId <= MaxId /\ VenueUncrossed(side, price, NoId)
          /\ l3' = l3 /\ orders_' = orders_
      BY <1>19, Zenon DEF MarketNew, l3Vars, indexVars
    <2>2. nextId \in Ids /\ l3[nextId] = Absent /\ nextPrio \in Nat
      BY <1>1, <2>1, BoundsAssumption DEF TypeOK, Ids, IdsOK
    <2>3. e.qty = qty /\ e.qty > 0 /\ e.side = side /\ e.price = price /\ e \in BookEntry
      BY <2>2, InputsAssumption DEF Entry, BookEntry, AllPrices
    <2>4. VenueUncrossed(side, price, nextId)
      BY <2>1 DEF VenueUncrossed, NoId, Ids
    <2> HIDE DEF e
    <2>5. VenueOK' /\ mkt'[nextId] = e /\ \A k \in Ids \ {nextId} : mkt'[k] = mkt[k]
      BY <1>18, <2>1, <2>2, <2>3, <2>4, Zenon
    <2>6. ~(l3'[nextId].qty > 0)
      BY <2>1, <2>2 DEF Absent
    <2> QED
      BY <2>1, <2>2, <2>5, <2>6, MirrorStep, Zenon
  <1>20. ASSUME NEW i \in Ids, NEW qty \in MarketQtys, MarketRestore(i, qty) PROVE VenueOK' /\ MirrorWithinVenue'
    <2> DEFINE e == [mkt[i] EXCEPT !.qty = qty]
    <2>1. Aggress(i, e) /\ mkt[i].qty > 0 /\ l3[i].qty = 0 /\ l3' = l3 /\ orders_' = orders_
      BY <1>20, Zenon DEF MarketRestore, bookVars
    <2>2. e.side = mkt[i].side /\ e.price = mkt[i].price /\ e.qty = qty /\ qty > 0 /\ e \in BookEntry
      BY <1>5, <2>1, InputsAssumption DEF BookEntry, Absent
    <2>3. e.price \in Prices /\ e.side \in Sides /\ VenueUncrossed(e.side, e.price, i)
      BY <1>1, <2>1, <2>2, VenueSelf, Zenon
    <2> HIDE DEF e
    <2>4. VenueOK' /\ \A k \in Ids \ {i} : mkt'[k] = mkt[k]
      BY <1>18, <2>1, <2>2, <2>3, Zenon
    <2>5. ~(l3'[i].qty > 0)
      BY <2>1
    <2> QED
      BY <2>1, <2>4, <2>5, MirrorStep, Zenon
  <1>21. ASSUME NEW i \in Ids, NEW price \in Prices, NEW qty \in MarketQtys, MarketRequeue(i, price, qty)
         PROVE  VenueOK' /\ MirrorWithinVenue'
    <2> DEFINE e == Entry(mkt[i].side, price, qty, nextPrio)
    <2>1. /\ Aggress(i, e) /\ mkt[i].qty > 0 /\ l3' = [l3 EXCEPT ![i] = Absent] /\ orders_' = orders_
          /\ VenueUncrossed(mkt[i].side, price, i)
      BY <1>21, Zenon DEF MarketRequeue, L3Delete, L3Set, indexVars
    <2>2. mkt[i].side \in Sides /\ nextPrio \in Nat
      BY <1>1, <2>1, VenueOrder, Zenon DEF TypeOK
    <2>3. e.qty = qty /\ e.qty > 0 /\ e.side = mkt[i].side /\ e.price = price /\ e \in BookEntry
      BY <2>2, InputsAssumption DEF Entry, BookEntry, AllPrices
    <2> HIDE DEF e
    <2>4. VenueOK' /\ \A k \in Ids \ {i} : mkt'[k] = mkt[k]
      BY <1>18, <2>1, <2>2, <2>3, Zenon
    <2>5. l3'[i] = Absent /\ \A k \in Ids \ {i} : l3'[k] = l3[k]
      BY <1>1, <2>1, Zenon DEF TypeOK
    <2>6. ~(l3'[i].qty > 0)
      BY <2>5 DEF Absent
    <2> QED
      BY <2>1, <2>4, <2>5, <2>6, MirrorStep, Zenon
  <1>22. ASSUME NEW i \in Ids, MarketDelete(i) PROVE VenueOK' /\ MirrorWithinVenue'
    <2>1. /\ mkt' = [mkt EXCEPT ![i] = Absent] /\ l3' = [l3 EXCEPT ![i] = Absent] /\ orders_' = orders_ /\ pc' = "packet"
      BY <1>22, Zenon DEF MarketDelete, L3Delete, L3Set, indexVars
    <2>2. /\ l3'[i] = Absent /\ \A k \in Ids \ {i} : l3'[k] = l3[k] /\ mkt'[k] = mkt[k]
      BY <1>1, <2>1, Zenon DEF TypeOK
    <2>3. ~(l3'[i].qty > 0) /\ ~(Absent.qty > 0) /\ Absent \in BookEntry
      BY <2>2 DEF Absent, BookEntry
    <2>4. VenueOK'
      BY <1>1, <2>1, <2>3, VenueStep, Zenon
    <2> QED
      BY <2>1, <2>2, <2>3, <2>4, MirrorStep, Zenon
  <1>23. ASSUME NEW side, NEW price, NEW qty, MarketTrade(side, price, qty) PROVE VenueOK' /\ MirrorWithinVenue'
    <2>1. /\ l3' = l3 /\ mkt' = mkt /\ orders_' = orders_ /\ cur'.kind = "replay"
      BY <1>23, Zenon DEF MarketTrade, l3Vars, indexVars, NoHandler
    <2> QED
      BY <1>4, <2>1, Zenon DEF VenueOK
  <1> QED
    BY <1>6, <1>7, <1>8, <1>9, <1>10, <1>12, <1>13, <1>14, <1>15, <1>16, <1>17, <1>19, <1>20, <1>21,
       <1>22, <1>23, Zenon DEF Next, Step, MarketEvent, Deciding

\* A venue's order trades with clients only.
LEMMA VenueTrades == Inv /\ VenueOK /\ MirrorWithinVenue => MarketOrdersFillClients
  <1> SUFFICES ASSUME Inv, VenueOK, MirrorWithinVenue, pc = "feed", cur.kind = "market", cur.qty > 0,
                      NEW j \in Ids, Hit(cur.side, cur.price, j), j \notin orders_
               PROVE  FALSE
    BY Zenon DEF MarketOrdersFillClients
  <1>1. TypeOK /\ cur.id \in Ids
    BY Zenon DEF Inv, HandlerOK, KindOK
  <1>2. /\ l3[j].qty > 0 /\ l3[j].side = Opposite(cur.side) /\ Reaches(cur.side, cur.price, l3[j].price)
    BY Zenon DEF Hit, IsFront, Resting
  <1>3. /\ mkt[cur.id].qty > 0 /\ cur.side = mkt[cur.id].side /\ cur.price = mkt[cur.id].price
    BY Zenon DEF VenueOK
  <1>4. /\ l3[j].qty <= mkt[j].qty /\ l3[j].side = mkt[j].side /\ l3[j].price = mkt[j].price
    BY <1>2, Zenon DEF MirrorWithinVenue
  <1>5. l3[j].qty \in Nat /\ mkt[j].qty \in Nat
    BY <1>1 DEF TypeOK, BookEntry, Absent
  <1>6. mkt[j].qty > 0 /\ j # cur.id
    BY <1>1, <1>2, <1>3, <1>4, <1>5, VenueSelf DEF Opposite, Sides
  <1> QED
    BY <1>1, <1>2, <1>3, <1>4, <1>6, VenueSelf, Zenon DEF VenueUncrossed
=============================================================================
