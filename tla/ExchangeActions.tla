-------------------------- MODULE ExchangeActions ---------------------------
(***************************************************************************)
(* Every action of the exchange keeps the invariant of module              *)
(* ExchangeInvariant: fills, the cancels that take an order off the book and *)
(* the venue's events, and then the client request handlers, what they check, *)
(* reject, acknowledge, drop and amend, and what they rest when the engine is *)
(* done.                                                                   *)
(***************************************************************************)
EXTENDS ExchangeInvariant

\* The resting side of a fill, whoever the aggressor is: the order, its entry, its
\* indices and its record in the pool move together.
LEMMA RestingSide ==
    ASSUME Inv, NEW j \in Ids, l3[j].qty > 0, NEW qty \in Nat \ {0}, qty <= l3[j].qty,
           ~(cur.kind = "modify" /\ cur.id = j), NEW last \in BOOLEAN,
           L3Execute(j, qty, j \in orders_, last), FillIndices(j, qty),
           order'[j] = RestingAfter(j, qty),
           \A k \in orders_ \ {j} : order'[k].cl = order[k].cl
    PROVE  /\ l3' \in [Ids -> BookEntry]
           /\ DOMAIN mdQty' \subseteq AllPrices /\ \A p \in DOMAIN mdQty' : mdQty'[p] \in Int
           /\ dirty' \subseteq Levels /\ lastEnd' \in BOOLEAN
           /\ \A k \in Ids \ {j} : l3'[k] = l3[k]
           /\ order'[j] \in Order
           /\ orders_' \subseteq Ids /\ byOrderId' \subseteq Ids
           /\ byClOrdId' \in [ClOrdIds -> Ids \cup {NoId}]
           /\ \A c \in ClOrdIds : byClOrdId[c] = NoId => byClOrdId'[c] = NoId
           /\ \A k \in Ids \ {j} : k \in orders_' <=> k \in orders_
           /\ j \in orders_' =>
                /\ j \in orders_ /\ order'[j].tif = order[j].tif
                /\ l3'[j].side = order'[j].side /\ l3'[j].price = order'[j].price
                /\ l3'[j].qty = order'[j].leaves /\ l3'[j].prio = order'[j].prio
                /\ order'[j].leaves > 0
                /\ order'[j].leaves + order'[j].cum = order'[j].quantity
           /\ pool' \in [Ids -> Int] /\ \A k \in Ids \ {j} : pool'[k] = pool[k]
           /\ pool'[j] = IF j \in orders_ /\ j \notin orders_' THEN pool[j] - 1 ELSE pool[j]
           /\ IndicesInLockstep' /\ Uncrossed'
  <1>1. /\ TypeOK /\ BookAgreesWithOrders /\ IndicesInLockstep /\ Uncrossed
        /\ order[j] \in Order /\ pool \in [Ids -> Int] /\ l3[j].qty \in Nat
    <2>1. TypeOK /\ BookAgreesWithOrders /\ IndicesInLockstep /\ Uncrossed
      BY Zenon DEF Inv
    <2>2. order[j] \in Order /\ pool \in [Ids -> Int]
      BY <2>1, Zenon DEF TypeOK
    <2> QED
      BY <2>1, <2>2, EntryFields, Zenon
  <1>2. j \in orders_ => /\ l3[j].qty = order[j].leaves /\ l3[j].side = order[j].side
                         /\ l3[j].price = order[j].price /\ l3[j].prio = order[j].prio
                         /\ order[j].leaves + order[j].cum = order[j].quantity
    BY <1>1, OwnAgrees, Zenon
  <1> DEFINE new == Entry(l3[j].side, l3[j].price, l3[j].qty - qty, l3[j].prio)
  <1>3. new \in BookEntry
    BY <1>1, EntryFields, EntryType
  <1>4. /\ new.qty = l3[j].qty - qty
        /\ new.qty > 0 => /\ new.side = l3[j].side /\ new.price = l3[j].price
                          /\ new.prio = l3[j].prio
    BY <1>1 DEF Entry, Absent
  <1>5. L3Set(j, new, j \in orders_, last)
    BY Zenon DEF L3Execute
  <1> HIDE DEF new
  <1>6. /\ l3' \in [Ids -> BookEntry]
        /\ DOMAIN mdQty' \subseteq AllPrices /\ \A p \in DOMAIN mdQty' : mdQty'[p] \in Int
        /\ dirty' \subseteq Levels /\ lastEnd' \in BOOLEAN
    BY <1>1, <1>3, <1>5, L3SetTypes, Zenon
  <1>7. l3'[j] = new /\ \A k \in Ids \ {j} : l3'[k] = l3[k]
    BY <1>1, <1>5, Zenon DEF L3Set, TypeOK
  <1>8. Uncrossed'
    BY <1>1, <1>4, <1>7, ShrinkUncrossed, Zenon
  <1>9. CASE j \in orders_ /\ order[j].leaves = qty
    <2>1. UnindexOrder(j) /\ pool' = [pool EXCEPT ![j] = @ - 1] /\ order'[j] = Recycled
      BY <1>9, Zenon DEF FillIndices, FreeOrder, RestingAfter
    <2>2. /\ IndicesInLockstep'
          /\ orders_' = orders_ \ {j} /\ orders_' \subseteq Ids /\ byOrderId' \subseteq Ids
          /\ byClOrdId' \in [ClOrdIds -> Ids \cup {NoId}]
          /\ \A c \in ClOrdIds : byClOrdId[c] = NoId => byClOrdId'[c] = NoId
      BY <1>1, <1>9, <2>1, UnindexLockstep, Zenon
    <2>3. /\ pool' \in [Ids -> Int] /\ pool'[j] = pool[j] - 1
          /\ \A k \in Ids \ {j} : pool'[k] = pool[k]
      BY <1>1, <2>1, SMTT(30)
    <2> QED
      BY <1>6, <1>7, <1>8, <1>9, <2>1, <2>2, <2>3, ConstantTypes, Zenon
  <1>10. CASE j \in orders_ /\ order[j].leaves # qty
    <2>1. /\ orders_' = orders_ /\ byClOrdId' = byClOrdId /\ byOrderId' = byOrderId
          /\ pool' = pool /\ order'[j] = Filled(order[j], qty)
      BY <1>10, Zenon DEF FillIndices, RestingAfter, indexVars
    <2>2. /\ order'[j] \in Order /\ order'[j].cl = order[j].cl /\ order'[j].tif = order[j].tif
          /\ order'[j].leaves = order[j].leaves - qty /\ order'[j].cum = order[j].cum + qty
          /\ order'[j].side = order[j].side /\ order'[j].price = order[j].price
          /\ order'[j].quantity = order[j].quantity /\ order'[j].prio = order[j].prio
      BY <1>1, <1>2, <1>10, <2>1, FilledFields
    <2>3. IndicesInLockstep'
      BY <1>1, <2>1, <2>2, SameLockstep, Zenon
    <2>4. /\ orders_' \subseteq Ids /\ byOrderId' \subseteq Ids
          /\ byClOrdId' \in [ClOrdIds -> Ids \cup {NoId}]
      BY <1>1, <2>1, Zenon DEF TypeOK
    <2>5. order'[j].leaves > 0 /\ order'[j].leaves + order'[j].cum = order'[j].quantity
      BY <1>1, <1>2, <1>10, <2>2, SMTT(30) DEF Order
    <2>6. /\ l3'[j].side = order'[j].side /\ l3'[j].price = order'[j].price
          /\ l3'[j].qty = order'[j].leaves /\ l3'[j].prio = order'[j].prio
      BY <1>1, <1>2, <1>4, <1>7, <1>10, <2>2, <2>5, Zenon
    <2> QED
      BY <1>1, <1>6, <1>7, <1>8, <1>10, <2>1, <2>2, <2>3, <2>4, <2>5, <2>6, Zenon
  <1>11. CASE j \notin orders_
    <2>1. /\ orders_' = orders_ /\ byClOrdId' = byClOrdId /\ byOrderId' = byOrderId
          /\ pool' = pool /\ order'[j] = order[j]
      BY <1>11, Zenon DEF FillIndices, RestingAfter, indexVars
    <2>2. IndicesInLockstep'
      BY <1>1, <1>11, <2>1, SameLockstep, Zenon
    <2>3. /\ orders_' \subseteq Ids /\ byOrderId' \subseteq Ids
          /\ byClOrdId' \in [ClOrdIds -> Ids \cup {NoId}]
      BY <1>1, <2>1, Zenon DEF TypeOK
    <2> QED
      BY <1>1, <1>6, <1>7, <1>8, <1>11, <2>1, <2>2, <2>3, Zenon
  <1> QED
    BY <1>9, <1>10, <1>11, Zenon

\* fillResting preserves the invariant: the aggressor's accounting and the resting
\* side's move by the same quantity.
LEMMA FillInv == ASSUME Inv, NEW j \in Ids, Fill(j) PROVE Inv'
  <1> DEFINE a == cur.id
             qty == Lesser(order[a].leaves, l3[j].qty)
  <1>1. /\ TypeOK /\ BookAgreesWithOrders /\ IndicesInLockstep /\ ReturnedOnce
        /\ KindOK /\ NewOK /\ ModifyOK /\ RestOK /\ FeedOK /\ IdsOK
    BY Zenon DEF Inv, HandlerOK
  <1>2. /\ l3[j].qty > 0 /\ l3[j].side = Opposite(order[a].side)
        /\ order[a].leaves > 0 /\ pc = "match"
    BY Zenon DEF Fill, Hit, IsFront, Resting
  <1>3. /\ a \in Ids /\ order[a] \in Order /\ order[j] \in Order /\ l3[j].qty \in Nat
        /\ order[a].leaves \in Nat /\ order[a].cum \in Nat
    <2>1. a \in Ids /\ order[a] \in Order /\ order[j] \in Order
      BY <1>1, <1>2, Zenon DEF KindOK, TypeOK
    <2> QED
      BY <2>1, <1>1, EntryFields, Zenon DEF Order
  <1>4. j # a
    BY <1>1, <1>2, <1>3 DEF NewOK, ModifyOK, KindOK, Working, Absent, Opposite, Order, Sides
  <1>5. qty \in Nat \ {0} /\ qty <= order[a].leaves /\ qty <= l3[j].qty
    BY <1>2, <1>3 DEF Lesser
  <1>6. /\ L3Execute(j, qty, j \in orders_, order[a].leaves = qty) /\ FillIndices(j, qty)
        /\ order' = [order EXCEPT ![a] = Filled(@, qty), ![j] = RestingAfter(j, qty)]
        /\ pc' = pc /\ cur' = cur /\ nextId' = nextId /\ nextPrio' = nextPrio /\ mkt' = mkt
        /\ smp' = smp /\ accTag' = accTag /\ pub' = pub
    BY Zenon DEF Fill
  <1>7. IF j \in orders_ THEN TellBoth(Execution(a, Filled(order[a], qty)),
                                       Execution(j, Filled(order[j], qty)))
                         ELSE Tell(Execution(a, Filled(order[a], qty)))
    BY Zenon DEF Fill
  <1> HIDE DEF qty
  <1>8. /\ order'[a] = Filled(order[a], qty) /\ order'[j] = RestingAfter(j, qty)
        /\ \A k \in Ids \ {a, j} : order'[k] = order[k]
    BY <1>1, <1>3, <1>4, <1>6, Zenon DEF TypeOK
  <1>9. /\ order'[a] \in Order
        /\ order'[a].leaves = order[a].leaves - qty /\ order'[a].cum = order[a].cum + qty
        /\ order'[a].side = order[a].side /\ order'[a].price = order[a].price
        /\ order'[a].quantity = order[a].quantity /\ order'[a].cl = order[a].cl
        /\ order'[a].tif = order[a].tif
    BY <1>3, <1>5, <1>8, FilledFields, SMTT(30)
  <1>10. \A k \in orders_ \ {j} : order'[k].cl = order[k].cl
    BY <1>1, <1>8, <1>9, Zenon DEF TypeOK
  <1>11. /\ l3' \in [Ids -> BookEntry]
         /\ DOMAIN mdQty' \subseteq AllPrices /\ \A p \in DOMAIN mdQty' : mdQty'[p] \in Int
         /\ dirty' \subseteq Levels /\ lastEnd' \in BOOLEAN
         /\ \A k \in Ids \ {j} : l3'[k] = l3[k]
         /\ order'[j] \in Order
         /\ orders_' \subseteq Ids /\ byOrderId' \subseteq Ids
         /\ byClOrdId' \in [ClOrdIds -> Ids \cup {NoId}]
         /\ \A c \in ClOrdIds : byClOrdId[c] = NoId => byClOrdId'[c] = NoId
         /\ \A k \in Ids \ {j} : k \in orders_' <=> k \in orders_
         /\ j \in orders_' =>
              /\ j \in orders_ /\ order'[j].tif = order[j].tif
              /\ l3'[j].side = order'[j].side /\ l3'[j].price = order'[j].price
              /\ l3'[j].qty = order'[j].leaves /\ l3'[j].prio = order'[j].prio
              /\ order'[j].leaves > 0
              /\ order'[j].leaves + order'[j].cum = order'[j].quantity
         /\ pool' \in [Ids -> Int] /\ \A k \in Ids \ {j} : pool'[k] = pool[k]
         /\ pool'[j] = IF j \in orders_ /\ j \notin orders_' THEN pool[j] - 1 ELSE pool[j]
         /\ IndicesInLockstep' /\ Uncrossed'
    BY <1>2, <1>4, <1>5, <1>6, <1>8, <1>10, RestingSide, Zenon
  <1>12. TypeOK'
    <2>1. order' \in [Ids -> Order]
      BY <1>1, <1>6, <1>8, <1>9, <1>11, Zenon DEF TypeOK
    <2>2. Filled(order[a], qty) \in Order
      BY <1>8, <1>9, Zenon
    <2>3. j \in orders_ => Filled(order[j], qty) \in Order
      BY <1>1, <1>3, <1>4, <1>5, FilledFields, Zenon DEF BookAgreesWithOrders
    <2>4. emit' \subseteq Reports /\ told' \in Beliefs
      BY <1>1, <1>3, <1>7, <2>2, <2>3, ReportTypes, TellTypes, Zenon
    <2> QED
      BY <1>1, <1>6, <1>11, <2>1, <2>4, Zenon DEF TypeOK, Beliefs
  <1>13. BookAgreesWithOrders'
    <2> SUFFICES ASSUME NEW k \in orders_',
                        ~(cur.kind = "modify" /\ a = k /\ pc \in {"zero", "match", "rest"})
                 PROVE  /\ l3'[k].side = order'[k].side /\ l3'[k].price = order'[k].price
                        /\ l3'[k].qty = order'[k].leaves /\ l3'[k].prio = order'[k].prio
                        /\ order'[k].leaves > 0
                        /\ order'[k].leaves + order'[k].cum = order'[k].quantity
      BY <1>6, Zenon DEF BookAgreesWithOrders
    <2>1. CASE k = j
      BY <1>11, <2>1, Zenon
    <2>2. CASE k # j
      <3>1. k \in orders_ /\ k \in Ids /\ k # a
        BY <1>1, <1>2, <1>11, <2>2, Zenon DEF NewOK, KindOK, Working, TypeOK
      <3> QED
        BY <1>1, <1>8, <1>11, <2>2, <3>1, SMTT(30) DEF BookAgreesWithOrders
    <2> QED
      BY <2>1, <2>2, Zenon
  <1>14. ReturnedOnce'
    <2> SUFFICES ASSUME NEW k \in Ids
                 PROVE  pool'[k] = IF k \in orders_' \/ (a = k /\ cur.kind = "new" /\ pc # "flush")
                                   THEN 1 ELSE 0
      BY <1>6, Zenon DEF ReturnedOnce
    <2>1. pool[k] = IF k \in orders_ \/ (a = k /\ cur.kind = "new" /\ pc # "flush")
                    THEN 1 ELSE 0
      BY <1>1, Zenon DEF ReturnedOnce
    <2>2. CASE k = j
      <3>1. /\ pool'[j] = IF j \in orders_ /\ j \notin orders_' THEN pool[j] - 1 ELSE pool[j]
            /\ j \in orders_' => j \in orders_
        BY <1>11, Zenon
      <3> QED
        BY <1>4, <2>1, <2>2, <3>1
    <2>3. CASE k # j
      <3>1. pool'[k] = pool[k] /\ (k \in orders_' <=> k \in orders_)
        BY <1>11, <2>3, Zenon
      <3> QED
        BY <2>1, <3>1, Zenon
    <2> QED
      BY <2>2, <2>3, Zenon
  <1>15. KindOK' /\ RestOK' /\ FeedOK'
    BY <1>1, <1>2, <1>6, Zenon DEF KindOK, RestOK, FeedOK, Working
  <1>16. (a \in orders_' <=> a \in orders_) /\ l3'[a] = l3[a]
    BY <1>3, <1>4, <1>11, Zenon
  <1>17. order'[a].leaves + order'[a].cum = order[a].leaves + order[a].cum
    BY <1>3, <1>5, <1>9
  <1>18. NewOK'
    <2> SUFFICES ASSUME Working, cur.kind = "new"
                 PROVE  /\ a \notin orders_' /\ l3'[a] = Absent /\ mkt[a] = Absent
                        /\ order'[a].side = cur.side /\ order'[a].price = cur.price
                        /\ order'[a].leaves + order'[a].cum = order'[a].quantity
                        /\ order'[a].cl # NoClOrdId => byClOrdId'[order'[a].cl] = NoId
      BY <1>6, Zenon DEF NewOK, Working
    <2>1. /\ a \notin orders_ /\ l3[a] = Absent /\ mkt[a] = Absent
          /\ order[a].side = cur.side /\ order[a].price = cur.price
          /\ order[a].leaves + order[a].cum = order[a].quantity
          /\ order[a].cl # NoClOrdId => byClOrdId[order[a].cl] = NoId
      BY <1>1, Zenon DEF NewOK
    <2>2. order[a].cl \in ClOrdIds \cup {NoClOrdId}
      BY <1>3, Zenon DEF Order
    <2>3. order[a].cl # NoClOrdId => byClOrdId'[order[a].cl] = NoId
      BY <1>11, <2>1, <2>2, Zenon
    <2> QED
      BY <1>9, <1>16, <1>17, <2>1, <2>3, Zenon
  <1>19. ModifyOK'
    <2> SUFFICES ASSUME cur.kind = "modify"
                 PROVE  /\ a \in orders_' /\ l3'[a].qty > 0 /\ l3'[a].side = order'[a].side
                        /\ order'[a].side = cur.side /\ order'[a].price = cur.price
                        /\ order'[a].leaves > 0 =>
                              order'[a].leaves + order'[a].cum = order'[a].quantity
      BY <1>2, <1>6, Zenon DEF ModifyOK, Working, Amended
    <2>1. /\ a \in orders_ /\ l3[a].qty > 0 /\ l3[a].side = order[a].side
          /\ order[a].side = cur.side /\ order[a].price = cur.price
          /\ order[a].leaves + order[a].cum = order[a].quantity
      BY <1>1, <1>2, Zenon DEF ModifyOK, Working, Amended
    <2> QED
      BY <1>9, <1>16, <1>17, <2>1, Zenon
  <1>20. IdsOK'
    <2> SUFFICES ASSUME NEW k \in Ids
                 PROVE  /\ k >= nextId => k \notin orders_' /\ l3'[k] = Absent /\ mkt[k] = Absent
                        /\ mkt[k] # Absent => k \notin orders_'
                        /\ k \in orders_' => order'[k].tif = "GTC"
      BY <1>6, Zenon DEF IdsOK
    <2>1. /\ k >= nextId => k \notin orders_ /\ l3[k] = Absent /\ mkt[k] = Absent
          /\ mkt[k] # Absent => k \notin orders_
          /\ k \in orders_ => order[k].tif = "GTC"
      BY <1>1, Zenon DEF IdsOK
    <2>2. CASE k = j
      BY <1>2, <1>11, <2>1, <2>2, SMTT(30) DEF Absent
    <2>3. CASE k # j
      BY <1>8, <1>9, <1>11, <2>1, <2>3, Zenon
    <2> QED
      BY <2>2, <2>3, Zenon
  <1> QED
    BY <1>11, <1>12, <1>13, <1>14, <1>15, <1>18, <1>19, <1>20, Zenon DEF Inv, HandlerOK

\* fillRestingFromFeed preserves the invariant: it is the resting side alone.
LEMMA FeedFillInv == ASSUME Inv, NEW j \in Ids, FeedFill(j) PROVE Inv'
  <1> DEFINE qty == Lesser(cur.qty, l3[j].qty)
  <1>1. /\ TypeOK /\ BookAgreesWithOrders /\ IndicesInLockstep /\ ReturnedOnce
        /\ KindOK /\ NewOK /\ ModifyOK /\ RestOK /\ FeedOK /\ IdsOK
    BY Zenon DEF Inv, HandlerOK
  <1>2. l3[j].qty > 0 /\ cur.qty > 0 /\ pc = "feed"
    BY Zenon DEF FeedFill, Hit, IsFront, Resting
  <1>3. /\ order[j] \in Order /\ l3[j].qty \in Nat /\ cur \in Handlers /\ cur.qty \in Nat
        /\ cur.kind \in {"market", "replay"}
    <2>1. order[j] \in Order /\ cur \in Handlers /\ cur.kind \in {"market", "replay"}
      BY <1>1, <1>2, Zenon DEF TypeOK, KindOK
    <2> QED
      BY <2>1, <1>1, EntryFields, Zenon DEF Handlers
  <1>4. qty \in Nat \ {0} /\ qty <= cur.qty /\ qty <= l3[j].qty
    BY <1>2, <1>3 DEF Lesser
  <1>5. /\ L3Execute(j, qty, j \in orders_, cur.qty = qty) /\ FillIndices(j, qty)
        /\ order' = [order EXCEPT ![j] = RestingAfter(j, qty)]
        /\ cur' = [cur EXCEPT !.qty = @ - qty]
        /\ pc' = pc /\ nextId' = nextId /\ nextPrio' = nextPrio /\ mkt' = mkt
        /\ smp' = smp /\ accTag' = accTag /\ pub' = pub
    BY Zenon DEF FeedFill
  <1>6. IF j \in orders_ THEN Tell(Execution(j, Filled(order[j], qty))) ELSE Silent
    BY Zenon DEF FeedFill
  <1> HIDE DEF qty
  <1>7. order'[j] = RestingAfter(j, qty) /\ \A k \in Ids \ {j} : order'[k] = order[k]
    BY <1>1, <1>5, Zenon DEF TypeOK
  <1>8. \A k \in orders_ \ {j} : order'[k].cl = order[k].cl
    BY <1>1, <1>7, Zenon DEF TypeOK
  <1>9. cur' \in Handlers /\ cur'.kind = cur.kind /\ cur'.id = cur.id
    <2> DEFINE rest == cur.qty - qty
    <2>1. rest \in Nat /\ cur' = [cur EXCEPT !.qty = rest]
      BY <1>3, <1>4, <1>5
    <2> HIDE DEF rest
    <2> QED
      BY <1>3, <2>1, Zenon DEF Handlers
  <1>10. /\ l3' \in [Ids -> BookEntry]
         /\ DOMAIN mdQty' \subseteq AllPrices /\ \A p \in DOMAIN mdQty' : mdQty'[p] \in Int
         /\ dirty' \subseteq Levels /\ lastEnd' \in BOOLEAN
         /\ \A k \in Ids \ {j} : l3'[k] = l3[k]
         /\ order'[j] \in Order
         /\ orders_' \subseteq Ids /\ byOrderId' \subseteq Ids
         /\ byClOrdId' \in [ClOrdIds -> Ids \cup {NoId}]
         /\ \A k \in Ids \ {j} : k \in orders_' <=> k \in orders_
         /\ j \in orders_' =>
              /\ j \in orders_ /\ order'[j].tif = order[j].tif
              /\ l3'[j].side = order'[j].side /\ l3'[j].price = order'[j].price
              /\ l3'[j].qty = order'[j].leaves /\ l3'[j].prio = order'[j].prio
              /\ order'[j].leaves > 0
              /\ order'[j].leaves + order'[j].cum = order'[j].quantity
         /\ pool' \in [Ids -> Int] /\ \A k \in Ids \ {j} : pool'[k] = pool[k]
         /\ pool'[j] = IF j \in orders_ /\ j \notin orders_' THEN pool[j] - 1 ELSE pool[j]
         /\ IndicesInLockstep' /\ Uncrossed'
    BY <1>2, <1>3, <1>4, <1>5, <1>7, <1>8, RestingSide, Zenon
  <1>11. TypeOK'
    <2>1. order' \in [Ids -> Order]
      BY <1>1, <1>5, <1>7, <1>10, Zenon DEF TypeOK
    <2>2. j \in orders_ => Filled(order[j], qty) \in Order
      BY <1>1, <1>3, <1>4, OwnAgrees, FilledFields, Zenon
    <2>3. emit' \subseteq Reports /\ told' \in Beliefs
      BY <1>1, <1>6, <2>2, ReportTypes, TellTypes, Zenon
    <2> QED
      BY <1>1, <1>5, <1>9, <1>10, <2>1, <2>3, Zenon DEF TypeOK, Beliefs
  <1>12. BookAgreesWithOrders'
    <2> SUFFICES ASSUME NEW k \in orders_'
                 PROVE  /\ l3'[k].side = order'[k].side /\ l3'[k].price = order'[k].price
                        /\ l3'[k].qty = order'[k].leaves /\ l3'[k].prio = order'[k].prio
                        /\ order'[k].leaves > 0
                        /\ order'[k].leaves + order'[k].cum = order'[k].quantity
      BY Zenon DEF BookAgreesWithOrders
    <2>1. CASE k = j
      BY <1>10, <2>1, Zenon
    <2>2. CASE k # j
      <3>1. k \in orders_ /\ k \in Ids
        BY <1>10, <2>2, Zenon
      <3> QED
        BY <1>1, <1>3, <1>7, <1>10, <2>2, <3>1, OwnAgrees, ZenonT(30)
    <2> QED
      BY <2>1, <2>2, Zenon
  <1>13. ReturnedOnce'
    BY <1>1, <1>3, <1>5, <1>9, <1>10 DEF ReturnedOnce, TypeOK
  <1>14. KindOK' /\ NewOK' /\ ModifyOK' /\ RestOK'
    BY <1>1, <1>2, <1>5, <1>9, Zenon DEF KindOK, NewOK, ModifyOK, RestOK, Working, Amended
  <1>15. FeedOK'
    <2>1. cur.id \in Ids /\ cur.id # j /\ cur.id \notin orders_ /\ l3[cur.id] = Absent
      BY <1>1, <1>2 DEF FeedOK, KindOK, Absent
    <2> QED
      BY <1>9, <1>10, <2>1, Zenon DEF FeedOK
  <1>16. IdsOK'
    <2> SUFFICES ASSUME NEW k \in Ids
                 PROVE  /\ k >= nextId => k \notin orders_' /\ l3'[k] = Absent /\ mkt[k] = Absent
                        /\ mkt[k] # Absent => k \notin orders_'
                        /\ k \in orders_' => order'[k].tif = "GTC"
      BY <1>5, Zenon DEF IdsOK
    <2>1. /\ k >= nextId => k \notin orders_ /\ l3[k] = Absent /\ mkt[k] = Absent
          /\ mkt[k] # Absent => k \notin orders_
          /\ k \in orders_ => order[k].tif = "GTC"
      BY <1>1, Zenon DEF IdsOK
    <2>2. CASE k = j
      BY <1>2, <1>10, <2>1, <2>2 DEF Absent
    <2>3. CASE k # j
      BY <1>7, <1>10, <2>1, <2>3, Zenon
    <2> QED
      BY <2>2, <2>3, Zenon
  <1> QED
    BY <1>10, <1>11, <1>12, <1>13, <1>14, <1>15, <1>16, Zenon DEF Inv, HandlerOK

\* Symbol::cancelOrder preserves the invariant.
LEMMA CompleteCancelInv == ASSUME Inv, CompleteCancel PROVE Inv'
  <1>1. /\ TypeOK /\ BookAgreesWithOrders /\ ReturnedOnce /\ KindOK /\ ModifyOK
    BY Zenon DEF Inv, HandlerOK
  <1>2. /\ pc = "cancel" /\ pc' = "flush" /\ cur' = cur /\ nextId' = nextId /\ mkt' = mkt
        /\ nextPrio' = nextPrio /\ smp' = smp /\ accTag' = accTag /\ pub' = pub
        /\ L3Set(cur.id, Absent, cur.id \in orders_, TRUE) /\ UnindexOrder(cur.id)
        /\ FreeOrder(cur.id) /\ order' = [order EXCEPT ![cur.id] = Recycled]
        /\ Tell(Cancellation(cur.id, order[cur.id]))
    BY Zenon DEF CompleteCancel, DeleteOrder, L3Delete
  <1>3. cur.id \in orders_ /\ cur.id \in Ids /\ cur.kind = "cancel" /\ order[cur.id] \in Order
    BY <1>1, <1>2, Zenon DEF KindOK, ModifyOK, TypeOK
  <1>4. /\ l3' \in [Ids -> BookEntry] /\ order' \in [Ids -> Order]
        /\ DOMAIN mdQty' \subseteq AllPrices /\ \A p \in DOMAIN mdQty' : mdQty'[p] \in Int
        /\ dirty' \subseteq Levels /\ lastEnd' \in BOOLEAN
        /\ orders_' \subseteq Ids /\ byOrderId' \subseteq Ids
        /\ byClOrdId' \in [ClOrdIds -> Ids \cup {NoId}]
        /\ orders_' = orders_ \ {cur.id}
        /\ \A k \in Ids \ {cur.id} : l3'[k] = l3[k] /\ order'[k] = order[k] /\ pool'[k] = pool[k]
        /\ pool' \in [Ids -> Int] /\ pool'[cur.id] = pool[cur.id] - 1
        /\ IndicesInLockstep' /\ Uncrossed' /\ IdsOK'
    BY <1>2, <1>3, Removal, Zenon
  <1>5. TypeOK'
    <2>1. emit' \subseteq Reports /\ told' \in Beliefs
      BY <1>1, <1>2, <1>3, ReportTypes, TellTypes, Zenon
    <2> QED
      BY <1>1, <1>2, <1>4, <2>1, Zenon DEF TypeOK, Beliefs, Phases
  <1>6. BookAgreesWithOrders'
    BY <1>1, <1>2, <1>3, <1>4, SMTT(30) DEF BookAgreesWithOrders, TypeOK
  <1>7. ReturnedOnce'
    BY <1>1, <1>2, <1>3, <1>4, SMTT(30) DEF ReturnedOnce
  <1>8. KindOK' /\ NewOK' /\ ModifyOK' /\ RestOK' /\ FeedOK'
    BY <1>1, <1>2, <1>3, Zenon DEF KindOK, NewOK, ModifyOK, RestOK, FeedOK, Working, Amended
  <1> QED
    BY <1>4, <1>5, <1>6, <1>7, <1>8, Zenon DEF Inv, HandlerOK

\* handleSelfMatch under CANCEL_RESTING preserves the invariant.
LEMMA CancelRestingInv == ASSUME Inv, NEW j \in Ids, CancelResting(j) PROVE Inv'
  <1>1. /\ TypeOK /\ BookAgreesWithOrders /\ ReturnedOnce /\ KindOK /\ NewOK /\ ModifyOK
    BY Zenon DEF Inv, HandlerOK
  <1>2. /\ pc = "match" /\ pc' = pc /\ cur' = cur /\ nextId' = nextId /\ mkt' = mkt
        /\ nextPrio' = nextPrio /\ smp' = smp /\ accTag' = accTag /\ pub' = pub
        /\ L3Set(j, Absent, j \in orders_, FALSE) /\ UnindexOrder(j)
        /\ FreeOrder(j) /\ order' = [order EXCEPT ![j] = Recycled]
        /\ Tell(Cancellation(j, order[j]))
    BY Zenon DEF CancelResting, DeleteOrder, L3Delete
  <1>3. j \in orders_ /\ l3[j].qty > 0 /\ l3[j].side = Opposite(order[cur.id].side)
    BY Zenon DEF CancelResting, PreventsMatch, SelfMatch, Hit, IsFront, Resting
  <1>4. cur.id \in Ids /\ order[j] \in Order /\ order[cur.id] \in Order
    BY <1>1, <1>2, Zenon DEF KindOK, TypeOK
  <1>5. j # cur.id
    BY <1>1, <1>2, <1>3, <1>4, Zenon DEF NewOK, ModifyOK, KindOK, Working, Absent, Opposite, Order, Sides
  <1>6. /\ l3' \in [Ids -> BookEntry] /\ order' \in [Ids -> Order]
        /\ DOMAIN mdQty' \subseteq AllPrices /\ \A p \in DOMAIN mdQty' : mdQty'[p] \in Int
        /\ dirty' \subseteq Levels /\ lastEnd' \in BOOLEAN
        /\ orders_' \subseteq Ids /\ byOrderId' \subseteq Ids
        /\ byClOrdId' \in [ClOrdIds -> Ids \cup {NoId}]
        /\ \A c \in ClOrdIds : byClOrdId[c] = NoId => byClOrdId'[c] = NoId
        /\ orders_' = orders_ \ {j}
        /\ \A k \in Ids \ {j} : l3'[k] = l3[k] /\ order'[k] = order[k] /\ pool'[k] = pool[k]
        /\ pool' \in [Ids -> Int] /\ pool'[j] = pool[j] - 1
        /\ IndicesInLockstep' /\ Uncrossed' /\ IdsOK'
    BY <1>2, <1>3, Removal, Zenon
  <1>7. TypeOK'
    <2>1. emit' \subseteq Reports /\ told' \in Beliefs
      BY <1>1, <1>2, <1>4, ReportTypes, TellTypes, Zenon
    <2> QED
      BY <1>1, <1>2, <1>6, <2>1, Zenon DEF TypeOK, Beliefs
  <1>8. BookAgreesWithOrders'
    BY <1>1, <1>2, <1>6, SMTT(30) DEF BookAgreesWithOrders, TypeOK
  <1>9. ReturnedOnce'
    BY <1>1, <1>2, <1>3, <1>5, <1>6 DEF ReturnedOnce
  <1>10. l3'[cur.id] = l3[cur.id] /\ order'[cur.id] = order[cur.id]
    BY <1>4, <1>5, <1>6, Zenon
  <1>11. KindOK' /\ RestOK' /\ FeedOK'
    BY <1>1, <1>2, Zenon DEF KindOK, RestOK, FeedOK, Working
  <1>12. NewOK'
    <2>1. order[cur.id].cl \in ClOrdIds \cup {NoClOrdId}
      BY <1>4, Zenon DEF Order
    <2> QED
      BY <1>1, <1>2, <1>6, <1>10, <2>1, SMTT(30) DEF NewOK, Working
  <1>13. ModifyOK'
    BY <1>1, <1>2, <1>5, <1>6, <1>10, Zenon DEF ModifyOK, Working, Amended
  <1> QED
    BY <1>6, <1>7, <1>8, <1>9, <1>11, <1>12, <1>13, Zenon DEF Inv, HandlerOK

-----------------------------------------------------------------------------
\* The venue's events.

\* A market event preserves the invariant if it keeps away from client orders and does
\* not cross the book.
LEMMA MarketInv ==
    ASSUME Inv, pc \in {"idle", "packet", "feed"}, pc' \in {"packet", "feed"}, Silent,
           UNCHANGED <<order, indexVars, pool, smp, accTag, pub>>,
           l3' \in [Ids -> BookEntry], mkt' \in [Ids -> BookEntry],
           DOMAIN mdQty' \subseteq AllPrices, \A p \in DOMAIN mdQty' : mdQty'[p] \in Int,
           dirty' \subseteq Levels, lastEnd' \in BOOLEAN,
           nextId' \in nextId .. MaxId + 1, nextPrio' \in Nat \ {0}, cur' \in Handlers,
           pc' = "packet" => cur' = NoHandler,
           pc' = "feed" => /\ cur'.kind \in {"market", "replay"}
                           /\ cur'.id \in Ids /\ cur'.id < nextId'
                           /\ cur'.id \notin orders_ /\ l3'[cur'.id] = Absent,
           \A k \in orders_ : l3'[k] = l3[k] /\ mkt'[k] = Absent,
           \A k \in Ids : k >= nextId' => l3'[k] = Absent /\ mkt'[k] = Absent,
           Uncrossed'
    PROVE  Inv'
  <1>1. /\ TypeOK /\ BookAgreesWithOrders /\ IndicesInLockstep /\ ReturnedOnce
        /\ KindOK /\ IdsOK
    BY Zenon DEF Inv, HandlerOK
  <1>2. /\ order' = order /\ orders_' = orders_ /\ byClOrdId' = byClOrdId
        /\ byOrderId' = byOrderId /\ pool' = pool /\ smp' = smp /\ accTag' = accTag
        /\ pub' = pub
    BY Zenon DEF indexVars
  <1>3. emit' \subseteq Reports /\ told' \in Beliefs
    BY <1>1, TellTypes, Zenon
  <1>4. nextId \in Int /\ nextId >= 1 /\ nextId' \in Int /\ nextId <= nextId'
    BY <1>1, BoundsAssumption, SMTT(30) DEF TypeOK
  <1>5. TypeOK'
    <2>1. nextId' \in 1 .. MaxId + 1 /\ pc' \in Phases
      BY <1>4, BoundsAssumption, SMTT(30) DEF Phases
    <2> QED
      BY <1>1, <1>2, <1>3, <2>1, Zenon DEF TypeOK, Beliefs
  <1>6. /\ cur.kind # "modify" /\ cur.kind # "new" /\ cur'.kind # "modify" /\ cur'.kind # "new"
    BY <1>1, SMTT(30) DEF KindOK, NoHandler
  <1>7. BookAgreesWithOrders'
    BY <1>1, <1>2, <1>6, SMTT(30) DEF BookAgreesWithOrders
  <1>8. IndicesInLockstep'
    BY <1>1, <1>2, Zenon DEF IndicesInLockstep
  <1>9. ReturnedOnce'
    BY <1>1, <1>2, <1>6, Zenon DEF ReturnedOnce
  <1>10. IdsOK'
    <2>1. \A k \in Ids : k \in Int
      BY DEF Ids
    <2> QED
      BY <1>1, <1>2, <1>4, <2>1, SMTT(30) DEF IdsOK
  <1>11. KindOK'
    BY Zenon DEF KindOK, Working
  <1>12. NewOK' /\ ModifyOK' /\ RestOK' /\ FeedOK'
    BY <1>2, Zenon DEF NewOK, ModifyOK, RestOK, FeedOK, Working, Amended
  <1> QED
    BY <1>5, <1>7, <1>8, <1>9, <1>10, <1>11, <1>12, Zenon DEF Inv, HandlerOK

\* The aggressor a venue's order becomes.
LEMMA AggressFields ==
    ASSUME TypeOK, NEW i \in Ids, NEW e \in BookEntry, e # Absent, Aggress(i, e)
    PROVE  /\ cur' \in Handlers /\ cur'.kind = "market" /\ cur'.id = i /\ pc' = "feed"
           /\ mkt' \in [Ids -> BookEntry] /\ \A k \in Ids \ {i} : mkt'[k] = mkt[k]
  <1>1. e.side \in Sides /\ e.price \in AllPrices /\ e.qty \in Nat /\ e.prio \in Nat
    BY Zenon DEF BookEntry
  <1>2. cur' = [kind |-> "market", id |-> i, side |-> e.side, price |-> e.price, qty |-> e.qty,
                prio |-> e.prio, requeue |-> FALSE, tag |-> Recycled.tag, ref |-> NoId]
    BY Zenon DEF Aggress, NoHandler
  <1>3. cur' \in Handlers /\ cur'.kind = "market" /\ cur'.id = i
    BY <1>1, <1>2, ConstantTypes, Zenon DEF Handlers, Kinds
  <1> QED
    BY <1>3, Zenon DEF Aggress, TypeOK

\* applyMarketOrder, ACTION_NEW, up to the match of the venue's order.
LEMMA MarketNewInv ==
    ASSUME Inv, NEW side \in Sides, NEW price \in Prices, NEW qty \in MarketQtys,
           MarketNew(side, price, qty)
    PROVE  Inv'
  <1> DEFINE e == Entry(side, price, qty, nextPrio)
  <1>1. TypeOK /\ KindOK /\ IdsOK /\ Uncrossed
    BY Zenon DEF Inv, HandlerOK
  <1>2. /\ pc \in {"idle", "packet"} /\ nextId <= MaxId /\ Aggress(nextId, e)
        /\ nextId' = nextId + 1 /\ nextPrio' = nextPrio + 1 /\ Silent
        /\ UNCHANGED <<order, indexVars, pool, smp, accTag, pub>>
        /\ l3' = l3 /\ mdQty' = mdQty /\ dirty' = dirty /\ lastEnd' = lastEnd
    BY Zenon DEF MarketNew, InPacket, l3Vars
  <1>3. /\ nextId \in Ids /\ nextId \in Int /\ nextPrio \in Nat \ {0}
        /\ \A k \in Ids : k \in Int
    BY <1>1, <1>2, BoundsAssumption, SMTT(30) DEF TypeOK, Ids
  <1>4. e \in BookEntry /\ e # Absent
    BY <1>3, InputsAssumption, Zenon DEF Entry, BookEntry, Absent, AllPrices
  <1> HIDE DEF e
  <1>5. /\ cur' \in Handlers /\ cur'.kind = "market" /\ cur'.id = nextId /\ pc' = "feed"
        /\ mkt' \in [Ids -> BookEntry] /\ \A k \in Ids \ {nextId} : mkt'[k] = mkt[k]
    BY <1>1, <1>2, <1>3, <1>4, AggressFields, Zenon
  <1>6. nextId \notin orders_ /\ l3[nextId] = Absent
    BY <1>1, <1>3, SMTT(30) DEF IdsOK
  <1>7. \A k \in orders_ : l3'[k] = l3[k] /\ mkt'[k] = Absent
    BY <1>1, <1>2, <1>5, <1>6, Zenon DEF IdsOK, TypeOK
  <1>8. \A k \in Ids : k >= nextId' => l3'[k] = Absent /\ mkt'[k] = Absent
    <2>1. ASSUME NEW k \in Ids, k >= nextId' PROVE k >= nextId /\ k # nextId
      BY <1>2, <1>3, <2>1
    <2> QED
      BY <1>1, <1>2, <1>5, <2>1, Zenon DEF IdsOK
  <1>9. nextId' \in nextId .. MaxId + 1 /\ nextPrio' \in Nat \ {0}
    BY <1>2, <1>3, BoundsAssumption, SMTT(30)
  <1>10. Uncrossed'
    BY <1>1, <1>2, Zenon DEF Uncrossed, Resting
  <1>11. /\ l3' \in [Ids -> BookEntry]
         /\ DOMAIN mdQty' \subseteq AllPrices /\ \A p \in DOMAIN mdQty' : mdQty'[p] \in Int
         /\ dirty' \subseteq Levels /\ lastEnd' \in BOOLEAN
    BY <1>1, <1>2, Zenon DEF TypeOK
  <1>12. /\ cur'.id \in Ids /\ cur'.id < nextId' /\ cur'.id \notin orders_
         /\ l3'[cur'.id] = Absent
    BY <1>2, <1>3, <1>5, <1>6, SMTT(30)
  <1> QED
    BY <1>2, <1>5, <1>7, <1>8, <1>9, <1>10, <1>11, <1>12, MarketInv, Zenon

\* applyMarketOrder, ACTION_CHANGE in place: side and price stay, so nothing new crosses.
LEMMA MarketChangeInv ==
    ASSUME Inv, NEW i \in Ids, NEW qty \in MarketQtys, MarketChange(i, qty) PROVE Inv'
  <1> DEFINE new == [l3[i] EXCEPT !.qty = qty]
             e == [mkt[i] EXCEPT !.qty = qty]
  <1>1. TypeOK /\ KindOK /\ IdsOK /\ Uncrossed
    BY Zenon DEF Inv, HandlerOK
  <1>2. /\ pc \in {"idle", "packet"} /\ mkt[i].qty > 0 /\ l3[i].qty > 0
        /\ mkt' = [mkt EXCEPT ![i].qty = qty] /\ L3Set(i, new, i \in orders_, TRUE)
        /\ pc' = "packet" /\ Silent /\ nextId' = nextId /\ nextPrio' = nextPrio /\ cur' = cur
        /\ UNCHANGED <<order, indexVars, pool, smp, accTag, pub>>
    BY Zenon DEF MarketChange, InPacket
  <1>3. i \notin orders_ /\ i < nextId /\ nextId \in Int /\ i \in Int
    BY <1>2, VenueOrder, Zenon
  <1>4. /\ new \in BookEntry /\ new.side = l3[i].side /\ new.price = l3[i].price
        /\ e \in BookEntry
    <2>1. /\ l3[i] \in [side : Sides, price : AllPrices, qty : Nat \ {0}, prio : Nat]
          /\ mkt[i] \in [side : Sides, price : AllPrices, qty : Nat \ {0}, prio : Nat]
      BY <1>1, <1>2 DEF TypeOK, BookEntry, Absent
    <2>2. qty \in Nat \ {0}
      BY InputsAssumption, Zenon
    <2>3. /\ new \in [side : Sides, price : AllPrices, qty : Nat \ {0}, prio : Nat]
          /\ e \in [side : Sides, price : AllPrices, qty : Nat \ {0}, prio : Nat]
          /\ new.side = l3[i].side /\ new.price = l3[i].price
      BY <2>1, <2>2, Zenon
    <2> QED
      BY <2>3, Zenon DEF BookEntry
  <1>5. mkt' = [mkt EXCEPT ![i] = e]
    BY <1>1, <1>2, Zenon DEF TypeOK
  <1> HIDE DEF new, e
  <1>6. /\ l3' \in [Ids -> BookEntry]
        /\ DOMAIN mdQty' \subseteq AllPrices /\ \A p \in DOMAIN mdQty' : mdQty'[p] \in Int
        /\ dirty' \subseteq Levels /\ lastEnd' \in BOOLEAN
    BY <1>1, <1>2, <1>4, L3SetTypes, Zenon
  <1>7. /\ l3'[i] = new /\ \A k \in Ids \ {i} : l3'[k] = l3[k]
        /\ mkt' \in [Ids -> BookEntry] /\ \A k \in Ids \ {i} : mkt'[k] = mkt[k]
    BY <1>1, <1>2, <1>4, <1>5, ZenonT(30) DEF L3Set, TypeOK
  <1>8. Uncrossed'
    BY <1>1, <1>2, <1>4, <1>7, ShrinkUncrossed, Zenon
  <1>9. \A k \in orders_ : l3'[k] = l3[k] /\ mkt'[k] = Absent
    BY <1>1, <1>3, <1>7, Zenon DEF IdsOK, TypeOK
  <1>10. \A k \in Ids : k >= nextId' => l3'[k] = Absent /\ mkt'[k] = Absent
    BY <1>1, <1>2, <1>3, <1>7 DEF IdsOK
  <1>11. /\ nextId' \in nextId .. MaxId + 1 /\ nextPrio' \in Nat \ {0} /\ cur' \in Handlers
         /\ cur' = NoHandler
    BY <1>1, <1>2, BoundsAssumption, SMTT(30) DEF TypeOK, KindOK
  <1> QED
    BY <1>2, <1>6, <1>7, <1>8, <1>9, <1>10, <1>11, MarketInv, Zenon

\* applyMarketOrder, ACTION_CHANGE of an order a client took whole.
LEMMA MarketRestoreInv ==
    ASSUME Inv, NEW i \in Ids, NEW qty \in MarketQtys, MarketRestore(i, qty) PROVE Inv'
  <1> DEFINE e == [mkt[i] EXCEPT !.qty = qty]
  <1>1. TypeOK /\ KindOK /\ IdsOK /\ Uncrossed
    BY Zenon DEF Inv, HandlerOK
  <1>2. /\ pc \in {"idle", "packet"} /\ mkt[i].qty > 0 /\ l3[i].qty = 0 /\ Aggress(i, e)
        /\ Silent /\ nextId' = nextId /\ nextPrio' = nextPrio
        /\ UNCHANGED <<order, indexVars, pool, smp, accTag, pub>>
        /\ l3' = l3 /\ mdQty' = mdQty /\ dirty' = dirty /\ lastEnd' = lastEnd
    BY Zenon DEF MarketRestore, InPacket, bookVars, indexVars
  <1>3. i \notin orders_ /\ i < nextId /\ nextId \in Int /\ i \in Int
    BY <1>2, VenueOrder, Zenon
  <1>4. e \in BookEntry /\ e # Absent
    <2>1. mkt[i] \in [side : Sides, price : AllPrices, qty : Nat \ {0}, prio : Nat]
      BY <1>1, <1>2, SMTT(30) DEF TypeOK, BookEntry, Absent
    <2>2. qty \in Nat \ {0}
      BY InputsAssumption, Zenon
    <2>3. e \in [side : Sides, price : AllPrices, qty : Nat \ {0}, prio : Nat] /\ e.qty = qty
      BY <2>1, <2>2, Zenon
    <2> QED
      BY <2>2, <2>3, Zenon DEF BookEntry, Absent
  <1> HIDE DEF e
  <1>5. /\ cur' \in Handlers /\ cur'.kind = "market" /\ cur'.id = i /\ pc' = "feed"
        /\ mkt' \in [Ids -> BookEntry] /\ \A k \in Ids \ {i} : mkt'[k] = mkt[k]
    BY <1>1, <1>2, <1>4, AggressFields, Zenon
  <1>6. l3[i] = Absent
    BY <1>1, <1>2, EntryFields, Zenon
  <1>7. \A k \in orders_ : l3'[k] = l3[k] /\ mkt'[k] = Absent
    BY <1>1, <1>2, <1>3, <1>5, Zenon DEF IdsOK, TypeOK
  <1>8. \A k \in Ids : k >= nextId' => l3'[k] = Absent /\ mkt'[k] = Absent
    <2> SUFFICES ASSUME NEW k \in Ids, k >= nextId PROVE l3[k] = Absent /\ mkt'[k] = Absent
      BY <1>2, Zenon
    <2>1. k # i
      BY <1>3, SMTT(30)
    <2> QED
      BY <1>1, <1>5, <2>1, Zenon DEF IdsOK
  <1>9. nextId' \in nextId .. MaxId + 1 /\ nextPrio' \in Nat \ {0}
    BY <1>1, <1>2, BoundsAssumption, SMTT(30) DEF TypeOK
  <1>10. Uncrossed'
    BY <1>1, <1>2, Zenon DEF Uncrossed, Resting
  <1>11. /\ l3' \in [Ids -> BookEntry]
         /\ DOMAIN mdQty' \subseteq AllPrices /\ \A p \in DOMAIN mdQty' : mdQty'[p] \in Int
         /\ dirty' \subseteq Levels /\ lastEnd' \in BOOLEAN
    BY <1>1, <1>2, Zenon DEF TypeOK
  <1>12. /\ cur'.id \in Ids /\ cur'.id < nextId' /\ cur'.id \notin orders_
         /\ l3'[cur'.id] = Absent
    BY <1>2, <1>3, <1>5, <1>6, Zenon
  <1> QED
    BY <1>2, <1>5, <1>7, <1>8, <1>9, <1>10, <1>11, <1>12, MarketInv, Zenon

\* applyMarketOrder, ACTION_CHANGE with requeue: off the book, then matched again.
LEMMA MarketRequeueInv ==
    ASSUME Inv, NEW i \in Ids, NEW price \in Prices, NEW qty \in MarketQtys,
           MarketRequeue(i, price, qty)
    PROVE  Inv'
  <1> DEFINE e == Entry(mkt[i].side, price, qty, nextPrio)
  <1>1. TypeOK /\ KindOK /\ IdsOK /\ Uncrossed
    BY Zenon DEF Inv, HandlerOK
  <1>2. /\ pc \in {"idle", "packet"} /\ mkt[i].qty > 0 /\ Aggress(i, e)
        /\ L3Set(i, Absent, i \in orders_, TRUE)
        /\ Silent /\ nextId' = nextId /\ nextPrio' = nextPrio + 1
        /\ UNCHANGED <<order, indexVars, pool, smp, accTag, pub>>
    BY Zenon DEF MarketRequeue, InPacket, L3Delete
  <1>3. /\ i \notin orders_ /\ i < nextId /\ nextId \in Int /\ i \in Int /\ mkt[i].side \in Sides
    BY <1>2, VenueOrder, Zenon
  <1>4. e \in BookEntry /\ e # Absent
    BY <1>1, <1>3, InputsAssumption, Zenon DEF Entry, BookEntry, Absent, AllPrices, TypeOK
  <1> HIDE DEF e
  <1>5. /\ cur' \in Handlers /\ cur'.kind = "market" /\ cur'.id = i /\ pc' = "feed"
        /\ mkt' \in [Ids -> BookEntry] /\ \A k \in Ids \ {i} : mkt'[k] = mkt[k]
    BY <1>1, <1>2, <1>4, AggressFields, Zenon
  <1>6. /\ l3' \in [Ids -> BookEntry]
        /\ DOMAIN mdQty' \subseteq AllPrices /\ \A p \in DOMAIN mdQty' : mdQty'[p] \in Int
        /\ dirty' \subseteq Levels /\ lastEnd' \in BOOLEAN
    BY <1>1, <1>2, ConstantTypes, L3SetTypes, Zenon
  <1>7. l3'[i] = Absent /\ \A k \in Ids \ {i} : l3'[k] = l3[k]
    BY <1>1, <1>2, Zenon DEF L3Set, TypeOK
  <1>8. Uncrossed'
    BY <1>1, <1>7, ShrinkUncrossed DEF Absent
  <1>9. \A k \in orders_ : l3'[k] = l3[k] /\ mkt'[k] = Absent
    BY <1>1, <1>3, <1>5, <1>7, Zenon DEF IdsOK, TypeOK
  <1>10. \A k \in Ids : k >= nextId' => l3'[k] = Absent /\ mkt'[k] = Absent
    <2> SUFFICES ASSUME NEW k \in Ids, k >= nextId PROVE l3'[k] = Absent /\ mkt'[k] = Absent
      BY <1>2, Zenon
    <2>1. k # i
      BY <1>3, SMTT(30)
    <2>2. l3[k] = Absent /\ mkt[k] = Absent
      BY <1>1, Zenon DEF IdsOK
    <2> QED
      BY <1>5, <1>7, <2>1, <2>2, Zenon
  <1>11. nextId' \in nextId .. MaxId + 1 /\ nextPrio' \in Nat \ {0}
    BY <1>1, <1>2, BoundsAssumption, SMTT(30) DEF TypeOK
  <1> QED
    BY <1>2, <1>3, <1>5, <1>6, <1>7, <1>8, <1>9, <1>10, <1>11, MarketInv, Zenon

\* applyMarketOrder, ACTION_DELETE: the book only shrinks.
LEMMA MarketDeleteInv == ASSUME Inv, NEW i \in Ids, MarketDelete(i) PROVE Inv'
  <1>1. TypeOK /\ KindOK /\ IdsOK /\ Uncrossed
    BY Zenon DEF Inv, HandlerOK
  <1>2. /\ pc \in {"idle", "packet"} /\ mkt[i].qty > 0 /\ mkt' = [mkt EXCEPT ![i] = Absent]
        /\ L3Set(i, Absent, i \in orders_, TRUE) /\ pc' = "packet" /\ Silent
        /\ nextId' = nextId /\ nextPrio' = nextPrio /\ cur' = cur
        /\ UNCHANGED <<order, indexVars, pool, smp, accTag, pub>>
    BY Zenon DEF MarketDelete, InPacket, L3Delete
  <1>3. i \notin orders_
    BY <1>2, VenueOrder, Zenon
  <1>4. /\ l3' \in [Ids -> BookEntry]
        /\ DOMAIN mdQty' \subseteq AllPrices /\ \A p \in DOMAIN mdQty' : mdQty'[p] \in Int
        /\ dirty' \subseteq Levels /\ lastEnd' \in BOOLEAN
    BY <1>1, <1>2, ConstantTypes, L3SetTypes, Zenon
  <1>5. /\ l3'[i] = Absent /\ \A k \in Ids \ {i} : l3'[k] = l3[k]
        /\ mkt' \in [Ids -> BookEntry] /\ mkt'[i] = Absent
        /\ \A k \in Ids \ {i} : mkt'[k] = mkt[k]
    BY <1>1, <1>2, ConstantTypes, Zenon DEF L3Set, TypeOK
  <1>6. Uncrossed'
    BY <1>1, <1>5, ShrinkUncrossed, SMTT(30) DEF Absent
  <1>7. \A k \in orders_ : l3'[k] = l3[k] /\ mkt'[k] = Absent
    BY <1>1, <1>3, <1>5, Zenon DEF IdsOK, TypeOK
  <1>8. \A k \in Ids : k >= nextId' => l3'[k] = Absent /\ mkt'[k] = Absent
    BY <1>1, <1>2, <1>5, Zenon DEF IdsOK
  <1>9. /\ nextId' \in nextId .. MaxId + 1 /\ nextPrio' \in Nat \ {0} /\ cur' \in Handlers
        /\ cur' = NoHandler
    BY <1>1, <1>2, BoundsAssumption DEF TypeOK, KindOK
  <1> QED
    BY <1>2, <1>4, <1>5, <1>6, <1>7, <1>8, <1>9, MarketInv, Zenon

\* replayMarketTrade up to the match of the print.
LEMMA MarketTradeInv ==
    ASSUME Inv, NEW side \in Sides, NEW price \in Prices, NEW qty \in MarketQtys,
           MarketTrade(side, price, qty)
    PROVE  Inv'
  <1>1. TypeOK /\ KindOK /\ IdsOK /\ Uncrossed
    BY Zenon DEF Inv, HandlerOK
  <1>2. /\ pc \in {"idle", "packet"} /\ nextId <= MaxId /\ nextId' = nextId + 1
        /\ cur' = [NoHandler EXCEPT !.kind = "replay", !.id = nextId, !.side = side,
                                    !.price = price, !.qty = qty]
        /\ pc' = "feed" /\ Silent /\ nextPrio' = nextPrio /\ mkt' = mkt
        /\ UNCHANGED <<order, indexVars, pool, smp, accTag, pub>>
        /\ l3' = l3 /\ mdQty' = mdQty /\ dirty' = dirty /\ lastEnd' = lastEnd
    BY Zenon DEF MarketTrade, InPacket, l3Vars
  <1>3. /\ nextId \in Ids /\ nextId \in Int /\ \A k \in Ids : k \in Int
    BY <1>1, <1>2, BoundsAssumption, SMTT(30) DEF TypeOK, Ids
  <1>4. cur' \in Handlers /\ cur'.kind = "replay" /\ cur'.id = nextId
    <2>1. cur' = [kind |-> "replay", id |-> nextId, side |-> side, price |-> price, qty |-> qty,
                  prio |-> 0, requeue |-> FALSE, tag |-> Recycled.tag, ref |-> NoId]
      BY <1>2, Zenon DEF NoHandler
    <2> QED
      BY <1>3, <2>1, InputsAssumption, ConstantTypes, Zenon DEF Handlers, Kinds, AllPrices
  <1>5. nextId \notin orders_ /\ l3[nextId] = Absent
    BY <1>1, <1>3 DEF IdsOK
  <1>6. /\ cur'.id \in Ids /\ cur'.id < nextId' /\ cur'.id \notin orders_
        /\ l3'[cur'.id] = Absent
    BY <1>2, <1>3, <1>4, <1>5
  <1>7. \A k \in orders_ : l3'[k] = l3[k] /\ mkt'[k] = Absent
    BY <1>1, <1>2, Zenon DEF IdsOK, TypeOK
  <1>8. \A k \in Ids : k >= nextId' => l3'[k] = Absent /\ mkt'[k] = Absent
    BY <1>1, <1>2, <1>3 DEF IdsOK
  <1>9. /\ nextId' \in nextId .. MaxId + 1 /\ nextPrio' \in Nat \ {0}
        /\ mkt' \in [Ids -> BookEntry]
    BY <1>1, <1>2, <1>3, BoundsAssumption DEF TypeOK
  <1>10. Uncrossed'
    BY <1>1, <1>2, Zenon DEF Uncrossed, Resting
  <1>11. /\ l3' \in [Ids -> BookEntry]
         /\ DOMAIN mdQty' \subseteq AllPrices /\ \A p \in DOMAIN mdQty' : mdQty'[p] \in Int
         /\ dirty' \subseteq Levels /\ lastEnd' \in BOOLEAN
    BY <1>1, <1>2, Zenon DEF TypeOK
  <1> QED
    BY <1>2, <1>4, <1>6, <1>7, <1>8, <1>9, <1>10, <1>11, MarketInv, Zenon

\* restMarketOrder preserves the invariant: what is left rests where nothing crosses it.
LEMMA RestMarketOrderInv == ASSUME Inv, RestMarketOrder PROVE Inv'
  <1> DEFINE i == cur.id
             new == Entry(cur.side, cur.price, cur.qty, cur.prio)
  <1>1. TypeOK /\ KindOK /\ FeedOK /\ IdsOK /\ Uncrossed
    BY Zenon DEF Inv, HandlerOK
  <1>2. /\ pc = "feed" /\ Reachable(cur.side, cur.price) = {} /\ cur.qty > 0
        /\ L3Set(i, new, i \in orders_, TRUE) /\ pc' = "packet" /\ cur' = NoHandler /\ Silent
        /\ nextId' = nextId /\ nextPrio' = nextPrio /\ mkt' = mkt
        /\ UNCHANGED <<order, indexVars, pool, smp, accTag, pub>>
    BY Zenon DEF RestMarketOrder, FeedDone
  <1>3. /\ i \in Ids /\ i < nextId /\ i \notin orders_ /\ cur \in Handlers
        /\ nextId \in Int /\ \A k \in Ids : k \in Int
    BY <1>1, <1>2, BoundsAssumption DEF KindOK, FeedOK, TypeOK, Ids
  <1>4. cur.side \in Sides /\ cur.price \in AllPrices /\ cur.qty \in Nat /\ cur.prio \in Nat
    <2>1. cur \in Handlers
      BY <1>3, Zenon
    <2> QED
      BY <2>1, Zenon DEF Handlers
  <1>5. new \in BookEntry /\ new.side = cur.side /\ new.price = cur.price
    BY <1>2, <1>4, EntryType, SMTT(30) DEF Entry
  <1> HIDE DEF new
  <1>6. /\ l3' \in [Ids -> BookEntry]
        /\ DOMAIN mdQty' \subseteq AllPrices /\ \A p \in DOMAIN mdQty' : mdQty'[p] \in Int
        /\ dirty' \subseteq Levels /\ lastEnd' \in BOOLEAN
    BY <1>1, <1>2, <1>3, <1>5, L3SetTypes, Zenon
  <1>7. l3'[i] = new /\ \A k \in Ids \ {i} : l3'[k] = l3[k]
    BY <1>1, <1>2, <1>3, Zenon DEF L3Set, TypeOK
  <1>8. Uncrossed'
    BY <1>1, <1>2, <1>3, <1>4, <1>5, <1>6, <1>7, PlaceUncrossed, Zenon
  <1>9. \A k \in orders_ : l3'[k] = l3[k] /\ mkt'[k] = Absent
    BY <1>1, <1>2, <1>3, <1>7, Zenon DEF IdsOK, TypeOK
  <1>10. \A k \in Ids : k >= nextId' => l3'[k] = Absent /\ mkt'[k] = Absent
    <2> SUFFICES ASSUME NEW k \in Ids, k >= nextId PROVE l3'[k] = Absent /\ mkt[k] = Absent
      BY <1>2, Zenon
    <2>1. k # i
      BY <1>3
    <2>2. l3[k] = Absent /\ mkt[k] = Absent
      BY <1>1, Zenon DEF IdsOK
    <2> QED
      BY <1>7, <2>1, <2>2, Zenon
  <1>11. /\ nextId' \in nextId .. MaxId + 1 /\ nextPrio' \in Nat \ {0} /\ cur' \in Handlers
         /\ mkt' \in [Ids -> BookEntry]
    BY <1>1, <1>2, BoundsAssumption, ConstantTypes DEF TypeOK
  <1> QED
    BY <1>2, <1>6, <1>8, <1>9, <1>10, <1>11, MarketInv, Zenon

-----------------------------------------------------------------------------
\* Steps that change neither the book nor the orders.

\* The rejects of requests that never reach the engine.
LEMMA RejectRequestInv == ASSUME Inv, NEW ref \in Ids \cup {NoId}, RejectRequest(ref) PROVE Inv'
  <1>1. /\ TypeOK /\ BookAgreesWithOrders /\ ReturnedOnce
        /\ KindOK /\ NewOK /\ ModifyOK /\ RestOK /\ FeedOK
    BY Zenon DEF Inv, HandlerOK
  <1>2. /\ UNCHANGED <<bookVars, mkt>> /\ smp' = smp /\ pc' = pc /\ cur' = cur
        /\ accTag' = accTag /\ pub' = pub /\ Notify(Rejection(ref)) /\ pc = "idle"
    BY Zenon DEF RejectRequest, bookVars
  <1>3. /\ l3' = l3 /\ order' = order /\ orders_' = orders_ /\ byClOrdId' = byClOrdId
        /\ byOrderId' = byOrderId /\ pool' = pool /\ mdQty' = mdQty /\ nextId' = nextId
        /\ nextPrio' = nextPrio /\ dirty' = dirty /\ lastEnd' = lastEnd /\ mkt' = mkt
        /\ IndicesInLockstep' /\ Uncrossed' /\ IdsOK'
    BY <1>2, BookUnchanged, Zenon
  <1>4. emit' \subseteq Reports /\ told' \in Beliefs
    BY <1>1, <1>2, ReportTypes, ConstantTypes, TellTypes, Zenon
  <1>5. TypeOK'
    BY <1>1, <1>2, <1>3, <1>4, Zenon DEF TypeOK, Beliefs
  <1>6. BookAgreesWithOrders' /\ ReturnedOnce'
    BY <1>1, <1>2, <1>3, Zenon DEF BookAgreesWithOrders, ReturnedOnce
  <1>7. KindOK' /\ NewOK' /\ ModifyOK' /\ RestOK' /\ FeedOK'
    BY <1>1, <1>2, <1>3, Zenon DEF KindOK, NewOK, ModifyOK, RestOK, FeedOK, Working, Amended
  <1> QED
    BY <1>3, <1>5, <1>6, <1>7, Zenon DEF Inv, HandlerOK

\* The engine's steps that only report and move on.
LEMMA ControlInv ==
    ASSUME Inv, Acknowledge \/ PassFok \/ CancelZeroLeaves \/ EndMatch PROVE Inv'
  <1>1. /\ TypeOK /\ BookAgreesWithOrders /\ ReturnedOnce
        /\ KindOK /\ NewOK /\ ModifyOK /\ RestOK /\ FeedOK /\ IdsOK
    BY Zenon DEF Inv, HandlerOK
  <1>2. /\ UNCHANGED <<bookVars, mkt>> /\ smp' = smp /\ cur' = cur /\ accTag' = accTag
        /\ pub' = pub
    BY Zenon DEF Acknowledge, PassFok, CancelZeroLeaves, EndMatch, bookVars
  <1>3. /\ l3' = l3 /\ order' = order /\ orders_' = orders_ /\ byClOrdId' = byClOrdId
        /\ byOrderId' = byOrderId /\ pool' = pool /\ mdQty' = mdQty /\ nextId' = nextId
        /\ nextPrio' = nextPrio /\ dirty' = dirty /\ lastEnd' = lastEnd /\ mkt' = mkt
        /\ IndicesInLockstep' /\ Uncrossed' /\ IdsOK'
    BY <1>2, BookUnchanged, Zenon
  <1>4. Working /\ cur.id \in Ids /\ order[cur.id] \in Order
    <2>1. Working
      BY Zenon DEF Acknowledge, PassFok, CancelZeroLeaves, EndMatch, Working
    <2> QED
      BY <1>1, <2>1, Zenon DEF Working, KindOK, TypeOK
  <1>5. emit' \subseteq Reports /\ told' \in Beliefs
    <2>1. order[cur.id].leaves \in Nat
      BY <1>4, Zenon DEF Order
    <2>2. Report(cur.id, "NEW", 0, order[cur.id].leaves) \in Reports
      <3>1. cur.id \in Ids \cup {NoId} /\ "NEW" \in Statuses /\ 0 \in Nat
        BY <1>4, Zenon DEF Statuses
      <3> QED
        BY <2>1, <3>1, ReportType, Zenon
    <2>3. Cancellation(cur.id, order[cur.id]) \in Reports
      BY <1>4, ReportTypes, Zenon
    <2>4. \/ Silent \/ Tell(Report(cur.id, "NEW", 0, order[cur.id].leaves))
          \/ Tell(Cancellation(cur.id, order[cur.id]))
      BY Zenon DEF Acknowledge, PassFok, CancelZeroLeaves, EndMatch
    <2> QED
      BY <1>1, <2>2, <2>3, <2>4, TellTypes, Zenon
  <1>6. \/ pc = "smp" /\ pc' = "fok"
        \/ pc = "fok" /\ cur.kind = "modify" /\ pc' = "replace"
        \/ pc = "fok" /\ cur.kind # "modify" /\ order[cur.id].leaves = 0 /\ pc' = "zero"
        \/ pc = "fok" /\ cur.kind # "modify" /\ order[cur.id].leaves # 0 /\ pc' = "match"
        \/ pc = "zero" /\ pc' = "rest"
        \/ /\ pc = "match" /\ pc' = "rest"
           /\ order[cur.id].leaves > 0 => Reachable(order[cur.id].side, cur.price) = {}
    <2>1. CASE Acknowledge
      BY <2>1, Zenon DEF Acknowledge
    <2>2. CASE PassFok
      BY <2>2, Zenon DEF PassFok
    <2>3. CASE CancelZeroLeaves
      BY <2>3, Zenon DEF CancelZeroLeaves
    <2>4. CASE EndMatch
      BY <2>4, Zenon DEF EndMatch
    <2> QED
      BY <2>1, <2>2, <2>3, <2>4, Zenon
  <1>7. TypeOK'
    BY <1>1, <1>2, <1>3, <1>5, <1>6, Zenon DEF TypeOK, Beliefs, Phases
  <1>8. BookAgreesWithOrders'
    BY <1>1, <1>2, <1>3, <1>6, Zenon DEF BookAgreesWithOrders
  <1>81. ReturnedOnce'
    BY <1>1, <1>2, <1>3, <1>6, Zenon DEF ReturnedOnce
  <1>9. KindOK' /\ NewOK' /\ FeedOK'
    BY <1>1, <1>2, <1>3, <1>6, Zenon DEF KindOK, NewOK, FeedOK, Working
  <1>10. ModifyOK'
    BY <1>1, <1>2, <1>3, <1>6, Zenon DEF ModifyOK, Working, Amended
  <1>11. RestOK'
    <2>1. (Reachable(order[cur.id].side, cur.price))' = Reachable(order[cur.id].side, cur.price)
      BY <1>2, <1>3, Zenon DEF Reachable, Resting
    <2> QED
      BY <1>1, <1>2, <1>3, <1>6, <2>1, SMTT(30) DEF RestOK
  <1> QED
    BY <1>3, <1>7, <1>8, <1>81, <1>9, <1>10, <1>11, Zenon DEF Inv, HandlerOK

\* flushMarketDataCaches preserves the invariant: it only publishes.
LEMMA FlushInv == ASSUME Inv, Flush PROVE Inv'
  <1>1. /\ TypeOK /\ BookAgreesWithOrders /\ IndicesInLockstep /\ ReturnedOnce
        /\ KindOK /\ IdsOK /\ Uncrossed
    BY Zenon DEF Inv, HandlerOK
  <1>2. /\ pc \in {"flush", "packet"} /\ pc' = "idle" /\ cur' = NoHandler
        /\ dirty' = {} /\ lastEnd' = TRUE /\ Silent /\ DOMAIN pub' = Levels
        /\ l3' = l3 /\ order' = order /\ orders_' = orders_ /\ byClOrdId' = byClOrdId
        /\ byOrderId' = byOrderId /\ pool' = pool /\ mdQty' = mdQty /\ nextId' = nextId
        /\ nextPrio' = nextPrio /\ smp' = smp /\ accTag' = accTag /\ mkt' = mkt
    BY Zenon DEF Flush, indexVars
  <1>3. emit' \subseteq Reports /\ told' \in Beliefs
    BY <1>1, <1>2, TellTypes, Zenon
  <1>4. TypeOK'
    BY <1>1, <1>2, <1>3, ConstantTypes, Zenon DEF TypeOK, Beliefs, Phases
  <1>5. BookAgreesWithOrders' /\ IndicesInLockstep' /\ Uncrossed' /\ IdsOK'
    BY <1>1, <1>2, ZenonT(30) DEF BookAgreesWithOrders, IndicesInLockstep, Uncrossed, Resting, IdsOK
  <1>6. ReturnedOnce'
    BY <1>1, <1>2, Zenon DEF ReturnedOnce, NoHandler, KindOK
  <1>7. KindOK' /\ NewOK' /\ ModifyOK' /\ RestOK' /\ FeedOK'
    BY <1>2, Zenon DEF KindOK, NewOK, ModifyOK, RestOK, FeedOK, Working, Amended
  <1> QED
    BY <1>4, <1>5, <1>6, <1>7, Zenon DEF Inv, HandlerOK

\* The end of a feed aggressor that rests nothing.
LEMMA EndFeedInv == ASSUME Inv, EndFeed PROVE Inv'
  <1>1. /\ TypeOK /\ BookAgreesWithOrders /\ ReturnedOnce /\ KindOK
    BY Zenon DEF Inv, HandlerOK
  <1>2. /\ UNCHANGED <<bookVars, mkt>> /\ smp' = smp /\ pc = "feed" /\ pc' = "packet"
        /\ cur' = NoHandler /\ accTag' = accTag /\ pub' = pub /\ Silent
    BY Zenon DEF EndFeed, bookVars
  <1>3. /\ l3' = l3 /\ order' = order /\ orders_' = orders_ /\ byClOrdId' = byClOrdId
        /\ byOrderId' = byOrderId /\ pool' = pool /\ mdQty' = mdQty /\ nextId' = nextId
        /\ nextPrio' = nextPrio /\ dirty' = dirty /\ lastEnd' = lastEnd /\ mkt' = mkt
        /\ IndicesInLockstep' /\ Uncrossed' /\ IdsOK'
    BY <1>2, BookUnchanged, Zenon
  <1>4. emit' \subseteq Reports /\ told' \in Beliefs
    BY <1>1, <1>2, TellTypes, Zenon
  <1>5. TypeOK'
    BY <1>1, <1>2, <1>3, <1>4, ConstantTypes, Zenon DEF TypeOK, Beliefs, Phases
  <1>6. BookAgreesWithOrders'
    BY <1>1, <1>2, <1>3, Zenon DEF BookAgreesWithOrders
  <1>7. ReturnedOnce'
    BY <1>1, <1>2, <1>3, Zenon DEF ReturnedOnce, NoHandler, KindOK
  <1>8. KindOK' /\ NewOK' /\ ModifyOK' /\ RestOK' /\ FeedOK'
    BY <1>2, Zenon DEF KindOK, NewOK, ModifyOK, RestOK, FeedOK, Working, Amended
  <1> QED
    BY <1>3, <1>5, <1>6, <1>7, <1>8, Zenon DEF Inv, HandlerOK

-----------------------------------------------------------------------------
\* A new order that does not rest: killed, rejected or dropped.
LEMMA DropInv ==
    ASSUME Inv, Working, cur.kind = "new",
           order' = [order EXCEPT ![cur.id] = Recycled], FreeOrder(cur.id),
           lastEnd' = TRUE, pc' = "flush",
           emit' \subseteq Reports /\ told' \in Beliefs,
           UNCHANGED <<l3, mdQty, dirty, indexVars, nextId, nextPrio, smp, cur, accTag, pub, mkt>>
    PROVE  Inv'
  <1>1. /\ TypeOK /\ BookAgreesWithOrders /\ IndicesInLockstep /\ ReturnedOnce
        /\ KindOK /\ NewOK /\ IdsOK /\ Uncrossed
    BY Zenon DEF Inv, HandlerOK
  <1>2. /\ l3' = l3 /\ mdQty' = mdQty /\ dirty' = dirty /\ orders_' = orders_
        /\ byClOrdId' = byClOrdId /\ byOrderId' = byOrderId /\ nextId' = nextId
        /\ nextPrio' = nextPrio /\ smp' = smp /\ cur' = cur /\ accTag' = accTag
        /\ pub' = pub /\ mkt' = mkt
    BY Zenon DEF indexVars
  <1>3. cur.id \in Ids /\ cur.id \notin orders_ /\ pc # "flush"
    BY <1>1, Zenon DEF KindOK, NewOK, Working
  <1>4. order' \in [Ids -> Order] /\ \A k \in orders_ : k \in Ids /\ order'[k] = order[k]
    BY <1>1, <1>3, ConstantTypes, Zenon DEF TypeOK
  <1>5. /\ pool' \in [Ids -> Int] /\ pool'[cur.id] = pool[cur.id] - 1
        /\ \A k \in Ids \ {cur.id} : pool'[k] = pool[k]
    BY <1>1, <1>3, SMTT(30) DEF TypeOK, FreeOrder
  <1>6. TypeOK'
    BY <1>1, <1>2, <1>4, <1>5, Zenon DEF TypeOK, Beliefs, Phases
  <1>7. BookAgreesWithOrders'
    BY <1>1, <1>2, <1>4, SMTT(30) DEF BookAgreesWithOrders
  <1>8. IndicesInLockstep' /\ Uncrossed'
    BY <1>1, <1>2, <1>4 DEF IndicesInLockstep, Uncrossed, Resting
  <1>9. ReturnedOnce'
    BY <1>1, <1>2, <1>3, <1>5, SMTT(30) DEF ReturnedOnce
  <1>10. IdsOK'
    BY <1>1, <1>2, <1>4, Zenon DEF IdsOK
  <1>11. KindOK' /\ NewOK' /\ ModifyOK' /\ RestOK' /\ FeedOK'
    BY <1>1, <1>2, <1>3, Zenon DEF KindOK, NewOK, ModifyOK, RestOK, FeedOK, Working, Amended
  <1> QED
    BY <1>6, <1>7, <1>8, <1>9, <1>10, <1>11, Zenon DEF Inv, HandlerOK

\* Symbol::addOrder for an order that does not rest.
LEMMA DropNewInv == ASSUME Inv, DropNew PROVE Inv'
  <1>1. Working /\ emit' \subseteq Reports /\ told' \in Beliefs
    <2>1. TypeOK
      BY Zenon DEF Inv
    <2> QED
      BY <2>1, TellTypes, Zenon DEF DropNew, Working
  <1> QED
    BY <1>1, DropInv, Zenon DEF DropNew

\* prepareOrder's fill-or-kill check.
LEMMA KillFokInv == ASSUME Inv, KillFok PROVE Inv'
  <1>1. TypeOK /\ KindOK /\ ModifyOK /\ IdsOK
    BY Zenon DEF Inv, HandlerOK
  <1>2. Working /\ pc = "fok" /\ order[cur.id].tif = "FOK" /\ cur.id \in Ids
    BY <1>1, Zenon DEF KillFok, Working, KindOK
  <1>3. cur.kind = "new"
    BY <1>1, <1>2, Zenon DEF KindOK, ModifyOK, IdsOK
  <1>4. emit' \subseteq Reports /\ told' \in Beliefs
    <2>1. order[cur.id] \in Order
      BY <1>1, <1>2, Zenon DEF TypeOK
    <2>2. Cancellation(cur.id, order[cur.id]) \in Reports
      BY <1>2, <2>1, ReportTypes, Zenon
    <2> QED
      BY <1>1, <2>2, TellTypes, Zenon DEF KillFok
  <1> QED
    BY <1>2, <1>3, <1>4, DropInv, Zenon DEF KillFok

\* Writing a tag onto an order changes nothing else of it.
LEMMA TagFields ==
    ASSUME TypeOK, NEW i \in Ids, NEW t \in Tags, order' = [order EXCEPT ![i].tag = t]
    PROVE  /\ order' \in [Ids -> Order]
           /\ \A k \in Ids :
                /\ order'[k].cl = order[k].cl /\ order'[k].side = order[k].side
                /\ order'[k].price = order[k].price /\ order'[k].quantity = order[k].quantity
                /\ order'[k].leaves = order[k].leaves /\ order'[k].cum = order[k].cum
                /\ order'[k].tif = order[k].tif /\ order'[k].prio = order[k].prio
  <1>1. order[i] \in Order
    BY Zenon DEF TypeOK
  <1> DEFINE o == [order[i] EXCEPT !.tag = t]
  <1>2. /\ o \in Order
        /\ o.cl = order[i].cl /\ o.side = order[i].side
        /\ o.price = order[i].price /\ o.quantity = order[i].quantity
        /\ o.leaves = order[i].leaves /\ o.cum = order[i].cum
        /\ o.tif = order[i].tif /\ o.prio = order[i].prio
    BY <1>1, Zenon DEF Order
  <1>3. order' = [order EXCEPT ![i] = o]
    BY <1>1, Zenon DEF TypeOK
  <1> HIDE DEF o
  <1>4. order'[i] = o /\ \A k \in Ids \ {i} : order'[k] = order[k]
    BY <1>3, Zenon DEF TypeOK
  <1>5. order' \in [Ids -> Order]
    BY <1>2, <1>3, Zenon DEF TypeOK
  <1> QED
    BY <1>2, <1>4, <1>5, Zenon

\* A step that leaves the book and the indices alone and, of the orders, only writes a
\* tag: what the invariant says of book and orders is unaffected.
LEMMA TagInv ==
    ASSUME Inv, NEW i \in Ids, NEW t \in Tags, order' = [order EXCEPT ![i].tag = t],
           UNCHANGED <<l3Vars, indexVars, pool, nextId, nextPrio, smp, accTag, pub, mkt>>,
           emit' \subseteq Reports /\ told' \in Beliefs, pc' \in Phases, cur' \in Handlers
    PROVE  /\ TypeOK' /\ IndicesInLockstep' /\ Uncrossed' /\ IdsOK'
           /\ l3' = l3 /\ orders_' = orders_ /\ byClOrdId' = byClOrdId /\ byOrderId' = byOrderId
           /\ pool' = pool /\ nextId' = nextId /\ mkt' = mkt
           /\ \A k \in Ids :
                /\ order'[k].cl = order[k].cl /\ order'[k].side = order[k].side
                /\ order'[k].price = order[k].price /\ order'[k].quantity = order[k].quantity
                /\ order'[k].leaves = order[k].leaves /\ order'[k].cum = order[k].cum
                /\ order'[k].tif = order[k].tif /\ order'[k].prio = order[k].prio
  <1>1. TypeOK /\ IndicesInLockstep /\ IdsOK /\ Uncrossed
    BY Zenon DEF Inv, HandlerOK
  <1>2. /\ l3' = l3 /\ mdQty' = mdQty /\ dirty' = dirty /\ lastEnd' = lastEnd
        /\ orders_' = orders_ /\ byClOrdId' = byClOrdId /\ byOrderId' = byOrderId
        /\ pool' = pool /\ nextId' = nextId /\ nextPrio' = nextPrio /\ smp' = smp
        /\ accTag' = accTag /\ pub' = pub /\ mkt' = mkt
    BY Zenon DEF l3Vars, indexVars
  <1>3. /\ order' \in [Ids -> Order]
        /\ \A k \in Ids :
                /\ order'[k].cl = order[k].cl /\ order'[k].side = order[k].side
                /\ order'[k].price = order[k].price /\ order'[k].quantity = order[k].quantity
                /\ order'[k].leaves = order[k].leaves /\ order'[k].cum = order[k].cum
                /\ order'[k].tif = order[k].tif /\ order'[k].prio = order[k].prio
    BY <1>1, TagFields, Zenon
  <1>4. TypeOK'
    BY <1>1, <1>2, <1>3, Zenon DEF TypeOK, Beliefs
  <1>5. IndicesInLockstep'
    <2>1. \A k \in orders_ : order'[k].cl = order[k].cl
      BY <1>1, <1>3, Zenon DEF TypeOK
    <2> QED
      BY <1>1, <1>2, <2>1, SameLockstep, Zenon
  <1>6. Uncrossed' /\ IdsOK'
    BY <1>1, <1>2, <1>3 DEF Uncrossed, Resting, IdsOK
  <1> QED
    BY <1>2, <1>3, <1>4, <1>5, <1>6, Zenon

\* A self-match reject preserves the invariant, as long as it comes before the order has
\* traded: the backstop in the loop would leave an amended order out of step with its
\* entry.
LEMMA RejectSelfMatchInv ==
    ASSUME Inv, SelfMatchDecidedUpFront, RejectSelfMatch PROVE Inv'
  <1>1. /\ TypeOK /\ BookAgreesWithOrders /\ ReturnedOnce /\ KindOK /\ ModifyOK
    BY Zenon DEF Inv, HandlerOK
  <1>2. pc = "smp" /\ RejectCurrent
    BY Zenon DEF SelfMatchDecidedUpFront, RejectSelfMatch
  <1>3. Working /\ cur.id \in Ids /\ cur.kind \in {"new", "modify"} /\ cur \in Handlers
    BY <1>1, <1>2, Zenon DEF Working, KindOK, TypeOK
  <1>4. Rejection(NoId) \in Reports /\ Rejection(cur.ref) \in Reports
    <2>1. cur.ref \in Ids \cup {NoId}
      BY <1>3, Zenon DEF Handlers
    <2> QED
      BY <1>3, <2>1, ConstantTypes, ReportTypes, Zenon
  <1>5. CASE cur.kind = "new"
    <2>1. /\ order' = [order EXCEPT ![cur.id] = Recycled] /\ FreeOrder(cur.id)
          /\ lastEnd' = TRUE /\ pc' = "flush" /\ emit' = {Rejection(NoId)}
          /\ told' = [told EXCEPT ![cur.id] = View(Rejection(NoId))]
          /\ UNCHANGED <<l3, mdQty, dirty, indexVars, nextId, nextPrio, smp, cur, accTag, pub, mkt>>
      BY <1>2, <1>5, Zenon DEF RejectCurrent
    <2>2. emit' \subseteq Reports /\ told' \in Beliefs
      BY <1>1, <1>3, <1>4, <2>1, ViewType, Zenon DEF TypeOK, Beliefs
    <2> QED
      BY <1>3, <1>5, <2>1, <2>2, DropInv, Zenon
  <1>6. CASE cur.kind = "modify"
    <2>1. /\ order' = [order EXCEPT ![cur.id].tag = cur.tag] /\ pc' = "flush" /\ cur' = cur
          /\ Notify(Rejection(cur.ref))
          /\ UNCHANGED <<l3Vars, indexVars, pool, nextId, nextPrio, smp, accTag, pub, mkt>>
      BY <1>2, <1>6, Zenon DEF RejectCurrent, RestoreTag, l3Vars
    <2>2. emit' \subseteq Reports /\ told' \in Beliefs
      BY <1>1, <1>4, <2>1, TellTypes, Zenon
    <2>3. cur.tag \in Tags /\ pc' \in Phases /\ cur' \in Handlers
      BY <1>3, <2>1, Zenon DEF Handlers, Phases
    <2>4. /\ TypeOK' /\ IndicesInLockstep' /\ Uncrossed' /\ IdsOK'
          /\ l3' = l3 /\ orders_' = orders_ /\ pool' = pool /\ nextId' = nextId
          /\ \A k \in Ids :
                /\ order'[k].side = order[k].side
                /\ order'[k].price = order[k].price /\ order'[k].quantity = order[k].quantity
                /\ order'[k].leaves = order[k].leaves /\ order'[k].cum = order[k].cum
                /\ order'[k].prio = order[k].prio
      BY <1>3, <2>1, <2>2, <2>3, TagInv, Zenon
    <2>5. BookAgreesWithOrders'
      BY <1>1, <1>2, <2>1, <2>4 DEF BookAgreesWithOrders, TypeOK
    <2>6. ReturnedOnce'
      BY <1>1, <1>2, <1>6, <2>1, <2>4, Zenon DEF ReturnedOnce
    <2>7. KindOK' /\ NewOK' /\ ModifyOK' /\ RestOK' /\ FeedOK'
      BY <1>1, <1>2, <1>6, <2>1, <2>4, Zenon
      DEF KindOK, NewOK, ModifyOK, RestOK, FeedOK, Working, Amended
    <2> QED
      BY <2>4, <2>5, <2>6, <2>7, Zenon DEF Inv, HandlerOK
  <1> QED
    BY <1>3, <1>5, <1>6, Zenon

-----------------------------------------------------------------------------
\* The request handlers up to the engine.

\* handleModifyOrderRequest preserves the invariant: only the tag is written before the
\* engine decides.
LEMMA ModifyOrderInv ==
    ASSUME Inv, NEW cl \in ClOrdIds \cup {NoClOrdId}, NEW oid \in Ids,
           NEW price \in AmendPrices, NEW qty \in AmendQtys, NEW tag \in Tags,
           ModifyOrder(cl, oid, price, qty, tag)
    PROVE  Inv'
  <1> DEFINE i == Lookup(cl, oid)
  <1>1. /\ TypeOK /\ BookAgreesWithOrders /\ IndicesInLockstep /\ ReturnedOnce
        /\ KindOK /\ IdsOK
    BY Zenon DEF Inv, HandlerOK
  <1>2. /\ pc = "idle" /\ pc' = "smp" /\ i # NoId /\ order' = [order EXCEPT ![i].tag = tag]
        /\ cur' = [NoHandler EXCEPT !.kind = "modify", !.id = i, !.side = order[i].side,
                       !.price = price, !.qty = qty, !.tag = order[i].tag,
                       !.requeue = price # order[i].price \/ qty > order[i].quantity,
                       !.ref = IF cl = NoClOrdId THEN i ELSE NoId]
        /\ Notify(Report(i, "PENDING_REPLACE", 0, order[i].leaves))
        /\ UNCHANGED <<l3Vars, indexVars, pool, nextId, nextPrio, smp, accTag, pub, mkt>>
    BY Zenon DEF ModifyOrder, Requeues
  <1>3. i \in orders_
    BY <1>1, <1>2, LookupOwn, Zenon
  <1> HIDE DEF i
  <1>4. i \in Ids /\ order[i] \in Order /\ cur = NoHandler /\ nextId \in Nat
    BY <1>1, <1>2, <1>3, SMTT(30) DEF TypeOK, KindOK
  <1>5. order[i].side \in Sides /\ order[i].leaves \in Nat /\ order[i].tag \in Tags
    BY <1>4, Zenon DEF Order
  <1>6. cur.kind # "modify" /\ cur.kind # "new" /\ cur.id \notin Ids
    BY <1>4, ConstantTypes, Zenon DEF NoHandler
  <1>7. price \in AllPrices /\ qty \in Nat
    BY InputsAssumption, Zenon
  <1>8. /\ cur' \in Handlers /\ cur'.kind = "modify" /\ cur'.id = i
        /\ cur'.side = order[i].side /\ cur'.price = price
    <2> DEFINE rq == price # order[i].price \/ qty > order[i].quantity
               rf == IF cl = NoClOrdId THEN i ELSE NoId
    <2>1. rq \in BOOLEAN /\ rf \in Ids \cup {NoId}
      BY <1>4, Zenon
    <2>2. cur' = [NoHandler EXCEPT !.kind = "modify", !.id = i, !.side = order[i].side,
                       !.price = price, !.qty = qty, !.tag = order[i].tag,
                       !.requeue = rq, !.ref = rf]
      BY <1>2, Zenon
    <2> HIDE DEF rq, rf
    <2>3. cur' = [kind |-> "modify", id |-> i, side |-> order[i].side, price |-> price,
                  qty |-> qty, prio |-> 0, requeue |-> rq, tag |-> order[i].tag, ref |-> rf]
      BY <2>2, Zenon DEF NoHandler
    <2> QED
      BY <1>4, <1>5, <1>7, <2>1, <2>3, Zenon DEF Handlers, Kinds
  <1>9. emit' \subseteq Reports /\ told' \in Beliefs
    <2>1. i \in Ids \cup {NoId} /\ "PENDING_REPLACE" \in Statuses /\ 0 \in Nat
      BY <1>4, Zenon DEF Statuses
    <2>2. Report(i, "PENDING_REPLACE", 0, order[i].leaves) \in Reports
      BY <1>5, <2>1, ReportType, Zenon
    <2> QED
      BY <1>1, <1>2, <2>2, TellTypes, Zenon
  <1>10. /\ TypeOK' /\ IndicesInLockstep' /\ Uncrossed' /\ IdsOK'
         /\ l3' = l3 /\ orders_' = orders_ /\ pool' = pool /\ nextId' = nextId
         /\ \A k \in Ids :
                /\ order'[k].side = order[k].side
                /\ order'[k].price = order[k].price /\ order'[k].quantity = order[k].quantity
                /\ order'[k].leaves = order[k].leaves /\ order'[k].cum = order[k].cum
                /\ order'[k].prio = order[k].prio
    <2>1. pc' \in Phases
      BY <1>2, Zenon DEF Phases
    <2> QED
      BY <1>2, <1>4, <1>8, <1>9, <2>1, TagInv, Zenon
  <1>11. BookAgreesWithOrders'
    BY <1>1, <1>2, <1>6, <1>10, SMTT(30) DEF BookAgreesWithOrders, TypeOK
  <1>12. ReturnedOnce'
    BY <1>1, <1>2, <1>6, <1>8, <1>10, Zenon DEF ReturnedOnce
  <1>13. i < nextId
    BY <1>1, <1>3, <1>4, BoundsAssumption, SMTT(30) DEF IdsOK, Ids
  <1>14. KindOK' /\ NewOK' /\ RestOK' /\ FeedOK'
    BY <1>2, <1>4, <1>8, <1>10, <1>13, Zenon DEF KindOK, NewOK, RestOK, FeedOK, Working
  <1>15. ModifyOK'
    <2>1. l3[i].qty > 0 /\ l3[i].side = order[i].side
      BY <1>1, <1>3, <1>6, OwnAgrees, Zenon
    <2> QED
      BY <1>2, <1>3, <1>4, <1>8, <1>10, <2>1, SMTT(30) DEF ModifyOK, Working, Amended
  <1> QED
    BY <1>10, <1>11, <1>12, <1>14, <1>15, Zenon DEF Inv, HandlerOK

\* handleCancelOrderRequest preserves the invariant up to the removal itself.
LEMMA CancelOrderInv ==
    ASSUME Inv, NEW cl \in ClOrdIds \cup {NoClOrdId}, NEW oid \in Ids, NEW tag \in Tags,
           CancelOrder(cl, oid, tag)
    PROVE  Inv'
  <1> DEFINE i == Lookup(cl, oid)
  <1>1. /\ TypeOK /\ BookAgreesWithOrders /\ IndicesInLockstep /\ ReturnedOnce
        /\ KindOK /\ IdsOK
    BY Zenon DEF Inv, HandlerOK
  <1>2. /\ pc = "idle" /\ pc' = "cancel" /\ i # NoId /\ order' = [order EXCEPT ![i].tag = tag]
        /\ cur' = [NoHandler EXCEPT !.kind = "cancel", !.id = i, !.tag = order[i].tag]
        /\ Notify(Report(i, "PENDING_CANCEL", 0, order[i].leaves))
        /\ UNCHANGED <<l3Vars, indexVars, pool, nextId, nextPrio, smp, accTag, pub, mkt>>
    BY Zenon DEF CancelOrder
  <1>3. i \in orders_
    BY <1>1, <1>2, LookupOwn, Zenon
  <1> HIDE DEF i
  <1>4. i \in Ids /\ order[i] \in Order /\ cur = NoHandler /\ nextId \in Nat
    BY <1>1, <1>2, <1>3, SMTT(30) DEF TypeOK, KindOK
  <1>5. order[i].leaves \in Nat /\ order[i].tag \in Tags
    BY <1>4, Zenon DEF Order
  <1>6. cur.kind # "modify" /\ cur.kind # "new" /\ cur.id \notin Ids
    BY <1>4, ConstantTypes, Zenon DEF NoHandler
  <1>7. cur' \in Handlers /\ cur'.kind = "cancel" /\ cur'.id = i
    BY <1>2, <1>4, <1>5, ConstantTypes, Zenon DEF Handlers, Kinds
  <1>8. emit' \subseteq Reports /\ told' \in Beliefs
    <2>1. i \in Ids \cup {NoId} /\ "PENDING_CANCEL" \in Statuses /\ 0 \in Nat
      BY <1>4, Zenon DEF Statuses
    <2>2. Report(i, "PENDING_CANCEL", 0, order[i].leaves) \in Reports
      BY <1>5, <2>1, ReportType, Zenon
    <2> QED
      BY <1>1, <1>2, <2>2, TellTypes, Zenon
  <1>9. /\ TypeOK' /\ IndicesInLockstep' /\ Uncrossed' /\ IdsOK'
        /\ l3' = l3 /\ orders_' = orders_ /\ pool' = pool /\ nextId' = nextId
        /\ \A k \in Ids :
                /\ order'[k].side = order[k].side
                /\ order'[k].price = order[k].price /\ order'[k].quantity = order[k].quantity
                /\ order'[k].leaves = order[k].leaves /\ order'[k].cum = order[k].cum
                /\ order'[k].prio = order[k].prio
    <2>1. pc' \in Phases
      BY <1>2, Zenon DEF Phases
    <2> QED
      BY <1>2, <1>4, <1>7, <1>8, <2>1, TagInv, Zenon
  <1>10. BookAgreesWithOrders'
    BY <1>1, <1>2, <1>6, <1>9, SMTT(30) DEF BookAgreesWithOrders, TypeOK
  <1>11. ReturnedOnce'
    BY <1>1, <1>2, <1>6, <1>7, <1>9, Zenon DEF ReturnedOnce
  <1>12. i < nextId
    BY <1>1, <1>3, <1>4, BoundsAssumption, SMTT(30) DEF IdsOK, Ids
  <1>13. KindOK' /\ NewOK' /\ ModifyOK' /\ RestOK' /\ FeedOK'
    BY <1>2, <1>3, <1>4, <1>7, <1>9, <1>12
    DEF KindOK, NewOK, ModifyOK, RestOK, FeedOK, Working, Amended
  <1> QED
    BY <1>9, <1>10, <1>11, <1>13, Zenon DEF Inv, HandlerOK

\* handleNewOrderRequest preserves the invariant: the order it takes from the pool is
\* new, and its client order id is free.
LEMMA NewOrderInv ==
    ASSUME Inv, NEW client \in Clients \cup {NoClient}, NEW cl \in ClOrdIds \cup {NoClOrdId},
           NEW side \in Sides, NEW price \in NewPrices, NEW qty \in NewQtys,
           NEW tif \in NewTifs, NEW tag \in Tags,
           NewOrder(client, cl, side, price, qty, tif, tag)
    PROVE  Inv'
  <1> DEFINE i == nextId
             o == [client |-> client, cl |-> cl, side |-> side, price |-> price,
                   quantity |-> qty, leaves |-> qty, cum |-> 0, tif |-> tif,
                   tag |-> tag, prio |-> 0]
  <1>1. /\ TypeOK /\ BookAgreesWithOrders /\ IndicesInLockstep /\ ReturnedOnce
        /\ KindOK /\ IdsOK /\ Uncrossed
    BY Zenon DEF Inv, HandlerOK
  <1>2. /\ pc = "idle" /\ pc' = "smp" /\ i <= MaxId /\ order' = [order EXCEPT ![i] = o]
        /\ (cl # NoClOrdId => byClOrdId[cl] = NoId)
        /\ nextId' = i + 1 /\ pool' = [pool EXCEPT ![i] = @ + 1]
        /\ accTag' = [accTag EXCEPT ![i] = tag]
        /\ cur' = [NoHandler EXCEPT !.kind = "new", !.id = i, !.side = side,
                                    !.price = price, !.qty = qty, !.tag = tag]
        /\ Notify(Report(i, "PENDING_NEW", 0, qty))
        /\ l3' = l3 /\ mdQty' = mdQty /\ dirty' = dirty /\ lastEnd' = lastEnd
        /\ orders_' = orders_ /\ byClOrdId' = byClOrdId /\ byOrderId' = byOrderId
        /\ nextPrio' = nextPrio /\ smp' = smp /\ pub' = pub /\ mkt' = mkt
    BY Zenon DEF NewOrder, l3Vars, indexVars
  <1>3. price \in AllPrices /\ qty \in Nat /\ tif \in TimesInForce
    BY InputsAssumption, Zenon
  <1>4. /\ o \in Order /\ o.side = side /\ o.price = price /\ o.cl = cl /\ o.leaves = qty
        /\ o.cum = 0 /\ o.quantity = qty
    BY <1>3, Zenon DEF Order
  <1> HIDE DEF o
  <1>5. i \in Ids /\ cur = NoHandler /\ i \in Nat
    BY <1>1, <1>2, BoundsAssumption, SMTT(30) DEF TypeOK, Ids, KindOK
  <1>6. i \notin orders_ /\ l3[i] = Absent /\ mkt[i] = Absent
    BY <1>1, <1>5, SMTT(30) DEF IdsOK
  <1>7. /\ order' \in [Ids -> Order] /\ order'[i] = o
        /\ \A k \in Ids \ {i} : order'[k] = order[k]
    BY <1>1, <1>2, <1>4, <1>5, Zenon DEF TypeOK
  <1>8. /\ pool' \in [Ids -> Int] /\ pool'[i] = pool[i] + 1
        /\ \A k \in Ids \ {i} : pool'[k] = pool[k]
    BY <1>1, <1>2, <1>5 DEF TypeOK
  <1>9. /\ cur' \in Handlers /\ cur'.kind = "new" /\ cur'.id = i
        /\ cur'.side = side /\ cur'.price = price
    <2>1. cur' = [kind |-> "new", id |-> i, side |-> side, price |-> price,
                  qty |-> qty, prio |-> 0, requeue |-> FALSE, tag |-> tag, ref |-> NoId]
      BY <1>2, Zenon DEF NoHandler
    <2> QED
      BY <1>3, <1>5, <2>1, Zenon DEF Handlers, Kinds
  <1>10. cur.kind # "modify" /\ cur.kind # "new"
    BY <1>5, Zenon DEF NoHandler
  <1>11. emit' \subseteq Reports /\ told' \in Beliefs
    <2>1. i \in Ids \cup {NoId} /\ "PENDING_NEW" \in Statuses /\ 0 \in Nat
      BY <1>5, Zenon DEF Statuses
    <2>2. Report(i, "PENDING_NEW", 0, qty) \in Reports
      BY <1>3, <2>1, ReportType, Zenon
    <2> QED
      BY <1>1, <1>2, <2>2, TellTypes, Zenon
  <1>12. TypeOK'
    <2>1. nextId' \in 1 .. MaxId + 1 /\ accTag' \in [Ids -> Tags]
      BY <1>1, <1>2, <1>5, BoundsAssumption, SMTT(30) DEF TypeOK
    <2> QED
      BY <1>1, <1>2, <1>7, <1>8, <1>9, <1>11, <2>1, Zenon DEF TypeOK, Beliefs, Phases
  <1>13. \A k \in orders_ : k \in Ids /\ order'[k] = order[k]
    BY <1>1, <1>6, <1>7, Zenon DEF TypeOK
  <1>14. BookAgreesWithOrders'
    BY <1>1, <1>2, <1>10, <1>13, SMTT(30) DEF BookAgreesWithOrders
  <1>15. IndicesInLockstep' /\ Uncrossed'
    BY <1>1, <1>2, <1>13 DEF IndicesInLockstep, Uncrossed, Resting
  <1>16. ReturnedOnce'
    BY <1>1, <1>2, <1>6, <1>8, <1>9, <1>10 DEF ReturnedOnce
  <1>17. IdsOK'
    <2>1. \A k \in Ids : k \in Int
      BY DEF Ids
    <2> QED
      BY <1>1, <1>2, <1>5, <1>13, <2>1 DEF IdsOK
  <1>18. KindOK' /\ ModifyOK' /\ RestOK' /\ FeedOK'
    BY <1>2, <1>5, <1>9 DEF KindOK, ModifyOK, RestOK, FeedOK, Working, Amended
  <1>19. NewOK'
    BY <1>2, <1>3, <1>4, <1>5, <1>6, <1>7, <1>9 DEF NewOK, Working
  <1> QED
    BY <1>12, <1>14, <1>15, <1>16, <1>17, <1>18, <1>19, Zenon DEF Inv, HandlerOK

-----------------------------------------------------------------------------
\* Writing an amendment onto the order, before the book sees it.
LEMMA ApplyReplaceInv == ASSUME Inv, ApplyReplace PROVE Inv'
  <1> DEFINE i == cur.id
             leaves == IF order[i].cum >= cur.qty THEN 0 ELSE cur.qty - order[i].cum
             o == [order[i] EXCEPT !.quantity = cur.qty, !.price = cur.price, !.leaves = leaves]
  <1>1. /\ TypeOK /\ BookAgreesWithOrders /\ IndicesInLockstep /\ ReturnedOnce
        /\ KindOK /\ ModifyOK /\ IdsOK /\ Uncrossed
    BY Zenon DEF Inv, HandlerOK
  <1>2. /\ pc = "replace" /\ i \in Ids /\ order[i] \in Order /\ cur \in Handlers
        /\ cur.kind = "modify" /\ order[i].tag \in Tags
    <2>1. /\ pc = "replace" /\ i \in Ids /\ order[i] \in Order /\ cur \in Handlers
          /\ cur.kind = "modify"
      BY <1>1, Zenon DEF ApplyReplace, KindOK, TypeOK
    <2> QED
      BY <2>1, Zenon DEF Order
  <1>3. /\ leaves \in Nat /\ cur.qty \in Nat /\ cur.price \in AllPrices
        /\ leaves > 0 => leaves + order[i].cum = cur.qty
    BY <1>2 DEF Handlers, Order
  <1>4. /\ order' = [order EXCEPT ![i] = o]
        /\ accTag' = [accTag EXCEPT ![i] = order[i].tag]
        /\ pc' = IF leaves = 0 THEN "zero" ELSE "match"
        /\ Tell(Report(i, "REPLACED", order[i].cum, leaves))
        /\ l3' = l3 /\ mdQty' = mdQty /\ dirty' = dirty /\ lastEnd' = lastEnd
        /\ orders_' = orders_ /\ byClOrdId' = byClOrdId /\ byOrderId' = byOrderId
        /\ pool' = pool /\ nextId' = nextId /\ nextPrio' = nextPrio /\ smp' = smp
        /\ cur' = cur /\ pub' = pub /\ mkt' = mkt
    <2>1. order' = [order EXCEPT ![i].quantity = cur.qty, ![i].price = cur.price,
                                 ![i].leaves = leaves]
      BY Zenon DEF ApplyReplace
    <2>2. order' = [order EXCEPT ![i] = o]
      BY <1>1, <1>2, <2>1, Zenon DEF TypeOK
    <2> QED
      BY <2>2, Zenon DEF ApplyReplace, l3Vars, indexVars
  <1> HIDE DEF leaves
  <1>5. /\ o \in Order /\ o.quantity = cur.qty /\ o.price = cur.price /\ o.leaves = leaves
        /\ o.cum = order[i].cum /\ o.cl = order[i].cl /\ o.side = order[i].side
        /\ o.tif = order[i].tif /\ o.cum \in Nat
    BY <1>2, <1>3, Zenon DEF Order
  <1> HIDE DEF o
  <1>6. /\ order' \in [Ids -> Order] /\ order'[i] = o
        /\ \A k \in Ids \ {i} : order'[k] = order[k]
    BY <1>1, <1>2, <1>4, <1>5, Zenon DEF TypeOK
  <1>7. emit' \subseteq Reports /\ told' \in Beliefs
    <2>1. i \in Ids \cup {NoId} /\ "REPLACED" \in Statuses
      BY <1>2, Zenon DEF Statuses
    <2>2. Report(i, "REPLACED", order[i].cum, leaves) \in Reports
      BY <1>3, <1>5, <2>1, ReportType, Zenon
    <2> QED
      BY <1>1, <1>4, <2>2, TellTypes, Zenon
  <1>8. TypeOK'
    <2>1. accTag' \in [Ids -> Tags]
      BY <1>1, <1>2, <1>4, Zenon DEF TypeOK
    <2> QED
      BY <1>1, <1>4, <1>6, <1>7, <2>1, Zenon DEF TypeOK, Beliefs, Phases
  <1>9. BookAgreesWithOrders'
    BY <1>1, <1>2, <1>4, <1>6, Zenon DEF BookAgreesWithOrders, TypeOK
  <1>10. IndicesInLockstep' /\ Uncrossed'
    <2>1. \A k \in orders_ : order'[k].cl = order[k].cl
      BY <1>1, <1>5, <1>6, Zenon DEF TypeOK
    <2> QED
      BY <1>1, <1>4, <2>1, SameLockstep, Zenon DEF Uncrossed, Resting
  <1>11. ReturnedOnce'
    BY <1>1, <1>2, <1>4, Zenon DEF ReturnedOnce
  <1>12. IdsOK'
    BY <1>1, <1>4, <1>5, <1>6, Zenon DEF IdsOK
  <1>13. KindOK' /\ NewOK' /\ FeedOK'
    BY <1>1, <1>2, <1>4, Zenon DEF KindOK, NewOK, FeedOK, Working
  <1>14. ModifyOK'
    BY <1>1, <1>2, <1>3, <1>4, <1>5, <1>6, Zenon DEF ModifyOK, Working, Amended
  <1>15. RestOK'
    BY <1>4, <1>5, <1>6, Zenon DEF RestOK
  <1> QED
    BY <1>8, <1>9, <1>10, <1>11, <1>12, <1>13, <1>14, <1>15, Zenon DEF Inv, HandlerOK

-----------------------------------------------------------------------------
\* Resting what the engine left.

\* A new place in the queue is written onto the record and nothing else changes.
LEMMA PrioFields ==
    ASSUME NEW o \in Order, NEW prio \in Nat
    PROVE  LET p == [o EXCEPT !.prio = prio]
           IN  /\ p \in Order /\ p.prio = prio /\ p.cl = o.cl /\ p.side = o.side
               /\ p.price = o.price /\ p.quantity = o.quantity /\ p.leaves = o.leaves
               /\ p.cum = o.cum /\ p.tif = o.tif
  BY Zenon DEF Order

\* OrderBook::addOrder preserves the invariant: the order rests where nothing crosses it
\* and under ids that were free.
LEMMA RestNewInv == ASSUME Inv, RestNew PROVE Inv'
  <1> DEFINE i == cur.id
             o == [order[i] EXCEPT !.prio = nextPrio]
             new == Entry(order[i].side, order[i].price, order[i].leaves, nextPrio)
  <1>1. /\ TypeOK /\ BookAgreesWithOrders /\ IndicesInLockstep /\ ReturnedOnce
        /\ KindOK /\ NewOK /\ RestOK /\ IdsOK /\ Uncrossed
    BY Zenon DEF Inv, HandlerOK
  <1>2. /\ pc = "rest" /\ cur.kind = "new" /\ order[i].leaves > 0 /\ order[i].tif = "GTC"
        /\ pc' = "flush" /\ Silent /\ nextPrio' = nextPrio + 1
        /\ IndexOrder(i, order[i]) /\ L3Set(i, new, TRUE, TRUE)
        /\ order' = [order EXCEPT ![i].prio = nextPrio]
        /\ pool' = pool /\ nextId' = nextId /\ smp' = smp /\ cur' = cur /\ accTag' = accTag
        /\ pub' = pub /\ mkt' = mkt
    BY Zenon DEF RestNew, AddOrder, RestsRemainder
  <1>3. /\ i \in Ids /\ order[i] \in Order /\ nextPrio \in Nat /\ i < nextId
        /\ i \notin orders_ /\ mkt[i] = Absent
        /\ order[i].leaves + order[i].cum = order[i].quantity
        /\ order[i].price = cur.price
        /\ (order[i].cl # NoClOrdId => byClOrdId[order[i].cl] = NoId)
    BY <1>1, <1>2, Zenon DEF KindOK, TypeOK, NewOK, Working
  <1>4. /\ order[i].side \in Sides /\ order[i].leaves \in Nat /\ order[i].cl \in ClOrdIds \cup {NoClOrdId}
        /\ cur.price \in AllPrices
    BY <1>1, <1>3, Zenon DEF Order, TypeOK, Handlers
  <1>5. /\ o \in Order /\ o.prio = nextPrio /\ o.cl = order[i].cl /\ o.side = order[i].side
        /\ o.price = order[i].price /\ o.quantity = order[i].quantity
        /\ o.leaves = order[i].leaves /\ o.cum = order[i].cum /\ o.tif = order[i].tif
    BY <1>3, PrioFields, Zenon
  <1>6. order' = [order EXCEPT ![i] = o]
    BY <1>1, <1>2, <1>3, Zenon DEF TypeOK
  <1>7. /\ new \in BookEntry /\ new.side = order[i].side /\ new.price = order[i].price
        /\ new.qty = order[i].leaves /\ new.prio = nextPrio
    BY <1>2, <1>3, <1>4, EntryType, SMTT(30) DEF Entry
  <1> HIDE DEF o, new
  <1>8. /\ order' \in [Ids -> Order] /\ order'[i] = o
        /\ \A k \in Ids \ {i} : order'[k] = order[k]
    BY <1>1, <1>3, <1>5, <1>6, Zenon DEF TypeOK
  <1>9. /\ l3' \in [Ids -> BookEntry]
        /\ DOMAIN mdQty' \subseteq AllPrices /\ \A p \in DOMAIN mdQty' : mdQty'[p] \in Int
        /\ dirty' \subseteq Levels /\ lastEnd' \in BOOLEAN
    BY <1>1, <1>2, <1>3, <1>7, L3SetTypes, Zenon
  <1>10. l3'[i] = new /\ \A k \in Ids \ {i} : l3'[k] = l3[k]
    BY <1>1, <1>2, <1>3, Zenon DEF L3Set, TypeOK
  <1>11. Uncrossed'
    <2>1. Reachable(order[i].side, cur.price) = {}
      BY <1>1, <1>2, Zenon DEF RestOK
    <2> QED
      BY <1>1, <1>3, <1>4, <1>7, <1>9, <1>10, <2>1, PlaceUncrossed, Zenon
  <1>12. /\ orders_' = orders_ \cup {i} /\ byOrderId' = byOrderId \cup {i}
         /\ byClOrdId' = IF order[i].cl # NoClOrdId
                           THEN [byClOrdId EXCEPT ![order[i].cl] = i] ELSE byClOrdId
    BY <1>2, <1>3, Zenon DEF IndexOrder
  <1>13. /\ byClOrdId' \in [ClOrdIds -> Ids \cup {NoId}]
         /\ \A c \in ClOrdIds : byClOrdId'[c] = IF c = order[i].cl THEN i ELSE byClOrdId[c]
    BY <1>1, <1>3, <1>4, <1>12, NamesAssumption, Zenon DEF TypeOK
  <1>14. IndicesInLockstep'
    <2>1. \A k \in orders_ : order'[k].cl = order[k].cl /\ k # i
      BY <1>1, <1>3, <1>8, Zenon DEF TypeOK
    <2>2. \A k \in orders_ : order[k].cl # NoClOrdId =>
              byClOrdId[order[k].cl] = k /\ order[k].cl \in ClOrdIds /\ k # NoId
      BY <1>1, ConstantTypes, ZenonT(30) DEF IndicesInLockstep, TypeOK, Order
    <2>3. \A k \in orders_' : order'[k].cl # NoClOrdId => byClOrdId'[order'[k].cl] = k
      BY <1>3, <1>4, <1>5, <1>8, <1>12, <1>13, <2>1, <2>2, SMTT(30)
    <2>4. \A c \in ClOrdIds : byClOrdId'[c] # NoId =>
              byClOrdId'[c] \in orders_' /\ order'[byClOrdId'[c]].cl = c
      BY <1>1, <1>5, <1>8, <1>12, <1>13, <2>1, SMTT(30) DEF IndicesInLockstep
    <2> QED
      BY <1>1, <1>12, <2>3, <2>4, Zenon DEF IndicesInLockstep
  <1>15. TypeOK'
    <2>1. emit' \subseteq Reports /\ told' \in Beliefs
      BY <1>1, <1>2, TellTypes, Zenon
    <2>2. orders_' \subseteq Ids /\ byOrderId' \subseteq Ids /\ nextPrio' \in Nat \ {0}
      BY <1>1, <1>2, <1>3, <1>12, SMTT(30) DEF TypeOK
    <2> QED
      BY <1>1, <1>2, <1>8, <1>9, <1>13, <2>1, <2>2, Zenon DEF TypeOK, Beliefs, Phases
  <1>16. BookAgreesWithOrders'
    <2> SUFFICES ASSUME NEW k \in orders_'
                 PROVE  /\ l3'[k].side = order'[k].side /\ l3'[k].price = order'[k].price
                        /\ l3'[k].qty = order'[k].leaves /\ l3'[k].prio = order'[k].prio
                        /\ order'[k].leaves > 0
                        /\ order'[k].leaves + order'[k].cum = order'[k].quantity
      BY Zenon DEF BookAgreesWithOrders
    <2>1. CASE k = i
      BY <1>2, <1>3, <1>5, <1>7, <1>8, <1>10, <2>1, Zenon
    <2>2. CASE k # i
      <3>1. k \in orders_ /\ k \in Ids
        BY <1>1, <1>12, <2>2, Zenon DEF TypeOK
      <3> QED
        BY <1>1, <1>2, <1>8, <1>10, <2>2, <3>1, OwnAgrees, Zenon
    <2> QED
      BY <2>1, <2>2, Zenon
  <1>17. ReturnedOnce'
    BY <1>1, <1>2, <1>12, Zenon DEF ReturnedOnce
  <1>18. IdsOK'
    <2> SUFFICES ASSUME NEW k \in Ids
                 PROVE  /\ k >= nextId => k \notin orders_' /\ l3'[k] = Absent /\ mkt[k] = Absent
                        /\ mkt[k] # Absent => k \notin orders_'
                        /\ k \in orders_' => order'[k].tif = "GTC"
      BY <1>2, Zenon DEF IdsOK
    <2>1. CASE k = i
      <3>1. nextId \in Int /\ i \in Int
        BY <1>1, <1>3, SMTT(30) DEF TypeOK, Ids
      <3> QED
        BY <1>2, <1>3, <1>5, <1>8, <2>1, <3>1, SMTT(30)
    <2>2. CASE k # i
      BY <1>1, <1>8, <1>10, <1>12, <2>2, Zenon DEF IdsOK
    <2> QED
      BY <2>1, <2>2, Zenon
  <1>19. KindOK' /\ NewOK' /\ ModifyOK' /\ RestOK' /\ FeedOK'
    BY <1>2, <1>3, Zenon DEF KindOK, NewOK, ModifyOK, RestOK, FeedOK, Working, Amended
  <1> QED
    BY <1>11, <1>14, <1>15, <1>16, <1>17, <1>18, <1>19, Zenon DEF Inv, HandlerOK

\* OrderBook::modifyOrder preserves the invariant: the entry catches up with the amended
\* order, or the order leaves book, indices and pool together.
LEMMA RestModifiedInv == ASSUME Inv, RestModified PROVE Inv'
  <1> DEFINE i == cur.id
             prio == IF cur.requeue THEN nextPrio ELSE order[i].prio
             o == [order[i] EXCEPT !.prio = prio]
             new == Entry(order[i].side, order[i].price, order[i].leaves, prio)
  <1>1. /\ TypeOK /\ BookAgreesWithOrders /\ IndicesInLockstep /\ ReturnedOnce
        /\ KindOK /\ ModifyOK /\ RestOK /\ IdsOK /\ Uncrossed
    BY Zenon DEF Inv, HandlerOK
  <1>2. /\ pc = "rest" /\ cur.kind = "modify" /\ pc' = "flush" /\ Silent
        /\ L3Set(i, new, i \in orders_, TRUE)
        /\ nextPrio' = IF cur.requeue THEN nextPrio + 1 ELSE nextPrio
        /\ order' = [order EXCEPT ![i] = IF order[i].leaves = 0 THEN Recycled ELSE o]
        /\ IF order[i].leaves = 0 THEN UnindexOrder(i) /\ FreeOrder(i)
                                  ELSE UNCHANGED <<indexVars, pool>>
        /\ nextId' = nextId /\ smp' = smp /\ cur' = cur /\ accTag' = accTag
        /\ pub' = pub /\ mkt' = mkt
    BY Zenon DEF RestModified
  <1>3. /\ i \in Ids /\ order[i] \in Order /\ nextPrio \in Nat \ {0} /\ i \in orders_
        /\ order[i].price = cur.price
        /\ order[i].leaves > 0 => order[i].leaves + order[i].cum = order[i].quantity
    BY <1>1, <1>2, Zenon DEF KindOK, TypeOK, ModifyOK, Working, Amended
  <1>4. /\ order[i].side \in Sides /\ order[i].leaves \in Nat /\ order[i].prio \in Nat
        /\ cur.price \in AllPrices
    BY <1>1, <1>3, Zenon DEF Order, TypeOK, Handlers
  <1>5. prio \in Nat /\ nextPrio' \in Nat \ {0}
    BY <1>2, <1>3, <1>4, SMTT(30)
  <1> HIDE DEF prio
  <1>6. emit' \subseteq Reports /\ told' \in Beliefs
    BY <1>1, <1>2, TellTypes, Zenon
  <1>7. CASE order[i].leaves = 0
    <2>1. new = Absent
      BY <1>7, Zenon DEF Entry
    <2>2. /\ l3' \in [Ids -> BookEntry] /\ order' \in [Ids -> Order]
          /\ DOMAIN mdQty' \subseteq AllPrices /\ \A p \in DOMAIN mdQty' : mdQty'[p] \in Int
          /\ dirty' \subseteq Levels /\ lastEnd' \in BOOLEAN
          /\ orders_' \subseteq Ids /\ byOrderId' \subseteq Ids
          /\ byClOrdId' \in [ClOrdIds -> Ids \cup {NoId}]
          /\ orders_' = orders_ \ {i}
          /\ \A k \in Ids \ {i} : l3'[k] = l3[k] /\ order'[k] = order[k] /\ pool'[k] = pool[k]
          /\ pool' \in [Ids -> Int] /\ pool'[i] = pool[i] - 1
          /\ IndicesInLockstep' /\ Uncrossed' /\ IdsOK'
      <3>1. /\ L3Set(i, Absent, i \in orders_, TRUE) /\ UnindexOrder(i) /\ FreeOrder(i)
            /\ order' = [order EXCEPT ![i] = Recycled]
        BY <1>2, <1>7, <2>1, Zenon
      <3> QED
        BY <1>2, <1>3, <3>1, Removal, Zenon
    <2>3. TypeOK'
      BY <1>1, <1>2, <1>5, <1>6, <2>2, Zenon DEF TypeOK, Beliefs, Phases
    <2>4. BookAgreesWithOrders'
      BY <1>1, <1>2, <2>2, SMTT(30) DEF BookAgreesWithOrders, TypeOK
    <2>5. ReturnedOnce'
      BY <1>1, <1>2, <1>3, <2>2, SMTT(30) DEF ReturnedOnce
    <2>6. KindOK' /\ NewOK' /\ ModifyOK' /\ RestOK' /\ FeedOK'
      BY <1>1, <1>2, <1>3, Zenon DEF KindOK, NewOK, ModifyOK, RestOK, FeedOK, Working, Amended
    <2> QED
      BY <2>2, <2>3, <2>4, <2>5, <2>6, Zenon DEF Inv, HandlerOK
  <1>8. CASE order[i].leaves # 0
    <2>1. /\ orders_' = orders_ /\ byClOrdId' = byClOrdId /\ byOrderId' = byOrderId
          /\ pool' = pool /\ order' = [order EXCEPT ![i] = o]
      BY <1>2, <1>8, Zenon DEF indexVars
    <2>2. /\ o \in Order /\ o.prio = prio /\ o.cl = order[i].cl /\ o.side = order[i].side
          /\ o.price = order[i].price /\ o.quantity = order[i].quantity
          /\ o.leaves = order[i].leaves /\ o.cum = order[i].cum /\ o.tif = order[i].tif
      BY <1>3, <1>5, PrioFields, ZenonT(30)
    <2>3. /\ new \in BookEntry /\ new.side = order[i].side /\ new.price = order[i].price
          /\ new.qty = order[i].leaves /\ new.prio = prio
      BY <1>3, <1>4, <1>5, <1>8, EntryType, Zenon DEF Entry
    <2> HIDE DEF o, new
    <2>4. /\ order' \in [Ids -> Order] /\ order'[i] = o
          /\ \A k \in Ids \ {i} : order'[k] = order[k]
      BY <1>1, <1>3, <2>1, <2>2, Zenon DEF TypeOK
    <2>5. /\ l3' \in [Ids -> BookEntry]
          /\ DOMAIN mdQty' \subseteq AllPrices /\ \A p \in DOMAIN mdQty' : mdQty'[p] \in Int
          /\ dirty' \subseteq Levels /\ lastEnd' \in BOOLEAN
      BY <1>1, <1>2, <1>3, <2>3, L3SetTypes, Zenon
    <2>6. l3'[i] = new /\ \A k \in Ids \ {i} : l3'[k] = l3[k]
      BY <1>1, <1>2, <1>3, Zenon DEF L3Set, TypeOK
    <2>7. Uncrossed'
      <3>1. Reachable(order[i].side, cur.price) = {}
        BY <1>1, <1>2, <1>4, <1>8 DEF RestOK
      <3> QED
        BY <1>1, <1>3, <1>4, <2>3, <2>5, <2>6, <3>1, PlaceUncrossed, Zenon
    <2>8. IndicesInLockstep'
      <3>1. \A k \in orders_ : order'[k].cl = order[k].cl
        BY <1>1, <2>2, <2>4, Zenon DEF TypeOK
      <3> QED
        BY <1>1, <2>1, <3>1, SameLockstep, Zenon
    <2>9. TypeOK'
      BY <1>1, <1>2, <1>5, <1>6, <2>1, <2>4, <2>5, Zenon DEF TypeOK, Beliefs, Phases
    <2>10. BookAgreesWithOrders'
      <3> SUFFICES ASSUME NEW k \in orders_'
                   PROVE  /\ l3'[k].side = order'[k].side /\ l3'[k].price = order'[k].price
                          /\ l3'[k].qty = order'[k].leaves /\ l3'[k].prio = order'[k].prio
                          /\ order'[k].leaves > 0
                          /\ order'[k].leaves + order'[k].cum = order'[k].quantity
        BY Zenon DEF BookAgreesWithOrders
      <3>1. CASE k = i
        BY <1>3, <1>4, <1>8, <2>2, <2>3, <2>4, <2>6, <3>1
      <3>2. CASE k # i
        <4>1. k \in orders_ /\ k \in Ids
          BY <1>1, <2>1, Zenon DEF TypeOK
        <4> QED
          BY <1>1, <2>4, <2>6, <3>2, <4>1, OwnAgrees, Zenon
      <3> QED
        BY <3>1, <3>2, Zenon
    <2>11. ReturnedOnce'
      BY <1>1, <1>2, <2>1, Zenon DEF ReturnedOnce
    <2>12. IdsOK'
      <3> SUFFICES ASSUME NEW k \in Ids
                   PROVE  /\ k >= nextId => k \notin orders_ /\ l3'[k] = Absent /\ mkt[k] = Absent
                          /\ mkt[k] # Absent => k \notin orders_
                          /\ k \in orders_ => order'[k].tif = "GTC"
        BY <1>2, <2>1, Zenon DEF IdsOK
      <3>1. CASE k = i
        BY <1>1, <1>3, <2>2, <2>4, <3>1, Zenon DEF IdsOK
      <3>2. CASE k # i
        BY <1>1, <2>4, <2>6, <3>2, Zenon DEF IdsOK
      <3> QED
        BY <3>1, <3>2, Zenon
    <2>13. KindOK' /\ NewOK' /\ ModifyOK' /\ RestOK' /\ FeedOK'
      BY <1>1, <1>2, <1>3, Zenon DEF KindOK, NewOK, ModifyOK, RestOK, FeedOK, Working, Amended
    <2> QED
      BY <2>7, <2>8, <2>9, <2>10, <2>11, <2>12, <2>13, Zenon DEF Inv, HandlerOK
  <1> QED
    BY <1>7, <1>8, Zenon
=============================================================================
