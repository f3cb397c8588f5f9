--------------------------- MODULE ExchangeProofs ---------------------------
(***************************************************************************)
(* Machine-checked theorems about module Exchange, for every value of its  *)
(* constants: any number of ids, prices, clients and quantities.  The      *)
(* totals of quantities come first; other lemmas are in the modules above. *)
(***************************************************************************)
EXTENDS ExchangeActions, ExchangeOrders, FiniteSetTheorems

-----------------------------------------------------------------------------
\* Totals of quantities, and what the exchange decides and publishes by them: the
\* self-match scan, the fill-or-kill check, the level quantities sent to observers and
\* the phantom totals of the mirror.

\* There are as many numbers from 1 to n as n says.
LEMMA CountTo ==
    ASSUME NEW n \in Nat PROVE IsFiniteSet(1 .. n) /\ Cardinality(1 .. n) = n
  BY FS_Interval

\* A resting order of some quantity has that many units to trade.
LEMMA UnitsOfOne ==
    ASSUME NEW i, NEW n \in Nat
    PROVE  IsFiniteSet(OrderUnits(i, n)) /\ Cardinality(OrderUnits(i, n)) = n
  <1>1. IsFiniteSet(1 .. n) /\ Cardinality(1 .. n) = n
    BY CountTo, Zenon
  <1>2. IsFiniteSet({i}) /\ Cardinality({i}) = 1
    BY FS_Singleton, Zenon
  <1>3. IsFiniteSet({i} \X (1 .. n)) /\ Cardinality({i} \X (1 .. n)) = 1 * n
    BY <1>1, <1>2, FS_Product, ZenonT(30)
  <1> QED
    BY <1>3 DEF OrderUnits

\* A finite set of orders has a finite number of units: its total is a number.
LEMMA UnitsFinite ==
    ASSUME NEW entries, NEW S, IsFiniteSet(S), \A i \in S : entries[i].qty \in Nat
    PROVE  IsFiniteSet(Units(entries, S)) /\ QtyOf(entries, S) \in Nat
  <1> DEFINE block == [i \in S |-> OrderUnits(i, entries[i].qty)]
             blocks == {OrderUnits(i, entries[i].qty) : i \in S}
  <1>1. block \in Surjection(S, blocks)
    <2>1. block \in [S -> blocks] /\ \A t \in blocks : \E s \in S : block[s] = t
      BY Zenon
    <2> HIDE DEF block, blocks
    <2> QED
      BY <2>1, Zenon DEF Surjection
  <1>2. IsFiniteSet(blocks)
    <2> HIDE DEF block, blocks
    <2> QED
      BY <1>1, FS_Surjection, Zenon
  <1>3. \A T \in blocks : IsFiniteSet(T)
    <2>1. ASSUME NEW i \in S PROVE IsFiniteSet(OrderUnits(i, entries[i].qty))
      BY UnitsOfOne, Zenon
    <2> QED
      BY <2>1, Zenon
  <1>4. IsFiniteSet(UNION blocks)
    <2> HIDE DEF block, blocks
    <2> QED
      BY <1>2, <1>3, FS_UNION, Zenon
  <1> QED
    BY <1>4, FS_CardinalityType, Zenon DEF Units, QtyOf

\* The total of one order is its quantity.
LEMMA QtyOfOne ==
    ASSUME NEW entries, NEW i, entries[i].qty \in Nat
    PROVE  QtyOf(entries, {i}) = entries[i].qty
  <1>1. Units(entries, {i}) = OrderUnits(i, entries[i].qty)
    BY Zenon DEF Units
  <1> QED
    BY <1>1, UnitsOfOne, Zenon DEF QtyOf

\* Nothing has no quantity: an empty queue offers nothing to the scans of the engine.
LEMMA QtyOfNone == ASSUME NEW entries PROVE QtyOf(entries, {}) = 0
  <1>1. Units(entries, {}) = {}
    BY Zenon DEF Units
  <1> QED
    BY <1>1, FS_EmptySet, Zenon DEF QtyOf

\* The totals of two sets of orders without a common order add up, as the loops over price
\* levels and over the orders of a level do.
LEMMA QtyOfDisjoint ==
    ASSUME NEW entries, NEW S, NEW T, IsFiniteSet(S), IsFiniteSet(T), S \cap T = {},
           \A i \in S \cup T : entries[i].qty \in Nat
    PROVE  QtyOf(entries, S \cup T) = QtyOf(entries, S) + QtyOf(entries, T)
  <1>1. IsFiniteSet(Units(entries, S)) /\ IsFiniteSet(Units(entries, T))
        /\ QtyOf(entries, S) \in Nat /\ QtyOf(entries, T) \in Nat
    BY UnitsFinite, Zenon
  <1>2. Units(entries, S \cup T) = Units(entries, S) \cup Units(entries, T)
    BY Zenon DEF Units
  <1>3. Units(entries, S) \cap Units(entries, T) = {}
    <2> SUFFICES ASSUME NEW x, x \in Units(entries, S), x \in Units(entries, T) PROVE FALSE
      BY Zenon
    <2>1. PICK i \in S : x \in OrderUnits(i, entries[i].qty)
      BY Zenon DEF Units
    <2>2. PICK j \in T : x \in OrderUnits(j, entries[j].qty)
      BY Zenon DEF Units
    <2> QED
      BY <2>1, <2>2, Zenon DEF OrderUnits
  <1>4. Cardinality(Units(entries, S) \cup Units(entries, T))
          = Cardinality(Units(entries, S)) + Cardinality(Units(entries, T)) - Cardinality({})
    BY <1>1, <1>3, FS_Union
  <1>5. Cardinality({}) = 0
    BY FS_EmptySet, Zenon
  <1>6. QtyOf(entries, S \cup T) = Cardinality(Units(entries, S) \cup Units(entries, T))
    BY <1>2, Zenon DEF QtyOf
  <1>7. Cardinality(Units(entries, S)) = QtyOf(entries, S)
        /\ Cardinality(Units(entries, T)) = QtyOf(entries, T)
    BY Zenon DEF QtyOf
  <1> QED
    BY <1>1, <1>4, <1>5, <1>6, <1>7

\* The total of a set of orders depends on those orders' entries alone.
LEMMA QtyOfAgree ==
    ASSUME NEW e, NEW f, NEW S, \A i \in S : e[i].qty = f[i].qty
    PROVE  QtyOf(e, S) = QtyOf(f, S)
  <1>1. Units(e, S) = Units(f, S)
    <2>1. ASSUME NEW x PROVE x \in Units(e, S) <=> x \in Units(f, S)
      BY Zenon DEF Units
    <2> QED
      BY <2>1, Zenon
  <1> QED
    BY <1>1, Zenon DEF QtyOf

\* An order taken out of a set takes its quantity with it.
LEMMA QtyOfWithout ==
    ASSUME NEW e, NEW S, NEW i \in S, IsFiniteSet(S), \A k \in S : e[k].qty \in Nat
    PROVE  /\ IsFiniteSet(S \ {i}) /\ QtyOf(e, S \ {i}) \in Nat /\ QtyOf(e, S) \in Nat
           /\ QtyOf(e, S) = QtyOf(e, S \ {i}) + e[i].qty
  <1>1. IsFiniteSet(S \ {i}) /\ IsFiniteSet({i})
    BY FS_RemoveElement, FS_Singleton, Zenon
  <1>2. QtyOf(e, (S \ {i}) \cup {i}) = QtyOf(e, S \ {i}) + QtyOf(e, {i})
    BY <1>1, QtyOfDisjoint
  <1>3. (S \ {i}) \cup {i} = S
    BY Zenon
  <1>4. QtyOf(e, {i}) = e[i].qty
    BY QtyOfOne, Zenon
  <1>5. QtyOf(e, S \ {i}) \in Nat /\ QtyOf(e, S) \in Nat
    BY <1>1, UnitsFinite, Zenon
  <1> QED
    BY <1>1, <1>2, <1>3, <1>4, <1>5, Zenon

\* More orders have at least as much.
LEMMA QtyOfMonotone ==
    ASSUME NEW e, NEW S, NEW T, T \subseteq S, IsFiniteSet(S), \A k \in S : e[k].qty \in Nat
    PROVE  QtyOf(e, T) <= QtyOf(e, S)
  <1>1. IsFiniteSet(Units(e, S))
    BY UnitsFinite, Zenon
  <1>2. Units(e, T) \subseteq Units(e, S)
    BY Zenon DEF Units
  <1> QED
    BY <1>1, <1>2, FS_Subset, Zenon DEF QtyOf

\* What an order contributes to the total of a set.
Share(e, S, i) == IF i \in S THEN e[i].qty ELSE 0

\* A change of one entry, or of one order's membership, moves the total by that order's
\* share and by nothing else.
LEMMA OneShare ==
    ASSUME NEW e, NEW f, NEW i \in Ids, NEW S \in SUBSET Ids, NEW T \in SUBSET Ids,
           \A k \in Ids : e[k].qty \in Nat /\ f[k].qty \in Nat,
           S \ {i} = T \ {i}, \A k \in Ids \ {i} : f[k].qty = e[k].qty
    PROVE  /\ QtyOf(e, S) \in Nat /\ QtyOf(f, T) \in Nat
           /\ Share(e, S, i) \in Nat /\ Share(f, T, i) \in Nat
           /\ QtyOf(f, T) - Share(f, T, i) = QtyOf(e, S) - Share(e, S, i)
           /\ Share(e, S, i) <= QtyOf(e, S)
  <1>1. IsFiniteSet(S) /\ IsFiniteSet(T)
    BY CountTo, FS_Subset, BoundsAssumption, Zenon DEF Ids
  <1>2. /\ QtyOf(e, S) \in Nat /\ QtyOf(e, S \ {i}) \in Nat
        /\ QtyOf(e, S) = QtyOf(e, S \ {i}) + Share(e, S, i)
    <2>1. CASE i \in S
      BY <1>1, <2>1, QtyOfWithout, Zenon DEF Share
    <2>2. CASE i \notin S
      <3>1. S \ {i} = S /\ Share(e, S, i) = 0
        BY <2>2, Zenon DEF Share
      <3>2. QtyOf(e, S) \in Nat
        BY <1>1, UnitsFinite, Zenon
      <3>3. QtyOf(e, S \ {i}) = QtyOf(e, S)
        BY <3>1, Zenon
      <3> QED
        BY <3>1, <3>2, <3>3
    <2> QED
      BY <2>1, <2>2, Zenon
  <1>3. /\ QtyOf(f, T) \in Nat /\ QtyOf(f, T \ {i}) \in Nat
        /\ QtyOf(f, T) = QtyOf(f, T \ {i}) + Share(f, T, i)
    <2>1. CASE i \in T
      BY <1>1, <2>1, QtyOfWithout, Zenon DEF Share
    <2>2. CASE i \notin T
      <3>1. T \ {i} = T /\ Share(f, T, i) = 0
        BY <2>2, Zenon DEF Share
      <3>2. QtyOf(f, T) \in Nat
        BY <1>1, UnitsFinite, Zenon
      <3>3. QtyOf(f, T \ {i}) = QtyOf(f, T)
        BY <3>1, Zenon
      <3> QED
        BY <3>1, <3>2, <3>3
    <2> QED
      BY <2>1, <2>2, Zenon
  <1>4. QtyOf(f, T \ {i}) = QtyOf(e, S \ {i})
    <2>1. \A k \in T \ {i} : f[k].qty = e[k].qty
      BY Zenon
    <2>2. QtyOf(f, T \ {i}) = QtyOf(e, T \ {i})
      BY <2>1, QtyOfAgree, Zenon
    <2> QED
      BY <2>2, Zenon
  <1>5. Share(e, S, i) \in Nat /\ Share(f, T, i) \in Nat
    BY Zenon DEF Share
  <1> QED
    BY <1>2, <1>3, <1>4, <1>5

-----------------------------------------------------------------------------
\* The liquidity in reach that is ahead of an order, and the liquidity that counts for a
\* fill-or-kill order.
QtyAhead(j) == TotalQty({k \in InReach : Ahead(k, j)})
QtyCounted == TotalQty(Countable(cur.id, cur.price))

\* What the order in hand is still going to trade: an amendment counts before it is
\* applied.
ToTrade ==
    IF cur.kind = "modify" /\ pc \in {"smp", "fok", "replace"}
      THEN IF order[cur.id].cum >= cur.qty THEN 0 ELSE cur.qty - order[cur.id].cum
      ELSE order[cur.id].leaves

\* A new order has filled nothing before it matches.
FreshOK == pc \in {"smp", "fok"} /\ cur.kind = "new" =>
               order[cur.id].leaves = cur.qty /\ order[cur.id].cum = 0

\* Under CANCEL_NEWEST what is left of the order in hand runs out before the first of
\* its client's own orders.
Scanned == \A j \in InReach : SelfMatch(cur.id, j) => QtyAhead(j) >= ToTrade
ScanOK == smp = "CANCEL_NEWEST" /\ pc \in {"fok", "replace", "match"} => Scanned

\* The liquidity that counts for a fill-or-kill order covers what is left of it.
FokOK ==
    /\ pc = "match" /\ order[cur.id].tif = "FOK" => QtyCounted >= order[cur.id].leaves
    /\ pc = "rest" /\ order[cur.id].tif = "FOK" => order[cur.id].leaves = 0

ChecksInv == FreshOK /\ ScanOK /\ FokOK

-----------------------------------------------------------------------------
\* The quantities of the book's entries can be added up.
LEMMA BookQty ==
    ASSUME TypeOK, NEW S \in SUBSET Ids
    PROVE  TotalQty(S) \in Nat /\ (S = {} => TotalQty(S) = 0)
  <1>1. IsFiniteSet(S)
    BY CountTo, FS_Subset, BoundsAssumption, Zenon DEF Ids
  <1>2. \A k \in S : l3[k].qty \in Nat
    BY EntryFields, Zenon
  <1> QED
    BY <1>1, <1>2, UnitsFinite, QtyOfNone, Zenon DEF TotalQty

\* Taking quantity from the front of the queue leaves the rest of the queue as it was.
LEMMA FrontShrinks ==
    ASSUME TypeOK, NEW side \in Sides, NEW limit \in AllPrices,
           NEW f \in Reachable(side, limit), \A k \in Ids \ {f} : l3'[k] = l3[k],
           l3'[f].qty > 0 => /\ l3'[f].side = l3[f].side /\ l3'[f].price = l3[f].price
                             /\ l3'[f].prio = l3[f].prio
    PROVE  /\ Reachable(side, limit) \subseteq Ids /\ Reachable(side, limit)' \subseteq Ids
           /\ Reachable(side, limit)' \ {f} = Reachable(side, limit) \ {f}
           /\ f \in Reachable(side, limit)' <=> l3'[f].qty > 0
           /\ \A j, k \in Reachable(side, limit)' : Ahead(k, j)' <=> Ahead(k, j)
  <1>1. f \in Ids
    BY Zenon DEF Reachable, Resting
  <1>2. Reachable(side, limit) \subseteq Ids /\ Reachable(side, limit)' \subseteq Ids
    BY Zenon DEF Reachable, Resting
  <1>3. Reachable(side, limit)' \ {f} = Reachable(side, limit) \ {f}
    BY <1>1, Zenon DEF Reachable, Resting, Reaches
  <1>4. f \in Reachable(side, limit)' <=> l3'[f].qty > 0
    BY <1>1, Zenon DEF Reachable, Resting, Reaches
  <1>5. \A k \in Reachable(side, limit)' : /\ l3'[k].side = l3[k].side
                                          /\ l3'[k].price = l3[k].price /\ l3'[k].prio = l3[k].prio
    BY <1>2, <1>4, Zenon
  <1>6. \A j, k \in Reachable(side, limit)' : Ahead(k, j)' <=> Ahead(k, j)
    BY <1>5, Zenon DEF Ahead, Better
  <1> QED
    BY <1>2, <1>3, <1>4, <1>6, Zenon

\* Quantity taken from one order of a set is missing from the total of the set.
LEMMA OneShrinks ==
    ASSUME TypeOK, TypeOK', NEW f \in Ids, NEW A \in SUBSET Ids, NEW B \in SUBSET Ids,
           f \in A, A \ {f} = B \ {f}, f \in B <=> l3'[f].qty > 0, NEW q \in Nat,
           l3'[f].qty = l3[f].qty - q, \A k \in Ids \ {f} : l3'[k] = l3[k]
    PROVE  QtyOf(l3', B) = TotalQty(A) - q /\ TotalQty(A) \in Nat /\ QtyOf(l3', B) \in Nat
  <1>1. \A k \in Ids : l3[k].qty \in Nat
    BY EntryFields, Zenon
  <1>2. \A k \in Ids : l3'[k].qty \in Nat
    <2> SUFFICES ASSUME NEW k \in Ids PROVE l3'[k].qty \in Nat
      BY Zenon
    <2>1. l3'[k] \in BookEntry
      BY Zenon DEF TypeOK
    <2> QED
      BY <2>1 DEF BookEntry, Absent
  <1>3. \A k \in Ids \ {f} : l3'[k].qty = l3[k].qty
    BY Zenon
  <1>4. /\ QtyOf(l3, A) \in Nat /\ QtyOf(l3', B) \in Nat
        /\ QtyOf(l3', B) - Share(l3', B, f) = QtyOf(l3, A) - Share(l3, A, f)
    BY <1>1, <1>2, <1>3, OneShare
  <1>5. Share(l3, A, f) = l3[f].qty
    BY Zenon DEF Share
  <1>6. Share(l3', B, f) = l3'[f].qty
    BY <1>2 DEF Share
  <1> QED
    BY <1>1, <1>2, <1>4, <1>5, <1>6 DEF TotalQty

\* A fill takes the same quantity from the order in hand and from the liquidity ahead of
\* its client's own orders.
LEMMA FillScanOK == ASSUME Inv, Inv', ScanOK, NEW j \in Ids, Fill(j) PROVE ScanOK'
  <1> SUFFICES ASSUME NEW a, a = cur.id, NEW side, side = order[a].side, NEW limit, limit = cur.price,
                      NEW q, q = Lesser(order[a].leaves, l3[j].qty)
               PROVE  ScanOK'
    BY Zenon
  <1>1. /\ pc = "match" /\ pc' = pc /\ cur' = cur /\ smp' = smp /\ a \in Ids /\ j # a
        /\ j \in InReach /\ IsFront(Opposite(side), j)
        /\ ~PreventsMatch(a, j) /\ side \in Sides /\ limit \in AllPrices
        /\ q \in Nat \ {0} /\ q <= order[a].leaves /\ l3'[j].qty = l3[j].qty - q
        /\ l3'[j].qty > 0 => /\ l3'[j].side = l3[j].side /\ l3'[j].price = l3[j].price
                             /\ l3'[j].prio = l3[j].prio
        /\ \A k \in Ids \ {j} : l3'[k] = l3[k] /\ (k \in orders_' <=> k \in orders_)
        /\ \A k \in Ids \ {a, j} : order'[k] = order[k]
        /\ order[a].leaves \in Nat /\ order'[a].leaves = order[a].leaves - q
        /\ order'[a].side = side /\ order'[a].client = order[a].client
        /\ j \in orders_' => j \in orders_ /\ order'[j].client = order[j].client
    BY FillEffect
  <1> DEFINE S == Reachable(side, limit)
             T == Reachable(side, limit)'
  <1>2. TypeOK /\ TypeOK' /\ S = InReach /\ T = InReach'
    BY <1>1, Zenon DEF Inv, InReach
  <1>3. /\ S \subseteq Ids /\ T \subseteq Ids /\ T \ {j} = S \ {j} /\ (j \in T <=> l3'[j].qty > 0)
        /\ \A i, k \in T : Ahead(k, i)' <=> Ahead(k, i)
    <2>1. /\ TypeOK /\ side \in Sides /\ limit \in AllPrices /\ j \in Reachable(side, limit)
          /\ \A k \in Ids \ {j} : l3'[k] = l3[k]
          /\ l3'[j].qty > 0 => /\ l3'[j].side = l3[j].side /\ l3'[j].price = l3[j].price
                               /\ l3'[j].prio = l3[j].prio
      BY <1>1, <1>2, Zenon
    <2> QED
      BY <2>1, FrontShrinks, SMTT(30)
  <1>4. S \subseteq Resting(Opposite(side))
    BY Zenon DEF Reachable
  <1> HIDE DEF S, T
  <1>5. SUFFICES ASSUME smp = "CANCEL_NEWEST", NEW o \in T, SelfMatch(a, o)'
                 PROVE  QtyOf(l3', {k \in T : Ahead(k, o)'}) >= order'[a].leaves
    BY <1>1, <1>2, Zenon DEF ScanOK, Scanned, QtyAhead, ToTrade, TotalQty
  <1>6. o # j /\ o \in S /\ SelfMatch(a, o)
    <2>1. ~SelfMatch(a, j)
      BY <1>1, <1>5, Zenon DEF PreventsMatch
    <2>2. o \in orders_' /\ order'[a].client # NoClient /\ order'[a].client = order'[o].client
      BY <1>5, Zenon DEF SelfMatch
    <2>3. o # j
      BY <1>1, <2>1, <2>2, Zenon DEF SelfMatch
    <2>4. o \in Ids /\ o \in S
      BY <1>3, <2>3, Zenon
    <2>5. order'[o].client = order[o].client /\ o \in orders_
      BY <1>1, <2>2, <2>3, <2>4, Zenon
    <2> QED
      BY <1>1, <2>2, <2>3, <2>4, <2>5, Zenon DEF SelfMatch
  <1> DEFINE A == {k \in S : Ahead(k, o)}
             B == {k \in T : Ahead(k, o)'}
  <1>7. /\ A \in SUBSET Ids /\ B \in SUBSET Ids
        /\ A \ {j} = B \ {j} /\ (j \in B <=> l3'[j].qty > 0) /\ j \in A
    <2>1. Ahead(j, o)
      BY <1>1, <1>4, <1>6, Zenon DEF IsFront
    <2>2. j \in S
      BY <1>1, <1>2, Zenon
    <2> QED
      BY <1>3, <1>5, <2>1, <2>2, Zenon
  <1>8. TotalQty(A) >= order[a].leaves
    BY <1>1, <1>2, <1>5, <1>6, Zenon DEF ScanOK, Scanned, QtyAhead, ToTrade
  <1> HIDE DEF A
  <1>9. QtyOf(l3', B) = TotalQty(A) - q /\ TotalQty(A) \in Nat
    <2>1. /\ TypeOK /\ TypeOK' /\ q \in Nat \ {0} /\ l3'[j].qty = l3[j].qty - q
          /\ \A k \in Ids \ {j} : l3'[k] = l3[k]
      BY <1>1, <1>2, Zenon
    <2> HIDE DEF B
    <2> QED
      BY <2>1, <1>7, OneShrinks, SMTT(30)
  <1>10. /\ q \in Nat \ {0} /\ order[a].leaves \in Nat
         /\ order'[a].leaves = order[a].leaves - q
    BY <1>1, Zenon
  <1> QED
    BY <1>8, <1>9, <1>10

\* A fill takes the same quantity from a fill-or-kill order and from the liquidity that
\* counts for it: the front of the book counts whenever it may trade.
LEMMA FillFokOK == ASSUME Inv, Inv', FokOK, NEW j \in Ids, Fill(j) PROVE FokOK'
  <1> SUFFICES ASSUME NEW a, a = cur.id, NEW side, side = order[a].side, NEW limit, limit = cur.price,
                      NEW q, q = Lesser(order[a].leaves, l3[j].qty)
               PROVE  FokOK'
    BY Zenon
  <1>1. /\ pc = "match" /\ pc' = pc /\ cur' = cur /\ smp' = smp /\ a \in Ids /\ j # a
        /\ j \in InReach /\ IsFront(Opposite(side), j)
        /\ ~PreventsMatch(a, j) /\ side \in Sides /\ limit \in AllPrices
        /\ q \in Nat \ {0} /\ q <= order[a].leaves /\ l3'[j].qty = l3[j].qty - q
        /\ l3'[j].qty > 0 => /\ l3'[j].side = l3[j].side /\ l3'[j].price = l3[j].price
                             /\ l3'[j].prio = l3[j].prio
        /\ \A k \in Ids \ {j} : l3'[k] = l3[k] /\ (k \in orders_' <=> k \in orders_)
        /\ \A k \in Ids \ {a, j} : order'[k] = order[k]
        /\ order[a].leaves \in Nat /\ order'[a].leaves = order[a].leaves - q
        /\ order'[a].side = side /\ order'[a].client = order[a].client
        /\ order'[a].tif = order[a].tif
        /\ j \in orders_' => j \in orders_ /\ order'[j].client = order[j].client
    BY FillEffect, Zenon
  <1> DEFINE S == Reachable(side, limit)
             T == Reachable(side, limit)'
             O == OwnInReach(a, limit)
             P == OwnInReach(a, limit)'
             A == Countable(a, limit)
             B == Countable(a, limit)'
  <1>2. TypeOK /\ TypeOK' /\ S = InReach
    BY <1>1, Zenon DEF Inv, InReach
  <1>3. /\ S \subseteq Ids /\ T \subseteq Ids /\ T \ {j} = S \ {j} /\ (j \in T <=> l3'[j].qty > 0)
        /\ \A i, k \in T : Ahead(k, i)' <=> Ahead(k, i)
    <2>1. /\ TypeOK /\ side \in Sides /\ limit \in AllPrices /\ j \in Reachable(side, limit)
          /\ \A k \in Ids \ {j} : l3'[k] = l3[k]
          /\ l3'[j].qty > 0 => /\ l3'[j].side = l3[j].side /\ l3'[j].price = l3[j].price
                               /\ l3'[j].prio = l3[j].prio
      BY <1>1, <1>2, Zenon
    <2> QED
      BY <2>1, FrontShrinks, SMTT(30)
  <1>4. S \subseteq Resting(Opposite(side))
    BY Zenon DEF Reachable
  <1>5. /\ O = {k \in S : smp # "NONE" /\ SelfMatch(a, k)}
        /\ P = {k \in T : smp # "NONE" /\ SelfMatch(a, k)'}
        /\ A = {k \in S \ O : smp = "CANCEL_NEWEST" => \A i \in O : Ahead(k, i)}
        /\ B = {k \in T \ P : smp = "CANCEL_NEWEST" => \A i \in P : Ahead(k, i)'}
    BY <1>1, Zenon DEF OwnInReach, Countable
  <1>6. ASSUME NEW k \in Ids \ {j} PROVE SelfMatch(a, k)' <=> SelfMatch(a, k)
    BY <1>1, Zenon DEF SelfMatch
  <1> HIDE DEF S, T, O, P, A, B
  <1>7. O = P
    <2>1. smp # "NONE" => ~SelfMatch(a, j)
      BY <1>1, Zenon DEF PreventsMatch
    <2>2. smp # "NONE" => ~SelfMatch(a, j)'
      BY <1>1, <2>1, Zenon DEF SelfMatch
    <2> QED
      BY <1>3, <1>5, <1>6, <2>1, <2>2, Zenon
  <1>8. j \in S /\ j \notin O /\ \A i \in O : Ahead(j, i)
    BY <1>1, <1>2, <1>4, <1>5, Zenon DEF IsFront, PreventsMatch
  <1>9. /\ A \in SUBSET Ids /\ B \in SUBSET Ids
        /\ A \ {j} = B \ {j} /\ (j \in B <=> l3'[j].qty > 0) /\ j \in A
    <2>1. A \in SUBSET Ids /\ B \in SUBSET Ids /\ j \in A
      BY <1>3, <1>5, <1>8, Zenon
    <2>2. P \subseteq T
      BY <1>5, Zenon
    <2>3. j \in B <=> l3'[j].qty > 0
      BY <1>3, <1>5, <1>7, <1>8, <2>2, Zenon
    <2>4. A \ {j} = B \ {j}
      BY <1>3, <1>5, <1>7, <2>2, Zenon
    <2> QED
      BY <2>1, <2>3, <2>4, Zenon
  <1>10. QtyOf(l3', B) = TotalQty(A) - q /\ TotalQty(A) \in Nat
    <2>1. /\ TypeOK /\ TypeOK' /\ q \in Nat \ {0} /\ l3'[j].qty = l3[j].qty - q
          /\ \A k \in Ids \ {j} : l3'[k] = l3[k]
      BY <1>1, <1>2, Zenon
    <2> QED
      BY <2>1, <1>9, OneShrinks, SMTT(30)
  <1>11. order[a].tif = "FOK" => TotalQty(A) >= order[a].leaves
    BY <1>1, Zenon DEF FokOK, QtyCounted, A
  <1>12. QtyCounted' = QtyOf(l3', B)
    BY <1>1, Zenon DEF QtyCounted, TotalQty, B
  <1>13. order[a].tif = "FOK" => QtyOf(l3', B) >= order'[a].leaves
    <2>1. /\ q \in Nat \ {0} /\ order[a].leaves \in Nat
          /\ order'[a].leaves = order[a].leaves - q
      BY <1>1, Zenon
    <2> QED
      BY <2>1, <1>10, <1>11
  <1> QED
    BY <1>1, <1>12, <1>13, Zenon DEF FokOK

\* Cancelling one of the client's own orders takes nothing from the liquidity that counts
\* for its fill-or-kill order.
LEMMA CancelRestingChecks ==
    ASSUME Inv, Inv', FokOK, NEW j \in Ids, CancelResting(j) PROVE ChecksInv'
  <1> SUFFICES ASSUME NEW a, a = cur.id, NEW side, side = order[a].side, NEW limit, limit = cur.price
               PROVE  ChecksInv'
    BY Zenon
  <1>1. TypeOK /\ TypeOK' /\ KindOK /\ NewOK /\ ModifyOK
    BY Zenon DEF Inv, HandlerOK
  <1>2. /\ pc = "match" /\ pc' = pc /\ cur' = cur /\ smp' = smp /\ smp = "CANCEL_RESTING"
        /\ SelfMatch(a, j) /\ j \in Reachable(side, limit) /\ l3[j].side = Opposite(side)
        /\ L3Set(j, Absent, j \in orders_, FALSE) /\ UnindexOrder(j)
        /\ order' = [order EXCEPT ![j] = Recycled]
    BY Zenon DEF CancelResting, PreventsMatch, Hit, IsFront, Resting, DeleteOrder, L3Delete, Reachable
  <1>3. a \in Ids /\ order[a] \in Order /\ side \in Sides /\ limit \in AllPrices
    BY <1>1, <1>2, Zenon DEF KindOK, TypeOK, Order, Handlers
  <1>4. j # a /\ j \in orders_
    BY <1>1, <1>2, <1>3, Zenon DEF NewOK, ModifyOK, KindOK, Working, Opposite, Sides, SelfMatch
  <1>5. /\ l3'[j] = Absent /\ \A k \in Ids \ {j} : l3'[k] = l3[k] /\ order'[k] = order[k]
        /\ orders_' = orders_ \ {j} /\ order'[a] = order[a]
    BY <1>1, <1>2, <1>3, <1>4, Zenon DEF L3Set, UnindexOrder, TypeOK
  <1> DEFINE S == Reachable(side, limit)
             T == Reachable(side, limit)'
             A == Countable(a, limit)
             B == Countable(a, limit)'
  <1>6. T = S \ {j} /\ S \subseteq Ids
    <2>1. l3'[j].qty = 0
      BY <1>5 DEF Absent
    <2>2. ~(l3'[j].qty > 0)
      BY <2>1
    <2>3. \A k \in Ids \ {j} : l3'[k] = l3[k]
      BY <1>5, Zenon
    <2>4. TypeOK /\ side \in Sides /\ limit \in AllPrices /\ j \in Reachable(side, limit)
      BY <1>1, <1>2, <1>3, Zenon
    <2>5. S \subseteq Ids /\ T \ {j} = S \ {j} /\ j \notin T
      BY <2>2, <2>3, <2>4, FrontShrinks, SMTT(30)
    <2> HIDE DEF S, T
    <2> QED
      BY <2>5, Zenon
  <1>7. ASSUME NEW k \in Ids \ {j} PROVE SelfMatch(a, k)' <=> SelfMatch(a, k)
    BY <1>3, <1>4, <1>5, Zenon DEF SelfMatch
  <1>8. /\ A = {k \in S : ~SelfMatch(a, k)} /\ B = {k \in T : ~SelfMatch(a, k)'}
    BY <1>2, <1>5, Zenon DEF OwnInReach, Countable
  <1> HIDE DEF S, T, A, B
  <1>9. A = B /\ \A k \in A : l3'[k].qty = l3[k].qty
    BY <1>2, <1>5, <1>6, <1>7, <1>8, Zenon
  <1>10. QtyOf(l3', B) = TotalQty(A)
    BY <1>9, QtyOfAgree, Zenon DEF TotalQty
  <1> QED
    BY <1>2, <1>5, <1>10, Zenon DEF ChecksInv, FreshOK, ScanOK, FokOK, QtyCounted, TotalQty, A, B

\* The queue the order in hand faces depends on the book, the index and the clients.
LEMMA SameQueue ==
    ASSUME TypeOK, l3' = l3, orders_' = orders_, smp' = smp, cur' = cur, cur.id \in Ids,
           \A k \in Ids : order'[k].side = order[k].side /\ order'[k].client = order[k].client
    PROVE  QtyCounted' = QtyCounted /\ (ToTrade' = ToTrade => (Scanned' <=> Scanned))
  <1>1. InReach' = InReach /\ InReach \subseteq Ids
    BY Zenon DEF InReach, Reachable, Resting
  <1>2. ASSUME NEW j \in Ids PROVE SelfMatch(cur.id, j)' <=> SelfMatch(cur.id, j)
    BY Zenon DEF SelfMatch
  <1>3. \A j, k : Ahead(k, j)' <=> Ahead(k, j)
    BY Zenon DEF Ahead
  <1>4. \A j : QtyAhead(j)' = QtyAhead(j)
    BY <1>1, <1>3, Zenon DEF QtyAhead, TotalQty
  <1>5. OwnInReach(cur.id, cur.price)' = OwnInReach(cur.id, cur.price)
    BY <1>1, <1>2, Zenon DEF OwnInReach, InReach
  <1>6. Countable(cur.id, cur.price)' = Countable(cur.id, cur.price)
    BY <1>1, <1>3, <1>5 DEF Countable, InReach
  <1>7. QtyCounted' = QtyCounted
    BY <1>6, Zenon DEF QtyCounted, TotalQty
  <1>8. ToTrade' = ToTrade => (Scanned' <=> Scanned)
    BY <1>1, <1>2, <1>4, Zenon DEF Scanned
  <1> QED
    BY <1>7, <1>8, Zenon

-----------------------------------------------------------------------------
\* The scan looks as deep as the order will trade, so an acknowledged order passed it.
LEMMA ScanDepth == Inv /\ FreshOK => ScansWhatTrades
  <1> SUFFICES ASSUME Inv, FreshOK, pc = "smp"
               PROVE  EffectiveQty = IF order[cur.id].cum >= cur.qty THEN 0
                                     ELSE cur.qty - order[cur.id].cum
    BY Zenon DEF ScansWhatTrades
  <1>1. TypeOK /\ KindOK /\ ModifyOK /\ BookAgreesWithOrders
    BY Zenon DEF Inv, HandlerOK
  <1>2. cur.id \in Ids /\ cur.kind \in {"new", "modify"} /\ order[cur.id] \in Order /\ cur \in Handlers
    BY <1>1, Zenon DEF KindOK, Working, TypeOK
  <1>3. order[cur.id].leaves \in Nat /\ order[cur.id].cum \in Nat /\ cur.qty \in Nat
        /\ order[cur.id].quantity \in Nat
    BY <1>2, Zenon DEF Order, Handlers
  <1>4. CASE cur.kind = "new"
    BY <1>3, <1>4 DEF FreshOK, EffectiveQty
  <1>5. CASE cur.kind = "modify"
    <2>1. order[cur.id].leaves + order[cur.id].cum = order[cur.id].quantity
      BY <1>1, <1>5, Zenon DEF ModifyOK, Working, BookAgreesWithOrders
    <2> QED
      BY <1>3, <1>5, <2>1 DEF EffectiveQty
  <1> QED
    BY <1>2, <1>4, <1>5, Zenon

\* STEP 0 establishes what CANCEL_NEWEST promises.
LEMMA AcknowledgeChecks == ASSUME Inv, ChecksInv, Acknowledge PROVE ChecksInv'
  <1>1. TypeOK /\ KindOK /\ FreshOK
    BY Zenon DEF Inv, HandlerOK, ChecksInv
  <1>2. /\ pc = "smp" /\ pc' = "fok" /\ ~NewestSelfMatches /\ l3' = l3 /\ order' = order
        /\ orders_' = orders_ /\ smp' = smp /\ cur' = cur
    BY Zenon DEF Acknowledge, bookVars
  <1>3. cur.id \in Ids /\ cur.kind \in {"new", "modify"} /\ order[cur.id] \in Order /\ cur \in Handlers
    BY <1>1, <1>2, Zenon DEF KindOK, Working, TypeOK
  <1>4. order[cur.id].leaves \in Nat /\ order[cur.id].cum \in Nat /\ cur.qty \in Nat
    BY <1>3, Zenon DEF Order, Handlers
  <1>5. EffectiveQty = ToTrade /\ ToTrade' = ToTrade /\ EffectiveQty \in Nat
    <2>1. EffectiveQty = IF order[cur.id].cum >= cur.qty THEN 0 ELSE cur.qty - order[cur.id].cum
      BY <1>1, <1>2, ScanDepth, Zenon DEF ScansWhatTrades
    <2> QED
      BY <1>1, <1>2, <1>3, <1>4, <2>1 DEF FreshOK, ToTrade
  <1>6. Scanned' <=> Scanned
    <2>1. \A k \in Ids : order'[k].side = order[k].side /\ order'[k].client = order[k].client
      BY <1>2, Zenon
    <2> QED
      BY <1>1, <1>2, <1>3, <1>5, <2>1, SameQueue, Zenon
  <1>7. ScanOK'
    <2> SUFFICES ASSUME smp = "CANCEL_NEWEST", NEW j \in InReach, SelfMatch(cur.id, j)
                 PROVE  QtyAhead(j) >= EffectiveQty
      BY <1>2, <1>5, <1>6, Zenon DEF ScanOK, Scanned
    <2> DEFINE A == {k \in InReach : Ahead(k, j)}
    <2>1. A \in SUBSET Ids
      BY Zenon DEF InReach, Reachable, Resting
    <2>2. EffectiveQty > 0 => ~(TotalQty(A) < EffectiveQty)
      BY <1>2, Zenon DEF NewestSelfMatches, WouldSelfMatch, InReach
    <2> HIDE DEF A
    <2>3. TotalQty(A) \in Nat
      BY <1>1, <2>1, BookQty, Zenon
    <2>4. TotalQty(A) >= EffectiveQty
      BY <1>5, <2>2, <2>3
    <2> QED
      BY <2>4, Zenon DEF A, QtyAhead
  <1>8. FreshOK' /\ FokOK'
    BY <1>1, <1>2, Zenon DEF FreshOK, FokOK
  <1> QED
    BY <1>7, <1>8, Zenon DEF ChecksInv

\* STEP 1 hands a fill-or-kill order on only if the liquidity that counts covers it.
LEMMA PassFokChecks == ASSUME Inv, ChecksInv, PassFok PROVE ChecksInv'
  <1>1. TypeOK /\ KindOK /\ ModifyOK /\ IdsOK /\ FreshOK /\ ScanOK
    BY Zenon DEF Inv, HandlerOK, ChecksInv
  <1>2. /\ pc = "fok" /\ l3' = l3 /\ order' = order /\ orders_' = orders_ /\ smp' = smp /\ cur' = cur
        /\ order[cur.id].tif = "FOK" => CanFillCompletely(cur.id, cur.price, cur.qty)
        /\ pc' = IF cur.kind = "modify" THEN "replace"
                 ELSE IF order[cur.id].leaves = 0 THEN "zero" ELSE "match"
    BY Zenon DEF PassFok, bookVars
  <1>3. cur.id \in Ids /\ cur.kind \in {"new", "modify"}
    BY <1>1, <1>2, Zenon DEF KindOK, Working
  <1>4. ToTrade' = ToTrade
    BY <1>2, <1>3, Zenon DEF ToTrade
  <1>5. (Scanned' <=> Scanned) /\ QtyCounted' = QtyCounted
    <2>1. \A k \in Ids : order'[k].side = order[k].side /\ order'[k].client = order[k].client
      BY <1>2, Zenon
    <2> QED
      BY <1>1, <1>2, <1>3, <1>4, <2>1, SameQueue, Zenon
  <1>6. ScanOK'
    BY <1>1, <1>2, <1>5, Zenon DEF ScanOK
  <1>7. FreshOK' /\ FokOK'
    BY <1>1, <1>2, <1>3, <1>5, Zenon DEF FreshOK, FokOK, QtyCounted, CanFillCompletely
  <1> QED
    BY <1>6, <1>7, Zenon DEF ChecksInv

\* STEP 2 writes onto the order what the scan counted.
LEMMA ApplyReplaceChecks == ASSUME Inv, ChecksInv, ApplyReplace PROVE ChecksInv'
  <1>1. TypeOK /\ KindOK /\ ModifyOK /\ IdsOK /\ ScanOK
    BY Zenon DEF Inv, HandlerOK, ChecksInv
  <1> DEFINE left == IF order[cur.id].cum >= cur.qty THEN 0 ELSE cur.qty - order[cur.id].cum
  <1>2. /\ pc = "replace" /\ l3' = l3 /\ orders_' = orders_ /\ smp' = smp /\ cur' = cur
        /\ order' = [order EXCEPT ![cur.id].quantity = cur.qty, ![cur.id].price = cur.price,
                                  ![cur.id].leaves = left]
        /\ pc' = IF left = 0 THEN "zero" ELSE "match"
    BY Zenon DEF ApplyReplace, l3Vars, indexVars
  <1>3. cur.id \in Ids /\ cur.kind = "modify" /\ cur.id \in orders_ /\ order[cur.id] \in Order
    BY <1>1, <1>2, Zenon DEF KindOK, ModifyOK, Working, TypeOK
  <1> HIDE DEF left
  <1>4. /\ \A k \in Ids : order'[k].side = order[k].side /\ order'[k].client = order[k].client
        /\ order'[cur.id].leaves = left /\ order'[cur.id].tif = order[cur.id].tif
    <2>1. order \in [Ids -> Order]
      BY <1>1, Zenon DEF TypeOK
    <2> QED
      BY <1>2, <1>3, <2>1, Zenon DEF Order
  <1>5. ToTrade' = ToTrade
    BY <1>2, <1>3, <1>4, Zenon DEF ToTrade, left
  <1>6. Scanned' <=> Scanned
    BY <1>1, <1>2, <1>3, <1>4, <1>5, SameQueue, Zenon
  <1>7. ScanOK'
    BY <1>1, <1>2, <1>6, Zenon DEF ScanOK
  <1>8. FreshOK' /\ FokOK'
    BY <1>1, <1>2, <1>3, <1>4, Zenon DEF FreshOK, FokOK, IdsOK
  <1> QED
    BY <1>7, <1>8, Zenon DEF ChecksInv

\* The loop ends with nothing in reach, so a fill-or-kill order has nothing left.
LEMMA EndMatchChecks == ASSUME Inv, ChecksInv, EndMatch PROVE ChecksInv'
  <1>1. TypeOK /\ KindOK /\ FokOK
    BY Zenon DEF Inv, HandlerOK, ChecksInv
  <1>2. /\ pc = "match" /\ pc' = "rest" /\ order' = order /\ cur' = cur
        /\ order[cur.id].leaves > 0 => InReach = {}
    BY Zenon DEF EndMatch, bookVars, InReach
  <1>3. order[cur.id].leaves \in Nat
    BY <1>1, <1>2, Zenon DEF KindOK, TypeOK, Order
  <1>4. order[cur.id].tif = "FOK" => order[cur.id].leaves = 0
    <2> SUFFICES ASSUME order[cur.id].tif = "FOK", order[cur.id].leaves > 0 PROVE FALSE
      BY <1>3
    <2>1. Countable(cur.id, cur.price) = {}
      BY <1>2, Zenon DEF Countable, InReach
    <2>2. TotalQty(Countable(cur.id, cur.price)) = 0
      BY <2>1, QtyOfNone, Zenon DEF TotalQty
    <2> QED
      BY <1>1, <1>2, <1>3, <2>2 DEF FokOK, QtyCounted
  <1> QED
    BY <1>2, <1>4, Zenon DEF ChecksInv, FreshOK, ScanOK, FokOK

\* An order reaches the engine with all of its quantity.
LEMMA NewOrderChecks ==
    ASSUME Inv, NEW client, NEW cl, NEW side, NEW price, NEW qty, NEW tif, NEW tag,
           NewOrder(client, cl, side, price, qty, tif, tag)
    PROVE  ChecksInv'
  <1> DEFINE o == [client |-> client, cl |-> cl, side |-> side, price |-> price,
                   quantity |-> qty, leaves |-> qty, cum |-> 0, tif |-> tif,
                   tag |-> tag, prio |-> 0]
  <1>1. TypeOK
    BY Zenon DEF Inv
  <1>2. /\ pc' = "smp" /\ order' = [order EXCEPT ![nextId] = o] /\ nextId <= MaxId
        /\ cur' = [NoHandler EXCEPT !.kind = "new", !.id = nextId, !.side = side,
                                    !.price = price, !.qty = qty, !.tag = tag]
    BY Zenon DEF NewOrder
  <1>3. nextId \in Ids
    BY <1>1, <1>2, BoundsAssumption DEF TypeOK, Ids
  <1>4. cur'.id = nextId /\ cur'.qty = qty
    BY <1>2, Zenon DEF NoHandler
  <1>5. order'[nextId] = o
    BY <1>1, <1>2, <1>3, Zenon DEF TypeOK
  <1> QED
    BY <1>2, <1>4, <1>5 DEF ChecksInv, FreshOK, ScanOK, FokOK

\* CANCEL_NEWEST never reaches its backstop: nothing is ahead of the front of the book, so
\* an order whose client owns the front was turned away before it was acknowledged.
LEMMA DecidedUpFront == Inv /\ ScanOK => SelfMatchDecidedUpFront
  <1> SUFFICES ASSUME Inv, ScanOK, LateSelfMatch PROVE FALSE
    BY Zenon DEF SelfMatchDecidedUpFront
  <1>1. TypeOK /\ KindOK
    BY Zenon DEF Inv, HandlerOK
  <1>2. PICK j \in Ids : Hit(order[cur.id].side, cur.price, j) /\ SelfMatch(cur.id, j)
    BY Zenon DEF LateSelfMatch
  <1>3. pc = "match" /\ order[cur.id].leaves > 0 /\ smp = "CANCEL_NEWEST"
    BY Zenon DEF LateSelfMatch
  <1>4. j \in InReach /\ IsFront(Opposite(order[cur.id].side), j)
    BY <1>2, Zenon DEF Hit, IsFront, InReach, Reachable
  <1>5. {k \in InReach : Ahead(k, j)} = {}
    <2> SUFFICES ASSUME NEW k \in InReach, Ahead(k, j) PROVE FALSE
      BY Zenon
    <2>1. k \in Resting(Opposite(order[cur.id].side)) /\ k \in Ids
      BY Zenon DEF InReach, Reachable, Resting
    <2>2. k = j \/ Ahead(j, k)
      BY <1>4, <2>1, Zenon DEF IsFront
    <2>3. l3[k].side = l3[j].side
      BY <1>4, <2>1, Zenon DEF IsFront, Resting
    <2>4. l3[k].price \in Nat /\ l3[j].price \in Nat /\ l3[k].prio \in Nat /\ l3[j].prio \in Nat
      BY <1>1, <2>1, EntryFields, Zenon
    <2> QED
      BY <2>2, <2>3, <2>4 DEF Ahead, Better
  <1>6. QtyAhead(j) = 0
    BY <1>5, QtyOfNone, Zenon DEF QtyAhead, TotalQty
  <1>7. ToTrade = order[cur.id].leaves
    BY <1>3, Zenon DEF ToTrade
  <1>8. order[cur.id].leaves \in Nat
    BY <1>1, <1>3, Zenon DEF KindOK, TypeOK, Order
  <1> QED
    BY <1>2, <1>3, <1>4, <1>6, <1>7, <1>8 DEF ScanOK, Scanned

-----------------------------------------------------------------------------
\* Every level without a cached row is published as it is.
PubOK == /\ \A lv \in Levels \ dirty : pub[lv] = LevelQty(lv)
         /\ pc = "idle" => dirty = {}

\* The orders of a book that rest at a level, and those at a price that belong to no client.
AtLevel(book, lv) == {k \in Ids : book[k].qty > 0 /\ book[k].side = lv[1] /\ book[k].price = lv[2]}
PhantomsAt(book, own, p) == {k \in Ids \ own : book[k].qty > 0 /\ book[k].price = p}

\* The quantity of a level that no row was cached for has not changed.
LEMMA EntryLevels ==
    ASSUME TypeOK, TypeOK', EntryStep, NEW lv \in Levels, lv \notin dirty'
    PROVE  QtyOf(l3', AtLevel(l3', lv)) = QtyOf(l3, AtLevel(l3, lv))
  <1>1. PICK i \in Ids, new \in BookEntry :
            /\ l3' = [l3 EXCEPT ![i] = new] /\ dirty' = dirty \cup TouchedLevels(l3[i], new)
    BY Zenon DEF EntryStep, L3Set
  <1>2. l3'[i] = new /\ \A k \in Ids \ {i} : l3'[k] = l3[k]
    BY <1>1, Zenon DEF TypeOK
  <1>3. CASE l3[i] = new
    <2>1. l3' = l3
      BY <1>1, <1>3, Zenon DEF TypeOK
    <2> QED
      BY <2>1, Zenon
  <1>4. CASE l3[i] # new
    <2>1. lv = <<lv[1], lv[2]>>
      BY DEF Levels
    <2>2. /\ l3[i].qty > 0 => lv # <<l3[i].side, l3[i].price>>
          /\ new.qty > 0 => lv # <<new.side, new.price>>
      BY <1>1, <1>4, Zenon DEF TouchedLevels
    <2>3. i \notin AtLevel(l3, lv) /\ i \notin AtLevel(l3', lv)
      BY <1>2, <2>1, <2>2, Zenon DEF AtLevel
    <2>4. AtLevel(l3', lv) = AtLevel(l3, lv)
      BY <1>2, <2>3 DEF AtLevel
    <2>5. \A k \in AtLevel(l3, lv) : l3'[k].qty = l3[k].qty
      BY <1>2, <2>3, Zenon DEF AtLevel
    <2>6. QtyOf(l3', AtLevel(l3, lv)) = QtyOf(l3, AtLevel(l3, lv))
      BY <2>5, QtyOfAgree, Zenon
    <2> QED
      BY <2>4, <2>6, Zenon
  <1> QED
    BY <1>3, <1>4, Zenon

\* No handler leaves a level change unpublished: every level that is not cached for the
\* next flush is published as it is.
LEMMA PubNext == ASSUME Inv, Inv', PubOK, [Next]_vars PROVE PubOK'
  <1>1. TypeOK /\ TypeOK'
    BY Zenon DEF Inv
  <1>2. ASSUME NEW lv PROVE LevelQty(lv) = QtyOf(l3, AtLevel(l3, lv))
    BY Zenon DEF LevelQty, TotalQty, Resting, AtLevel
  <1>3. ASSUME NEW lv PROVE LevelQty(lv)' = QtyOf(l3', AtLevel(l3', lv))
    BY Zenon DEF LevelQty, TotalQty, Resting, AtLevel
  <1>4. \A lv \in Levels \ dirty : pub[lv] = QtyOf(l3, AtLevel(l3, lv))
    BY <1>2, Zenon DEF PubOK
  <1>5. CASE BookStill
    <2>1. \A lv \in Levels \ dirty' : pub'[lv] = QtyOf(l3', AtLevel(l3', lv))
      BY <1>4, <1>5, Zenon DEF BookStill
    <2>2. \A lv \in Levels \ dirty' : pub'[lv] = LevelQty(lv)'
      BY <2>1, <1>3, Zenon
    <2> QED
      BY <1>5, <2>2, Zenon DEF PubOK, BookStill
  <1>6. CASE Flush
    <2>1. l3' = l3 /\ dirty' = {} /\ \A lv \in Levels : pub'[lv] = IF lv \in dirty THEN LevelQty(lv) ELSE pub[lv]
      BY <1>6, Zenon DEF Flush
    <2>2. \A lv \in Levels : pub'[lv] = QtyOf(l3', AtLevel(l3', lv))
      BY <2>1, <1>2, <1>4, Zenon
    <2>3. \A lv \in Levels \ dirty' : pub'[lv] = LevelQty(lv)'
      BY <2>2, <1>3, Zenon
    <2> QED
      BY <2>1, <2>3, Zenon DEF PubOK
  <1>7. CASE EntryStep
    <2>1. pub' = pub /\ pc' # "idle" /\ dirty \subseteq dirty'
      BY <1>7, Zenon DEF EntryStep, L3Set
    <2>2. \A lv \in Levels \ dirty' : pub'[lv] = QtyOf(l3', AtLevel(l3', lv))
      BY <1>1, <1>4, <1>7, <2>1, EntryLevels, Zenon
    <2>3. \A lv \in Levels \ dirty' : pub'[lv] = LevelQty(lv)'
      BY <2>2, <1>3, Zenon
    <2> QED
      BY <2>1, <2>3, Zenon DEF PubOK
  <1> QED
    BY <1>5, <1>6, <1>7, StepEffect, Zenon

\* The observer's arithmetic: a change of one phantom entry moves the totals of the prices
\* it was and is at by what it had and has there.
LEMMA TotalsMove ==
    ASSUME NEW md, DOMAIN md \subseteq AllPrices, \A p \in DOMAIN md : md[p] \in Int,
           NEW old \in BookEntry, NEW new \in BookEntry, old # new,
           old.qty > 0 => old.price \in DOMAIN md,
           NEW to, to = PhantomTotals(md, old.price, old.qty,
                            IF new.qty = 0 THEN old.price ELSE new.price, new.qty)
    PROVE  /\ DOMAIN md \subseteq DOMAIN to
           /\ new.qty > 0 => new.price \in DOMAIN to
           /\ \A p \in DOMAIN to : to[p] =
                  (IF p \in DOMAIN md THEN md[p] ELSE 0)
                    - (IF old.qty > 0 /\ old.price = p THEN old.qty ELSE 0)
                    + (IF new.qty > 0 /\ new.price = p THEN new.qty ELSE 0)
  <1>1. /\ old.qty \in Nat /\ new.qty \in Nat
        /\ old.qty = 0 => old.price = 0 /\ old = Absent
        /\ new.qty = 0 => new = Absent
        /\ new.qty > 0 => new.price \in AllPrices
    BY BookEntryParts, Zenon
  <1>2. 0 \notin AllPrices
    BY BoundsAssumption DEF AllPrices, Prices, NullPrice
  <1>3. CASE new.qty = 0
    <2>1. old.qty > 0 /\ old.price \in DOMAIN md
      BY <1>1, <1>3
    <2>2. to = [md EXCEPT ![old.price] = md[old.price] + 0 - old.qty]
      BY <1>3, <2>1, Zenon DEF PhantomTotals
    <2> QED
      BY <1>1, <1>3, <2>1, <2>2
  <1>4. CASE new.qty > 0 /\ old.qty = 0
    <2>1. old.price \notin DOMAIN md /\ new.price # old.price
      BY <1>1, <1>2, <1>4, Zenon
    <2>2. CASE new.price \in DOMAIN md
      <3>1. to = [md EXCEPT ![new.price] = md[new.price] + new.qty - 0]
        BY <1>4, <2>1, <2>2, Zenon DEF PhantomTotals
      <3> QED
        BY <1>1, <1>4, <2>2, <3>1
    <2>3. CASE new.price \notin DOMAIN md
      <3>1. to = [p \in DOMAIN md \cup {new.price} |-> IF p = new.price THEN new.qty ELSE md[p]]
        BY <1>4, <2>1, <2>3, Zenon DEF PhantomTotals
      <3> QED
        BY <1>1, <1>4, <2>3, <3>1
    <2> QED
      BY <2>2, <2>3, Zenon
  <1>5. CASE new.qty > 0 /\ old.qty > 0 /\ old.price = new.price
    <2>1. to = [md EXCEPT ![new.price] = md[new.price] + new.qty - old.qty]
      BY <1>5, Zenon DEF PhantomTotals
    <2> QED
      BY <1>1, <1>5, <2>1
  <1>6. CASE new.qty > 0 /\ old.qty > 0 /\ old.price # new.price
    <2> DEFINE moved == [md EXCEPT ![old.price] = md[old.price] - old.qty]
    <2>1. DOMAIN moved = DOMAIN md
      BY Zenon
    <2>2. \A p \in DOMAIN md : moved[p] = md[p] - (IF old.price = p THEN old.qty ELSE 0)
      BY <1>1, <1>6
    <2>3. to = IF new.price \in DOMAIN moved
                 THEN [moved EXCEPT ![new.price] = moved[new.price] + new.qty - 0]
                 ELSE [p \in DOMAIN moved \cup {new.price} |-> IF p = new.price THEN new.qty ELSE moved[p]]
      <3>1. /\ to = PhantomTotals(md, old.price, old.qty, new.price, new.qty)
            /\ new.qty # 0 /\ new.price # old.price /\ old.price \in DOMAIN md
        BY <1>1, <1>6
      <3> QED
        BY <3>1, Zenon DEF PhantomTotals
    <2> HIDE DEF moved
    <2>4. CASE new.price \in DOMAIN md
      BY <1>1, <1>6, <2>1, <2>2, <2>3, <2>4
    <2>5. CASE new.price \notin DOMAIN md
      BY <1>1, <1>6, <2>1, <2>2, <2>3, <2>5
    <2> QED
      BY <2>4, <2>5, Zenon
  <1> QED
    BY <1>1, <1>3, <1>4, <1>5, <1>6

\* feed_md_level_quantity_ stays exact: the book changes while orders_ still tells, or
\* already tells, whose order it is.
LEMMA PhantomsNext ==
    ASSUME Inv, Inv', PhantomTotalsExact, [Next]_vars PROVE PhantomTotalsExact'
  <1> DEFINE Q(p) == QtyOf(l3, PhantomsAt(l3, orders_, p))
             R(p) == QtyOf(l3', PhantomsAt(l3', orders_', p))
  <1>1. TypeOK /\ TypeOK'
    BY Zenon DEF Inv
  <1>2. /\ \A p \in DOMAIN mdQty : mdQty[p] = Q(p)
        /\ \A p \in AllPrices \ DOMAIN mdQty : PhantomsAt(l3, orders_, p) = {}
    BY Zenon DEF PhantomTotalsExact, PhantomsAt, TotalQty
  <1>3. SUFFICES /\ \A p \in DOMAIN mdQty' : mdQty'[p] = R(p)
                 /\ \A p \in AllPrices \ DOMAIN mdQty' : PhantomsAt(l3', orders_', p) = {}
    BY Zenon DEF PhantomTotalsExact, PhantomsAt, TotalQty
  <1>4. CASE BookStill \/ Flush
    BY <1>2, <1>4, Zenon DEF BookStill, Flush, indexVars
  <1>5. CASE EntryStep
    <2>1. PICK i \in Ids, new \in BookEntry, last \in BOOLEAN :
              /\ L3Set(i, new, i \in orders_ \cup orders_', last)
              /\ orders_' \ {i} = orders_ \ {i}
              /\ i \in orders_ \ orders_' => new = Absent
              /\ i \in orders_' \ orders_ => l3[i] = Absent
      BY <1>5, Zenon DEF EntryStep
    <2>2. l3'[i] = new /\ \A k \in Ids \ {i} : l3'[k] = l3[k]
      BY <1>1, <2>1, Zenon DEF L3Set, TypeOK
    <2>3. ASSUME NEW p PROVE PhantomsAt(l3, orders_, p) \ {i} = PhantomsAt(l3', orders_', p) \ {i}
      BY <2>1, <2>2, Zenon DEF PhantomsAt
    <2>4. CASE i \in orders_ \cup orders_' \/ l3[i] = new
      <3>1. mdQty' = mdQty
        BY <2>1, <2>4, Zenon DEF L3Set
      <3>2. ASSUME NEW p PROVE i \in PhantomsAt(l3', orders_', p) <=> i \in PhantomsAt(l3, orders_, p)
        <4>1. CASE l3[i] = new
          <5>1. l3'[i] = l3[i]
            BY <2>2, <4>1, Zenon
          <5>2. ~(Absent.qty > 0)
            BY DEF Absent
          <5> QED
            BY <2>1, <2>2, <4>1, <5>1, <5>2, Zenon DEF PhantomsAt
        <4>2. CASE l3[i] # new
          <5>1. ~(Absent.qty > 0)
            BY DEF Absent
          <5> QED
            BY <2>1, <2>2, <2>4, <4>2, <5>1, Zenon DEF PhantomsAt
        <4> QED
          BY <4>1, <4>2, Zenon
      <3>3. ASSUME NEW p
            PROVE  /\ PhantomsAt(l3', orders_', p) = PhantomsAt(l3, orders_, p)
                   /\ \A k \in PhantomsAt(l3, orders_, p) : l3'[k].qty = l3[k].qty
        <4>1. PhantomsAt(l3', orders_', p) = PhantomsAt(l3, orders_, p)
          BY <2>3, <3>2
        <4>2. CASE l3[i] = new
          BY <2>2, <4>1, <4>2, Zenon DEF PhantomsAt
        <4>3. CASE i \in orders_ \cup orders_'
          <5>1. i \notin PhantomsAt(l3, orders_, p)
            BY <2>1, <4>3 DEF PhantomsAt, Absent
          <5> QED
            BY <2>2, <4>1, <5>1, Zenon DEF PhantomsAt
        <4> QED
          BY <2>4, <4>1, <4>2, <4>3, Zenon
      <3>4. ASSUME NEW p PROVE R(p) = Q(p)
        <4>1. QtyOf(l3', PhantomsAt(l3, orders_, p)) = QtyOf(l3, PhantomsAt(l3, orders_, p))
          BY <3>3, QtyOfAgree
        <4> QED
          BY <3>3, <4>1, Zenon
      <3> HIDE DEF Q, R
      <3> QED
        BY <1>2, <3>1, <3>3, <3>4, Zenon
    <2>5. CASE i \notin orders_ \cup orders_' /\ l3[i] # new
      <3> DEFINE old == l3[i]
      <3>1. /\ mdQty' = PhantomTotals(mdQty, old.price, old.qty,
                            IF new.qty = 0 THEN old.price ELSE new.price, new.qty)
            /\ orders_' = orders_ /\ old \in BookEntry
        <4>1. old \in BookEntry
          BY <1>1, Zenon DEF TypeOK
        <4>2. orders_' = orders_
          BY <2>1, <2>5
        <4> QED
          BY <2>1, <2>5, <4>1, <4>2, Zenon DEF L3Set
      <3>2. /\ old.qty \in Nat /\ new.qty \in Nat
            /\ old.qty > 0 => old.price \in AllPrices
        BY <3>1 DEF BookEntry, Absent
      <3>3. old.qty > 0 => old.price \in DOMAIN mdQty
        <4>1. old.qty > 0 => i \in PhantomsAt(l3, orders_, old.price)
          BY <2>5, Zenon DEF PhantomsAt
        <4> QED
          BY <1>2, <3>2, <4>1, Zenon
      <3>4. /\ DOMAIN mdQty \subseteq DOMAIN mdQty'
            /\ new.qty > 0 => new.price \in DOMAIN mdQty'
            /\ \A p \in DOMAIN mdQty' : mdQty'[p] =
                  (IF p \in DOMAIN mdQty THEN mdQty[p] ELSE 0)
                    - (IF old.qty > 0 /\ old.price = p THEN old.qty ELSE 0)
                    + (IF new.qty > 0 /\ new.price = p THEN new.qty ELSE 0)
        <4>1. DOMAIN mdQty \subseteq AllPrices /\ \A p \in DOMAIN mdQty : mdQty[p] \in Int
          BY <1>1, Zenon DEF TypeOK
        <4> HIDE DEF old
        <4> QED
          BY <2>5, <3>1, <3>3, <4>1, TotalsMove DEF old
      <3>5. ASSUME NEW p
            PROVE  /\ Q(p) \in Nat /\ R(p) \in Nat
                   /\ R(p) = Q(p) - (IF old.qty > 0 /\ old.price = p THEN old.qty ELSE 0)
                                 + (IF new.qty > 0 /\ new.price = p THEN new.qty ELSE 0)
        <4> DEFINE S == PhantomsAt(l3, orders_, p)
                   T == PhantomsAt(l3', orders_', p)
        <4>1. S \in SUBSET Ids /\ T \in SUBSET Ids
          BY Zenon DEF PhantomsAt
        <4>2. Share(l3, S, i) = IF old.qty > 0 /\ old.price = p THEN old.qty ELSE 0
          BY <2>5, Zenon DEF Share, PhantomsAt
        <4>3. Share(l3', T, i) = IF new.qty > 0 /\ new.price = p THEN new.qty ELSE 0
          BY <2>2, <2>5, Zenon DEF Share, PhantomsAt
        <4>4. S \ {i} = T \ {i}
          BY <2>3, Zenon
        <4> HIDE DEF S, T
        <4>5. /\ QtyOf(l3, S) \in Nat /\ QtyOf(l3', T) \in Nat
              /\ Share(l3, S, i) \in Nat /\ Share(l3', T, i) \in Nat
              /\ QtyOf(l3', T) - Share(l3', T, i) = QtyOf(l3, S) - Share(l3, S, i)
          <5>1. \A k \in Ids : l3[k].qty \in Nat /\ l3'[k].qty \in Nat
            BY <1>1, Quantities, Zenon
          <5>2. \A k \in Ids \ {i} : l3'[k].qty = l3[k].qty
            BY <2>2, Zenon
          <5> QED
            BY <4>1, <4>4, <5>1, <5>2, OneShare
        <4>6. QtyOf(l3', T) = QtyOf(l3, S) - Share(l3, S, i) + Share(l3', T, i)
          BY <4>5
        <4> QED
          BY <4>2, <4>3, <4>5, <4>6, Zenon DEF S, T
      <3>6. ASSUME NEW p \in AllPrices \ DOMAIN mdQty PROVE Q(p) = 0
        BY <1>2, QtyOfNone, Zenon
      <3>7. DOMAIN mdQty' \subseteq AllPrices
        BY <1>1, Zenon DEF TypeOK
      <3>8. ASSUME NEW p \in DOMAIN mdQty' PROVE mdQty'[p] = R(p)
        <4>1. (IF p \in DOMAIN mdQty THEN mdQty[p] ELSE 0) = Q(p)
          BY <1>2, <3>6, <3>7, Zenon
        <4> HIDE DEF Q, R, old
        <4> QED
          BY <3>4, <3>5, <4>1
      <3>9. ASSUME NEW p \in AllPrices \ DOMAIN mdQty' PROVE PhantomsAt(l3', orders_', p) = {}
        <4>1. PhantomsAt(l3, orders_, p) = {}
          BY <1>2, <3>4, Zenon
        <4>2. i \notin PhantomsAt(l3', orders_', p)
          BY <2>2, <3>4, Zenon DEF PhantomsAt
        <4> QED
          BY <2>3, <4>1, <4>2, Zenon
      <3> QED
        BY <3>8, <3>9, Zenon
    <2> QED
      BY <2>4, <2>5, Zenon
  <1> QED
    BY <1>4, <1>5, StepEffect, Zenon

-----------------------------------------------------------------------------
\* The theorems.

\* Every step preserves the invariant, as long as the self-match backstop in the
\* matching loop is not reached.
LEMMA NextInv == ASSUME Inv, SelfMatchDecidedUpFront, [Next]_vars PROVE Inv'
  <1>1. CASE Request
    BY <1>1, NewOrderInv, ModifyOrderInv, CancelOrderInv, RejectRequestInv, Zenon DEF Request
  <1>2. CASE MarketEvent
    BY <1>2, MarketNewInv, MarketChangeInv, MarketRestoreInv, MarketRequeueInv,
       MarketDeleteInv, MarketTradeInv, Zenon DEF MarketEvent
  <1>3. CASE Step
    BY <1>3, RejectSelfMatchInv, ControlInv, KillFokInv, ApplyReplaceInv, FillInv,
       CancelRestingInv, RestNewInv, DropNewInv, RestModifiedInv, CompleteCancelInv,
       FlushInv, FeedFillInv, RestMarketOrderInv, EndFeedInv, Zenon DEF Step
  <1>4. CASE UNCHANGED vars
    <2>1. /\ l3' = l3 /\ order' = order /\ orders_' = orders_ /\ byClOrdId' = byClOrdId
          /\ byOrderId' = byOrderId /\ pool' = pool /\ mdQty' = mdQty /\ nextId' = nextId
          /\ nextPrio' = nextPrio /\ dirty' = dirty /\ lastEnd' = lastEnd /\ smp' = smp
          /\ pc' = pc /\ cur' = cur /\ emit' = emit /\ told' = told /\ accTag' = accTag
          /\ pub' = pub /\ mkt' = mkt
      BY <1>4, Zenon DEF vars
    <2>2. /\ TypeOK' /\ BookAgreesWithOrders' /\ IndicesInLockstep' /\ ReturnedOnce'
          /\ Uncrossed'
      BY <2>1, ZenonT(30) DEF Inv, TypeOK, BookAgreesWithOrders, IndicesInLockstep, ReturnedOnce,
         Uncrossed, Resting
    <2>3. KindOK' /\ NewOK' /\ ModifyOK'
      BY <2>1, Zenon DEF Inv, HandlerOK, KindOK, NewOK, ModifyOK, Working, Amended
    <2>4. RestOK' /\ FeedOK' /\ IdsOK'
      BY <2>1, Zenon DEF Inv, HandlerOK, RestOK, FeedOK, IdsOK, Reachable, Resting, Working, Amended
    <2> QED
      BY <2>2, <2>3, <2>4, Zenon DEF Inv, HandlerOK
  <1> QED
    BY <1>1, <1>2, <1>3, <1>4, Zenon DEF Next

\* Init establishes what the pre-checks leave behind.
LEMMA InitChecks == Init => ChecksInv
  BY Zenon DEF Init, ChecksInv, FreshOK, ScanOK, FokOK

\* The pre-checks and what they promise hold through every step, and with them the
\* invariant, in which the backstop of the matching loop is never reached.
LEMMA ChecksNext == ASSUME Inv, ChecksInv, [Next]_vars PROVE Inv' /\ ChecksInv'
  <1>1. SelfMatchDecidedUpFront /\ TypeOK /\ KindOK /\ RestOK /\ ScanOK /\ FokOK
    BY DecidedUpFront, Zenon DEF Inv, HandlerOK, ChecksInv
  <1>2. Inv'
    BY <1>1, NextInv, Zenon
  <1> SUFFICES ChecksInv'
    BY <1>2, Zenon
  <1>3. ASSUME pc' \notin {"smp", "fok", "replace", "match", "rest"} PROVE ChecksInv'
    BY <1>3, Zenon DEF ChecksInv, FreshOK, ScanOK, FokOK
  <1>4. CASE Request
    <2>1. ASSUME NEW cl, NEW oid, NEW price, NEW qty, NEW tag, ModifyOrder(cl, oid, price, qty, tag)
          PROVE  ChecksInv'
      <3>1. pc' = "smp" /\ cur'.kind = "modify"
        BY <2>1, Zenon DEF ModifyOrder, NoHandler
      <3> QED
        BY <3>1, Zenon DEF ChecksInv, FreshOK, ScanOK, FokOK
    <2>2. ASSUME NEW cl, NEW oid, NEW tag, CancelOrder(cl, oid, tag) PROVE ChecksInv'
      BY <1>3, <2>2, Zenon DEF CancelOrder
    <2>3. ASSUME NEW ref, RejectRequest(ref) PROVE ChecksInv'
      BY <1>3, <2>3, Zenon DEF RejectRequest
    <2> QED
      BY <1>4, <2>1, <2>2, <2>3, NewOrderChecks, Zenon DEF Request
  <1>5. CASE MarketEvent
    <2>1. pc' \in {"packet", "feed"}
      BY <1>5, ZenonT(30) DEF MarketEvent, MarketNew, MarketChange, MarketRestore, MarketRequeue,
         MarketDelete, MarketTrade, Aggress
    <2> QED
      BY <1>3, <2>1, Zenon
  <1>6. CASE UNCHANGED vars
    <2>1. /\ l3' = l3 /\ order' = order /\ orders_' = orders_ /\ smp' = smp /\ pc' = pc /\ cur' = cur
      BY <1>6, Zenon DEF vars
    <2>2. ToTrade' = ToTrade /\ FreshOK'
      BY <2>1, Zenon DEF ToTrade, FreshOK, ChecksInv
    <2>3. CASE pc \in {"fok", "replace", "match", "rest"}
      <3>1. cur.id \in Ids
        BY <1>1, <2>3, Zenon DEF KindOK
      <3>2. QtyCounted' = QtyCounted /\ (Scanned' <=> Scanned)
        BY <1>1, <2>1, <2>2, <3>1, SameQueue, Zenon
      <3> QED
        BY <1>1, <2>1, <2>2, <3>2, Zenon DEF ChecksInv, ScanOK, FokOK
    <2>4. CASE pc \notin {"fok", "replace", "match", "rest"}
      BY <2>1, <2>2, <2>4, Zenon DEF ChecksInv, ScanOK, FokOK
    <2> QED
      BY <2>3, <2>4, Zenon
  <1>7. CASE Step
    <2>1. CASE RejectSelfMatch \/ KillFok \/ RestNew \/ DropNew \/ RestModified \/ CompleteCancel \/ Flush
      BY <1>3, <2>1, Zenon DEF RejectSelfMatch, RejectCurrent, KillFok, RestNew, DropNew, RestModified,
         CompleteCancel, Flush
    <2>2. CASE RestMarketOrder \/ EndFeed \/ \E j \in Ids : FeedFill(j)
      BY <1>3, <2>2, Zenon DEF RestMarketOrder, EndFeed, FeedFill
    <2>3. CASE CancelZeroLeaves
      <3>1. pc = "zero" /\ pc' = "rest" /\ order' = order /\ cur' = cur
        BY <2>3, Zenon DEF CancelZeroLeaves, bookVars
      <3> QED
        BY <1>1, <3>1, Zenon DEF RestOK, ChecksInv, FreshOK, ScanOK, FokOK
    <2>4. ASSUME NEW j \in Ids, Fill(j) PROVE ChecksInv'
      <3>1. pc' = "match"
        BY <2>4, Zenon DEF Fill
      <3>2. ScanOK' /\ FokOK'
        BY <1>1, <1>2, <2>4, FillScanOK, FillFokOK, Zenon
      <3> QED
        BY <3>1, <3>2, Zenon DEF ChecksInv, FreshOK
    <2>5. ASSUME NEW j \in Ids, CancelResting(j) PROVE ChecksInv'
      BY <1>1, <1>2, <2>5, CancelRestingChecks, Zenon
    <2> QED
      BY <1>7, <2>1, <2>2, <2>3, <2>4, <2>5, AcknowledgeChecks, PassFokChecks, ApplyReplaceChecks,
         EndMatchChecks, Zenon DEF Step
  <1> QED
    BY <1>4, <1>5, <1>6, <1>7, Zenon DEF Next

-----------------------------------------------------------------------------
\* The invariant and the promises of the pre-trade checks hold in every state the exchange
\* reaches.  Each needs the other: the invariant survives a match because no self-match
\* is left for the backstop in the loop, and the checks count quantities the invariant
\* keeps in the book.
THEOREM Checked == Spec => [](Inv /\ ChecksInv)
  <1>1. Init => Inv /\ ChecksInv
    BY InitInv, InitChecks, Zenon
  <1>2. Inv /\ ChecksInv /\ [Next]_vars => (Inv /\ ChecksInv)'
    BY ChecksNext, Zenon
  <1> QED
    BY <1>1, <1>2, PTL DEF Spec

\* The invariant alone, as most of the theorems below use it.
THEOREM Invariance == Spec => []Inv
  BY Checked, PTL

\* Quantities never go negative and ids stay in range: no fill takes more than the order
\* or the book entry has.
THEOREM TypeCorrect == Spec => []TypeOK
  <1>1. Inv => TypeOK
    BY Zenon DEF Inv
  <1> QED
    BY <1>1, Invariance, PTL

\* A simulator order and its L3 entry agree through fills, amendments, cancels and the
\* venue's own events.
THEOREM BookAgreement == Spec => []BookAgreesWithOrders
  <1>1. Inv => BookAgreesWithOrders
    BY Zenon DEF Inv
  <1> QED
    BY <1>1, Invariance, PTL

\* orders_ and the two id indices are erased and filled together on every path.
THEOREM Lockstep == Spec => []IndicesInLockstep
  <1>1. Inv => IndicesInLockstep
    BY Zenon DEF Inv
  <1> QED
    BY <1>1, Invariance, PTL

\* Every pooled Order is returned exactly once, whichever way it ends.
THEOREM PoolBalance == Spec => []ReturnedOnce
  <1>1. Inv => ReturnedOnce
    BY Zenon DEF Inv
  <1> QED
    BY <1>1, Invariance, PTL

\* Client and phantom liquidity never cross, not even inside a handler.
THEOREM NeverCrossed == Spec => []Uncrossed
  <1>1. Inv => Uncrossed
    BY Zenon DEF Inv
  <1> QED
    BY <1>1, Invariance, PTL

-----------------------------------------------------------------------------
\* Under CANCEL_NEWEST the scan before the match finds every self-match the match would
\* meet: the backstop in the matching loop is never reached.
THEOREM SelfMatches == Spec => []SelfMatchDecidedUpFront
  <1>1. Inv /\ ChecksInv => SelfMatchDecidedUpFront
    BY DecidedUpFront, Zenon DEF ChecksInv
  <1> QED
    BY <1>1, Checked, PTL

\* The scan goes as deep as the order is going to trade, also for the amendment of a
\* partly filled order.
THEOREM ScanIsDeepEnough == Spec => []ScansWhatTrades
  <1>1. Inv /\ ChecksInv => ScansWhatTrades
    BY ScanDepth, Zenon DEF ChecksInv
  <1> QED
    BY <1>1, Checked, PTL

\* A fill-or-kill order that canFillCompletely let through fills completely.
THEOREM FokFills == Spec => []FokFillsCompletely
  <1>1. Inv /\ ChecksInv => FokFillsCompletely
    BY Zenon DEF ChecksInv, FokOK, FokFillsCompletely
  <1> QED
    BY <1>1, Checked, PTL

-----------------------------------------------------------------------------
\* A fresh exchange has an empty book, publishes it as empty and mirrors an empty venue.
LEMMA InitViews ==
    Init => /\ PubOK /\ PhantomTotalsExact /\ TagOK /\ VenueOK /\ MirrorWithinVenue
            /\ PricedOK /\ PriosOK /\ PlaceOK /\ CacheOK /\ EventsAreClosed
  <1> SUFFICES ASSUME Init
               PROVE  /\ PubOK /\ PhantomTotalsExact /\ TagOK /\ VenueOK /\ MirrorWithinVenue
                      /\ PricedOK /\ PriosOK /\ PlaceOK /\ CacheOK /\ EventsAreClosed
    BY Zenon
  <1>1. \A i \in Ids : l3[i] = Absent /\ mkt[i] = Absent
    BY Zenon DEF Init
  <1>2. Absent.qty = 0 /\ Absent.prio = 0
    BY Zenon DEF Absent
  <1>3. TypeOK
    BY InitInv, Zenon DEF Inv
  <1>4. PubOK
    <2>1. ASSUME NEW lv \in Levels PROVE LevelQty(lv) = 0
      <3>1. {i \in Resting(lv[1]) : l3[i].price = lv[2]} = {}
        BY <1>1, <1>2 DEF Resting
      <3> QED
        BY <3>1, QtyOfNone, Zenon DEF LevelQty, TotalQty
    <2> QED
      BY <2>1, Zenon DEF PubOK, Init
  <1>5. PhantomTotalsExact
    <2>1. ASSUME NEW p PROVE PhantomsAt(l3, orders_, p) = {}
      BY <1>1, <1>2 DEF PhantomsAt
    <2> QED
      BY <2>1, QtyOfNone, Zenon DEF PhantomTotalsExact, TotalQty, PhantomsAt, Init
  <1>6. TagOK /\ PlaceOK /\ CacheOK /\ EventsAreClosed
    BY Zenon DEF Init, TagOK, PlaceOK, CacheOK, EventsAreClosed, Pending, Amended, Working
  <1>7. VenueOK /\ MirrorWithinVenue /\ NothingRestsAtNullPrice
    BY <1>1, <1>2 DEF Init, VenueOK, MirrorWithinVenue, NothingRestsAtNullPrice
  <1>8. PricedOK /\ PriosOK
    BY <1>1, <1>2, <1>7 DEF Init, PricedOK, PriosOK, Working, NoHandler
  <1> QED
    BY <1>4, <1>5, <1>6, <1>7, <1>8, Zenon

\* Between handlers every subscriber has the book as it is.
THEOREM BookIsPublished == Spec => []PublishedBookIsCurrent
  <1>1. Init => PubOK
    BY InitViews, Zenon
  <1>2. Inv /\ Inv' /\ PubOK /\ [Next]_vars => PubOK'
    BY PubNext, Zenon
  <1>3. PubOK => PublishedBookIsCurrent
    BY Zenon DEF PubOK, PublishedBookIsCurrent
  <1> QED
    BY <1>1, <1>2, <1>3, Invariance, PTL DEF Spec

\* The quantity the mirror keeps per price is that of the phantom orders there.
THEOREM MirrorTotals == Spec => []PhantomTotalsExact
  <1>1. Init => PhantomTotalsExact
    BY InitViews, Zenon
  <1>2. Inv /\ Inv' /\ PhantomTotalsExact /\ [Next]_vars => PhantomTotalsExact'
    BY PhantomsNext, Zenon
  <1> QED
    BY <1>1, <1>2, Invariance, PTL DEF Spec

\* A resting order carries the tag of the last request it accepted.
THEOREM TagsAreAccepted == Spec => []TagIsAccepted
  <1>1. Init => TagOK
    BY InitViews, Zenon
  <1>2. Inv /\ SelfMatchDecidedUpFront /\ TagOK /\ [Next]_vars => TagOK'
    BY TagNext, Zenon
  <1>3. TagOK => TagIsAccepted
    BY Zenon DEF TagOK, TagIsAccepted, Pending
  <1> QED
    BY <1>1, <1>2, <1>3, Invariance, SelfMatches, PTL DEF Spec

\* The venue's own book never crosses, and the mirror stays within it.
THEOREM Mirror == Spec => [](VenueOK /\ MirrorWithinVenue)
  <1>1. Init => VenueOK /\ MirrorWithinVenue
    BY InitViews, Zenon
  <1>2. Inv /\ Inv' /\ (VenueOK /\ MirrorWithinVenue) /\ [Next]_vars => (VenueOK /\ MirrorWithinVenue)'
    BY MirrorNext, Zenon
  <1> QED
    BY <1>1, <1>2, Invariance, PTL DEF Spec

\* A phantom order never shows more than its venue reports.
THEOREM MirrorIsWithin == Spec => []MirrorWithinVenue
  BY Mirror, PTL

\* A venue order that crosses the simulator's book meets client orders only.
THEOREM VenueFillsClients == Spec => []MarketOrdersFillClients
  <1>1. Inv /\ VenueOK /\ MirrorWithinVenue => MarketOrdersFillClients
    BY VenueTrades, Zenon
  <1> QED
    BY <1>1, Mirror, Invariance, PTL

-----------------------------------------------------------------------------
\* The theorems from here on are about an exchange that no amendment reaches without a
\* price.  One that does may leave an order resting without one (see the run
\* size_only_edit), and such an order reaches every order of the other side.

\* What rests has a price, priorities are drawn in order, and an amendment asks for a new
\* place exactly when it moves or grows the order.
THEOREM Places ==
    ASSUME NullPrice \notin AmendPrices
    PROVE  Spec => [](PricedOK /\ PriosOK /\ PlaceOK)
  <1>1. Init => PricedOK /\ PriosOK /\ PlaceOK
    BY InitViews, Zenon
  <1>2. Inv /\ Inv' /\ (VenueOK /\ MirrorWithinVenue) /\ (PricedOK /\ PriosOK /\ PlaceOK) /\ [Next]_vars
            => (PricedOK /\ PriosOK /\ PlaceOK)'
    BY PricedNext, PriosNext, PlaceNext, Zenon
  <1> QED
    BY <1>1, <1>2, Mirror, Invariance, PTL DEF Spec

\* Nothing rests without a price: cancelUnrestableRemainder catches every order that would.
THEOREM RestingHasPrice ==
    ASSUME NullPrice \notin AmendPrices PROVE Spec => []NothingRestsAtNullPrice
  <1>1. PricedOK => NothingRestsAtNullPrice
    BY Zenon DEF PricedOK
  <1> QED
    BY <1>1, Places, PTL

\* The batch of level rows a client request publishes is closed by F_END_EVENT.
THEOREM BatchesAreClosed ==
    ASSUME NullPrice \notin AmendPrices PROVE Spec => []EventsAreClosed
  <1>1. Init => CacheOK /\ EventsAreClosed
    BY InitViews, Zenon
  <1>2. Inv /\ SelfMatchDecidedUpFront /\ (PricedOK /\ PriosOK /\ PlaceOK) /\ (CacheOK /\ EventsAreClosed)
            /\ [Next]_vars => (CacheOK /\ EventsAreClosed)'
    BY CacheNext, EventsNext, Zenon
  <1> QED
    BY <1>1, <1>2, Places, Invariance, SelfMatches, PTL DEF Spec

\* An order that stays at its price keeps its place in the queue unless it grows; then it
\* goes behind everyone there.
THEOREM QueuePlaces ==
    ASSUME NullPrice \notin AmendPrices PROVE Spec => PlacesAreKept
  <1>1. Inv /\ Inv' /\ (VenueOK /\ MirrorWithinVenue) /\ (PricedOK /\ PriosOK /\ PlaceOK) /\ [Next]_vars
            => [KeepsPlaces]_vars
    BY PlacesStep, Zenon
  <1>2. Spec => [][KeepsPlaces]_vars
    BY <1>1, Places, Mirror, Invariance, PTL DEF Spec
  <1> QED
    BY <1>2, Zenon DEF PlacesAreKept, KeepsPlaces

-----------------------------------------------------------------------------
\* What owners were told stays tied to their orders in every reachable state.
THEOREM OwnersInvariance ==
    ASSUME NullPrice \notin AmendPrices
    PROVE  Spec => []Owners
  <1>1. Init => Owners
    BY InitOwners, Zenon
  <1>2. Inv /\ Owners /\ SelfMatchDecidedUpFront /\ [Next]_vars => Owners'
    BY NextOwners, Zenon
  <1> QED
    BY <1>1, <1>2, Invariance, SelfMatches, PTL DEF Spec

\* Between handlers every owner knows the truth: a live order rests with the fills and
\* leaves last reported, and one reported ended has left the book.
THEOREM OwnersAreTold ==
    ASSUME NullPrice \notin AmendPrices
    PROVE  Spec => []OwnersKnow
  <1>1. Owners => OwnersKnow
    <2> SUFFICES ASSUME OthersOK, pc = "idle", NEW i \in Ids
                 PROVE  IF i \in orders_
                          THEN /\ told[i].status \notin Terminal /\ told[i] # Untold
                               /\ told[i].cum = order[i].cum /\ told[i].leaves = order[i].leaves
                          ELSE told[i].status \in Terminal \/ told[i] = Untold
      BY Zenon DEF Owners, OwnersKnow
    <2>1. i \notin InHand
      BY Zenon DEF InHand, Working
    <2>2. \A b, o : Shows(b, o) => /\ b.status \notin Terminal /\ b # Untold
                                   /\ b.cum = o.cum /\ b.leaves = o.leaves
      BY DEF Shows, Lifecycle!Live, Terminal, Untold
    <2> QED
      BY <2>1, <2>2, Zenon DEF OthersOK, HasEnded
  <1> QED
    BY <1>1, OwnersInvariance, PTL

\* The exchange implements the life of an order: acknowledged or rejected once, every
\* fill the same on both legs, fills kept by amendments, nothing after the end.
THEOREM Refinement ==
    ASSUME NullPrice \notin AmendPrices
    PROVE  Spec => ImplementsLifecycle
  <1>1. Init => Lifecycle!LifeInit
    BY Zenon DEF Init, Lifecycle!LifeInit, Lifecycle!Unreported, Untold
  <1>2. Inv /\ Owners /\ SelfMatchDecidedUpFront /\ [Next]_vars => [Lifecycle!LifeNext]_told
    BY NextOwners, Zenon DEF LifeStep
  <1> QED
    BY <1>1, <1>2, Invariance, SelfMatches, OwnersInvariance, PTL DEF Spec, ImplementsLifecycle, Lifecycle!LifeSpec
=============================================================================
