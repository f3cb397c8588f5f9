-------------------------- MODULE HyperliquidMirror --------------------------
(***************************************************************************)
(* The Hyperliquid adapter (hyperliquid_exchange): it applies messages in  *)
(* the order they arrive, without a sequencer.  A level message is the     *)
(* whole book or a diff; a diff gives changed levels by price, but removed *)
(* ones by their index in the previous message's list of prices, so the    *)
(* adapter keeps that list of its own (l2_ref_levels_).                    *)
(***************************************************************************)
EXTENDS MirrorBook

VARIABLE ref    \* l2_ref_levels_: the venue's prices on each side, best first

\* The venue's list of prices, and what its diff says of a side: the indices of
\* the removed levels, bids from the back, and the changed ones, best first.
VenuePrices(v, side) == BestFirst(side, {p \in Prices : v[<<side, p>>] > 0})

RemovedIndices(m, side) ==
    LET before == VenuePrices(m.before, side)
        gone   == SelectSeq([i \in DOMAIN before |-> i],
                            LAMBDA i : m.after[<<side, before[i]>>] = 0)
    IN  IF side = "BUY" THEN Reverse(gone) ELSE gone

ChangedPrices(m, side) ==
    SelectSeq(VenuePrices(m.after, side), LAMBDA p : <<side, p>> \in Changed(m))

-----------------------------------------------------------------------------
\* Defect: every index is looked up in the list without the levels before it.
RemovedInTurn(prices, indices) ==
    FoldLeft(LAMBDA acc, i :
               LET left == SelectSeq(prices, LAMBDA p : ~Contains(acc, p))
               IN  IF i \in DOMAIN left THEN Append(acc, left[i]) ELSE acc,
             <<>>, indices)

\* processL2Diff: all indices are resolved before a level is removed.
RemovedPrices(prices, indices) ==
    LET known == SelectSeq(indices, LAMBDA i : i \in DOMAIN prices)
    IN  [k \in DOMAIN known |-> prices[known[k]]]

InsertPrice(prices, side, price) ==
    LET ahead == Len(SelectSeq(prices, LAMBDA p : Better(side, p, price)))
    IN  IF Contains(prices, price) THEN prices ELSE InsertAt(prices, ahead + 1, price)

\* applyPhantomLevelUpdate: a level the book does not have is added under priority 0,
\* whatever trades the update is too old to have seen; a level it has is reconciled.
AddLevel(acc, m, l, qty, time) ==
    [acc EXCEPT !.book = m.book, !.ledger = Added(Crossed(@, m, qty), acc.credit, l, time)]

ReconcileLevel(acc, l, qty, time) ==
    [book   |-> Reconcile(acc.book, acc.credit, l, qty, time),
     credit |-> DropReflected(acc.credit, l, time),
     ledger |-> Reconciled(acc.ledger, l)]

ApplyPhantomLevelUpdate(acc, l, qty, time) ==
    IF acc.book[l] # <<>> THEN ReconcileLevel(acc, l, qty, time)
    ELSE IF qty = 0 THEN acc
    ELSE AddLevel(acc, Place(acc.book, l[1], l[2], qty, FALSE, time), l, qty, time)

Mirror == [book |-> book, credit |-> credit, ledger |-> ledger]

\* The diff's updates of the mirror, one after the other.
Apply(updates, time) ==
    FoldLeft(LAMBDA acc, u :
               ApplyPhantomLevelUpdate([acc EXCEPT !.ledger = Quoted(@, u.level, u.qty, time)],
                                       u.level, u.qty, time),
             Mirror, updates)

LevelsOf(prices) ==
    [i \in DOMAIN prices["BUY"] |-> <<"BUY", prices["BUY"][i]>>]
    \o [i \in DOMAIN prices["SELL"] |-> <<"SELL", prices["SELL"][i]>>]

Updates(levels, v) == [i \in DOMAIN levels |-> [level |-> levels[i], qty |-> v[levels[i]]]]

Install(mirror) ==
    book' = mirror.book /\ credit' = mirror.credit /\ ledger' = mirror.ledger

\* The removed levels of both sides go to quantity 0, then the changed ones follow.
ApplyDiff(m, gone, changed) ==
    /\ Install(Apply(Updates(LevelsOf(gone), [l \in Levels |-> 0])
                     \o Updates(LevelsOf(changed), m.after), m.time))
    /\ bookTime' = m.time
    /\ ref' = [s \in Sides |->
         FoldLeft(LAMBDA prices, p : InsertPrice(prices, s, p),
                  SelectSeq(ref[s], LAMBDA p : ~Contains(gone[s], p)), changed[s])]

\* processL2Diff
ProcessL2Diff ==
    /\ diffs # <<>>
    /\ ApplyDiff(Head(diffs),
                 [s \in Sides |-> RemovedPrices(ref[s], RemovedIndices(Head(diffs), s))],
                 [s \in Sides |-> ChangedPrices(Head(diffs), s)])
    /\ diffs' = Tail(diffs)
    /\ UNCHANGED <<now, venue, events, prints, feed, drops, orders>>

\* processL2Snapshot: bids and then asks, best first, under priority 0.
ProcessL2Snapshot ==
    /\ feed = "down" /\ feed' = "up"
    /\ ref' = [s \in Sides |-> VenuePrices(venue, s)]
    /\ Restart(Rebuild(LevelsOf(ref'), now))
    /\ bookTime' = now
    /\ UNCHANGED <<credit, now, venue, events, diffs, prints, drops, orders>>

ApplyTrade(acc, m, time) ==
    [book   |-> m.book,
     credit |-> CreditTradedQty(acc.credit, m, time),
     ledger |-> [Printed(acc.ledger, m) EXCEPT !.ghost = @ \/ time <= bookTime]]

ApplyTrades(t) ==
    FoldLeft(LAMBDA acc, f :
               ApplyTrade(acc, Place(acc.book, f.side, f.price, f.qty, FALSE, t.time), t.time),
             Mirror, t.fills)

\* processTradesEvent: the prints of a message, one after the other.  Nothing keeps
\* them from coming behind the level message that has their trade already; they
\* then take liquidity a second time.
ProcessTradesEvent ==
    /\ prints # <<>>
    /\ Install(ApplyTrades(Head(prints)))
    /\ prints' = Tail(prints)
    /\ UNCHANGED <<bookTime, now, venue, events, diffs, feed, drops, orders, ref>>

HyperliquidInit == ref = [s \in Sides |-> VenuePrices(venue, s)]

HyperliquidMirrorNext ==
    \/ Tick /\ UNCHANGED ref
    \/ ProcessL2Diff
    \/ ProcessL2Snapshot
    \/ ProcessTradesEvent
    \/ ClientOrder /\ UNCHANGED ref
    \/ LoseConnection /\ UNCHANGED <<bookVars, orders, ref>>
=============================================================================
