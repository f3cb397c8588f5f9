--------------------------- MODULE CoinbaseMirror ---------------------------
(***************************************************************************)
(* The Coinbase adapter's sequencer (coinbase_exchange, its feed           *)
(* callbacks): level updates and prints wait in a priority queue for Hold, *)
(* one second, so that they are applied in the venue's order whichever     *)
(* channel brought them first; a snapshot rebuilds the book at once.       *)
(*                                                                         *)
(* An iteration of the exchange thread runs the callbacks for what has     *)
(* arrived, releases events, and then takes a client's request.            *)
(***************************************************************************)
EXTENDS MirrorBook

CONSTANTS
    Hold,        \* ONE_SECOND_NS, in ticks
    Following    \* whether the book a subscriber makes of its rows is kept track of

ASSUME HoldAssumption == Hold \in Nat \ {0} /\ Following \in BOOLEAN

VARIABLES
    releasing, \* processSequencedEvents is in its loop
    pending,   \* pending_events
    lastTime,  \* last_event_time: the latest time seen, dispatched or not
    nextSid,   \* next_sequence_id
    nextSeq,   \* sequence_num of the venue's next message
    buffer,    \* level_update_buffer_: the rows that wait, by level, with their times
    rowSeq,    \* the sequence of its last row
    lastPub,   \* last_published_level_seq_num
    cache,     \* md_level_update_cache_: the rows that wait, by level
    shown,     \* the book a subscriber has made of the rows it was sent
    due,       \* the symbol waits in pending_md_subscription_[LEVEL2]
    latest,    \* history: the last event dispatched
    resetTime  \* history: when the book was last rebuilt

sequencer == <<pending, lastTime, nextSid, nextSeq>>
rowVars == <<buffer, rowSeq, lastPub, cache, shown>>
coinbaseVars == <<releasing, sequencer, rowVars, due, latest, resetTime>>

NoRows == [l \in {} |-> 0]

\* Rows for the levels of b that a change made different.
RowsOf(b, after) == [l \in {k \in Levels : b[k] # after[k]} |-> Total(after[l])]
AllRows(b) == [l \in Levels |-> Total(b[l])]
WithRow(rows, l, row) == [k \in DOMAIN rows \cup {l} |-> IF k = l THEN row ELSE rows[k]]
Quantities(rows) == [l \in DOMAIN rows |-> rows[l].qty]

-----------------------------------------------------------------------------
\* The callbacks only queue; sequence ids are given in the order the loops visit
\* a batch, and popping the highest first restores the venue's order.

Enqueue(type, batch, time) ==
    /\ pending' = pending \cup
         {[type |-> type, time |-> time, received |-> now, seq |-> nextSeq,
           sid |-> nextSid + Len(batch) - i, side |-> batch[i].side,
           price |-> batch[i].price, qty |-> batch[i].qty] : i \in DOMAIN batch}
    /\ nextSid' = nextSid + Len(batch)
    /\ nextSeq' = nextSeq + 1
    /\ lastTime' = Max({lastTime, time})

OnLevel2Updates ==
    /\ diffs # <<>>
    /\ LET m == Head(diffs)
           updates == [l \in Changed(m) |-> [side |-> l[1], price |-> l[2], qty |-> m.after[l]]]
       IN  \E order \in SetToSeqs(Changed(m)) :
             Enqueue("LEVEL_UPDATE", [i \in DOMAIN order |-> updates[order[i]]], m.time)
    /\ diffs' = Tail(diffs)
    /\ UNCHANGED prints

OnMarketTrades ==
    /\ prints # <<>>
    /\ Enqueue("TRADE", Head(prints).fills, Head(prints).time)
    /\ prints' = Tail(prints)
    /\ UNCHANGED diffs

\* onMarketDataDisconnected: the subscription is pending again, and the feed that
\* lost its connection is restarted.
OnMarketDataDisconnected ==
    /\ LoseConnection
    /\ due' = TRUE
    /\ UNCHANGED <<bookVars, orders, releasing, sequencer, rowVars, latest, resetTime>>

\* Defect: the rows of the old book stay in the batch.
KeepBatch == pending' = {} /\ UNCHANGED <<buffer, lastPub>>

\* What a snapshot discards: the queue and the batch in flight.
DiscardEvents == pending' = {} /\ buffer' = NoRows /\ lastPub' = 0

OnLevel2Snapshot ==
    /\ feed = "down"
    /\ feed' = "up"
    /\ \E levels \in SetToSeqs({l \in Levels : venue[l] > 0}) :
         /\ Restart(Rebuild(levels, Counter))
         /\ bookTime' = IF levels = <<>> THEN bookTime ELSE now
    /\ DiscardEvents
    \* Subscribers that have had their snapshot get it only when none was due.
    /\ shown' = IF due \/ ~Following THEN shown ELSE AllRows(book')
    /\ due' = FALSE
    /\ cache' = NoRows
    /\ nextSeq' = nextSeq + 1
    /\ resetTime' = now
    /\ UNCHANGED <<credit, now, venue, events, diffs, prints, drops, orders, releasing, lastTime, nextSid,
                   rowSeq, latest>>

ProcessData ==
    /\ ~releasing
    /\ \/ /\ OnLevel2Updates \/ OnMarketTrades
          /\ UNCHANGED <<bookVars, now, venue, events, feed, drops, orders, ledger, releasing, rowVars,
                         due, latest, resetTime>>
       \/ OnLevel2Snapshot
       \/ OnMarketDataDisconnected

-----------------------------------------------------------------------------
\* Releasing events (processSequencedEvents).

\* Defect: on a tie the level update goes first.
LevelFirst(e, f) ==
    \/ e.time < f.time
    \/ e.time = f.time /\ e.type = "LEVEL_UPDATE" /\ f.type = "TRADE"
    \/ e.time = f.time /\ e.type = f.type /\ e.sid > f.sid

\* EventCompare: e is released before f.
Before(e, f) ==
    \/ e.time < f.time
    \/ e.time = f.time /\ e.type = "TRADE" /\ f.type = "LEVEL_UPDATE"
    \/ e.time = f.time /\ e.type = f.type /\ e.sid > f.sid

\* Defect: one tick is taken off the second.
ReadyEarly(e) == (lastTime > 0 /\ e.time + Hold <= lastTime + 1) \/ now - e.received >= Hold

Ready(e) == (lastTime > 0 /\ e.time + Hold <= lastTime) \/ now - e.received >= Hold

IsTop(e) == e \in pending /\ \A f \in pending : f = e \/ Before(e, f)

\* The cache's rows go out (flushMarketDataCaches).
Flushed == (RowsOf(book, book') @@ cache) @@ shown

FlushMarketDataCaches ==
    /\ shown' = IF Following THEN Flushed ELSE shown
    /\ cache' = NoRows
    /\ UNCHANGED <<buffer, rowSeq, lastPub>>

\* The rows of a level update: a new level's go out with the cache, a known one's
\* wait there.  The event's own row joins the batch, once the batch has been sent
\* because the event is of another message; the boundary then moves to the
\* message of the rows, not of the event.
PublishLevelRows(e, isNew) ==
    LET l        == <<e.side, e.price>>
        boundary == IF lastPub = 0 THEN e.seq ELSE lastPub
        flush    == DOMAIN buffer # {} /\ e.seq # boundary
        row      == [qty |-> Total(book'[l]), time |-> e.time]
        seen     == IF isNew THEN Flushed ELSE shown
    IN  /\ lastPub' = IF flush THEN rowSeq ELSE boundary
        /\ buffer'  = WithRow(IF flush THEN NoRows ELSE buffer, l, row)
        /\ rowSeq'  = e.seq
        /\ IF Following
           THEN /\ cache' = IF isNew THEN NoRows ELSE RowsOf(book, book') @@ cache
                /\ shown' = IF flush THEN Quantities(buffer) @@ seen ELSE seen
           ELSE UNCHANGED <<cache, shown>>

\* dispatchEvent, a level that the book does not have: its quantity is matched, and
\* what is left rests.
NewLevel(e, m) ==
    /\ book' = m.book
    /\ ledger' = Quoted(Added(Crossed(ledger, m, e.qty), credit, <<e.side, e.price>>, e.time),
                        <<e.side, e.price>>, e.qty, e.time)
    /\ PublishLevelRows(e, TRUE)
    /\ UNCHANGED credit

\* A level it has: the phantoms are reconciled.
ExistingLevel(e) ==
    LET l == <<e.side, e.price>>
    IN  /\ book' = Reconcile(book, credit, l, e.qty, e.time)
        /\ credit' = DropReflected(credit, l, e.time)
        /\ ledger' = Quoted(Reconciled(ledger, l), l, e.qty, e.time)
        /\ PublishLevelRows(e, FALSE)

DispatchLevelUpdate(e, m) ==
    /\ e.type = "LEVEL_UPDATE"
    /\ IF e.time < bookTime THEN UNCHANGED <<bookVars, rowVars, ledger>>
       ELSE /\ IF book[<<e.side, e.price>>] = <<>> THEN NewLevel(e, m) ELSE ExistingLevel(e)
            /\ bookTime' = e.time

\* dispatchEvent, a print: it takes liquidity as the venue's taker did.
DispatchTrade(e, m) ==
    /\ e.type = "TRADE"
    /\ book' = m.book
    /\ credit' = CreditTradedQty(credit, m, e.time)
    /\ ledger' = Printed(ledger, m)
    /\ FlushMarketDataCaches
    /\ UNCHANGED bookTime

\* m: what becomes of the book if the event is matched.
DispatchEvent(e, m) == DispatchLevelUpdate(e, m) \/ DispatchTrade(e, m)

\* Once begun, releasing ends at an event that is not ready.
Releasable == {e \in pending : IsTop(e) /\ Ready(e)}

ProcessSequencedEvents ==
    /\ \E e \in Releasable :
         /\ pending' = pending \ {e}
         /\ DispatchEvent(e, Place(book, e.side, e.price, e.qty, FALSE, Counter))
         /\ latest' = [time |-> e.time, type |-> e.type]
    /\ UNCHANGED <<wireVars, orders, lastTime, nextSid, nextSeq, due, resetTime>>
    /\ releasing' = (Releasable' # {})

\* A client's order; its handler ends by flushing the caches.
CoinbaseOrder ==
    /\ Releasable = {}
    /\ ClientOrder
    /\ FlushMarketDataCaches
    /\ UNCHANGED <<releasing, sequencer, due, latest, resetTime>>

CoinbaseInit ==
    /\ releasing = FALSE /\ pending = {} /\ lastTime = 0 /\ nextSid = 0 /\ nextSeq = 1
    /\ buffer = NoRows /\ rowSeq = 0 /\ lastPub = 0 /\ cache = NoRows
    /\ shown = AllRows(book) /\ due = FALSE
    /\ latest = [time |-> 0, type |-> "TRADE"] /\ resetTime = 0

CoinbaseNext ==
    \/ ~releasing /\ Tick /\ UNCHANGED coinbaseVars
    \/ ProcessData \/ ProcessSequencedEvents \/ CoinbaseOrder
=============================================================================
