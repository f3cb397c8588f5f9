------------------------ MODULE HyperliquidPublisher ------------------------
(***************************************************************************)
(* The Hyperliquid exchange's subscriptions and frames, and its publisher: *)
(* l2Book clients get the whole book every time, l2 clients a snapshot and *)
(* then diffs against the book that was last broadcast to them.            *)
(***************************************************************************)
EXTENDS MdPublisher

CONSTANT Depth    \* L2_PUBLISH_DEPTH

\* split_book_snapshot: the best Depth levels of the side, in book order.
Levels(b) ==
    LET held == SelectSeq(BestFirst, LAMBDA p : b[p] > 0)
    IN  [i \in 1 .. (IF Len(held) < Depth THEN Len(held) ELSE Depth) |-> <<held[i], b[held[i]]>>]

PriceIn(levels, p) == \E i \in DOMAIN levels : levels[i][1] = p

\* Defect: removed indices ascend on both sides.
RemovedAscending(prev, curr) ==
    SelectSeq([i \in DOMAIN prev |-> i], LAMBDA i : ~PriceIn(curr, prev[i][1]))

\* diff_side: the indices of the levels that are gone, descending for bids ...
Removed(prev, curr) ==
    LET gone == SelectSeq([i \in DOMAIN prev |-> i], LAMBDA i : ~PriceIn(curr, prev[i][1]))
    IN  IF side = "BUY" THEN Reverse(gone) ELSE gone

\* ... and the levels that are new or have another quantity.
ChangedLevels(prev, curr) == SelectSeq(curr, LAMBDA l : ~Contains(prev, l))

\* A client applies a diff: it removes bids in the order it receives them, resolves
\* all asks first, and then sets the changed levels by price.
WithoutIndices(levels, indices) ==
    IF side = "BUY"
      THEN FoldLeft(LAMBDA have, i : IF i \in DOMAIN have THEN RemoveAt(have, i) ELSE have,
                    levels, indices)
      ELSE LET kept == SelectSeq([i \in DOMAIN levels |-> i], LAMBDA i : ~Contains(indices, i))
           IN  [k \in DOMAIN kept |-> levels[kept[k]]]

SetLevel(levels, l) ==
    LET better(p) == IF side = "BUY" THEN p > l[1] ELSE p < l[1]
        others == SelectSeq(levels, LAMBDA k : k[1] # l[1])
    IN  InsertAt(others, Len(SelectSeq(others, LAMBDA k : better(k[1]))) + 1, l)

Patched(levels, removed, changed) ==
    FoldLeft(LAMBDA have, l : SetLevel(have, l), WithoutIndices(levels, removed), changed)

-----------------------------------------------------------------------------
\* The exchange: only the first subscription of a coin waits for the feed, and
\* the trades channel never does.
HyperliquidResponse(ch, x) == IF ch = "TRADES" THEN TradeResponse(ch, x) ELSE BookResponse(ch, x.book)

HandleHlSubscription(ch) ==
    LET waits == /\ exch.live
                 /\ IF exch.known THEN ch \in exch.due ELSE ch # "TRADES"
    IN  /\ exch' = [exch EXCEPT !.known = TRUE, !.count = @ + 1,
                        !.feed = IF exch.live THEN "live" ELSE @,
                        !.due  = IF waits THEN @ \cup {ch} ELSE @]
        /\ frames' = IF waits THEN frames ELSE Append(frames, HyperliquidResponse(ch, exch))

\* handleMdUnsubscription stops tracking the coin, and leaves its feed running.
HandleHlUnsubscription ==
    /\ exch' = IF exch.known THEN [exch EXCEPT !.count = @ - 1] ELSE exch
    /\ UNCHANGED frames

HyperliquidRequest ==
    /\ requests # <<>>
    /\ requests' = Tail(requests)
    /\ IF Head(requests).type = "MD_SUBSCRIPTION" THEN HandleHlSubscription(Head(requests).channel)
       ELSE HandleHlUnsubscription
    /\ UNCHANGED <<side, sockets, pub, view, told, lapsed, spent>>

\* finalizeL2Event: a response on each channel that waits for one, and the routine
\* update unless both did.
L2Frames(due, b) ==
    LET response(ch) == IF ch \in due THEN <<BookResponse(ch, b)>> ELSE <<>>
    IN  response("L2_BOOK") \o response("L2")
          \o IF {"L2_BOOK", "L2"} \subseteq due THEN <<>> ELSE <<BookSnapshot(b)>>

\* processL2Snapshot, processL2Diff
L2Event ==
    /\ exch.feed = "live"
    /\ IF exch.due = {} THEN KeepsUp /\ Spend("events", MaxEvents) ELSE UNCHANGED spent
    /\ \E S \in SUBSET Prices, q \in {0, 2} :
         LET b == [p \in Prices |-> IF p \in S THEN q ELSE exch.book[p]]
         IN  /\ exch' = [exch EXCEPT !.book = b, !.time = @ + 1, !.due = {}]
             /\ frames' = frames \o L2Frames(exch.due, b)
    /\ UNCHANGED <<side, requests, sockets, pub, view, told, lapsed>>

\* A client's order rests; the publisher gets a frame that it has no use for.
OrderRests ==
    /\ exch.known /\ KeepsUp /\ Spend("events", MaxEvents)
    /\ \E p \in Prices :
         LET b == [exch.book EXCEPT ![p] = 1]
         IN  /\ b # exch.book
             /\ exch' = [exch EXCEPT !.book = b]
             /\ frames' = Append(frames, LevelUpdate(exch.book, b))
    /\ UNCHANGED <<side, requests, sockets, pub, view, told, lapsed>>

\* processTradesEvent republishes the book; a trade among clients does not.
TradesEvent ==
    /\ exch.known /\ KeepsUp /\ Spend("events", MaxEvents)
    /\ exch.book # Empty
    /\ \E ofFeed \in BOOLEAN :
         LET b == Traded(exch.book)
         IN  /\ ofFeed => exch.feed = "live"
             /\ exch' = [RecordTrade(exch, NewTrade(exch)) EXCEPT !.book = b]
             /\ frames' = frames \o <<TradeSummary(NewTrade(exch)),
                    IF ofFeed THEN BookSnapshot(b) ELSE LevelUpdate(exch.book, b)>>
    /\ UNCHANGED <<side, requests, sockets, pub, view, told, lapsed>>

-----------------------------------------------------------------------------
\* handle_message and handle_close; an unsubscribe message changes nothing.
SubscribeChannel(ws, ch) == ch \in {"L2_BOOK", "L2", "TRADES"} /\ Subscribe(ws, ch)
HandleHlClose(ws) == HandleClose(ws)

\* The publisher.  A response on l2 makes its book the baseline of the next diff.
PublishHlBookResponse(frame) ==
    LET ch     == frame.channel
        levels == Levels(frame.book)
        p      == IF ch = "L2" THEN [Answered(ch) EXCEPT !.baseline = levels] ELSE Answered(ch)
    IN  HandledFrame(p,
          [view EXCEPT ![ch] = [ws \in Sockets |->
               IF ws \in Awaiting(ch) THEN levels ELSE @[ws]]],
          told,
          lapsed \cup {ws \in pub.info["L2"] \ Awaiting(ch) : ch = "L2" /\ view["L2"][ws] # levels})

PublishHlSubscriptionResponse ==
    /\ Head(frames).type = "SUB_RESPONSE"
    /\ IF pub.info[Head(frames).channel] = {} THEN HandledFrame(pub, view, told, lapsed)
       ELSE IF Head(frames).channel = "TRADES" THEN PublishTradeResponse(Head(frames))
       ELSE PublishHlBookResponse(Head(frames))

PublishBookSnapshot ==
    LET levels == Levels(Head(frames).book)
        prev   == IF pub.baseline = None THEN <<>> ELSE pub.baseline
        patched(have) == IF have = None THEN None
                         ELSE Patched(have, Removed(prev, levels), ChangedLevels(prev, levels))
    IN  /\ Head(frames).type = "BOOK_SNAPSHOT"
        /\ HandledFrame(
             IF pub.info["L2"] = {} THEN pub ELSE [pub EXCEPT !.baseline = levels],
             [view EXCEPT
                !["L2_BOOK"] = [ws \in Sockets |-> IF ws \in pub.info["L2_BOOK"] THEN levels ELSE @[ws]],
                !["L2"]      = [ws \in Sockets |-> IF ws \in pub.info["L2"] THEN patched(@[ws]) ELSE @[ws]]],
             told, lapsed)

\* publish_market_data_update has no case for the other frames.
PassOver == Head(frames).type = "LEVEL" /\ HandledFrame(pub, view, told, lapsed)

HyperliquidPublish ==
    /\ frames # <<>>
    /\ \/ PublishHlSubscriptionResponse \/ PublishBookSnapshot \/ PassOver
       \/ PublishTradeSummary("TRADES",
            [ws \in Sockets |-> IF ws \in pub.info["TRADES"] THEN 1 ELSE 0])

HyperliquidNext ==
    \/ \E ws \in Sockets, ch \in Channels : SubscribeChannel(ws, ch)
    \/ \E ws \in Sockets : HandleHlClose(ws)
    \/ HyperliquidRequest \/ L2Event \/ OrderRests \/ TradesEvent
    \/ HyperliquidPublish \/ EndPass
=============================================================================
