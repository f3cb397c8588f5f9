-------------------------- MODULE CoinbasePublisher --------------------------
(***************************************************************************)
(* The Coinbase exchange's subscriptions and frames, and its publisher: a  *)
(* client gets a snapshot and then the rows that change.                   *)
(***************************************************************************)
EXTENDS MdPublisher

\* handleMdSubscription: the first subscription of a symbol starts its feed, a later
\* one is answered unless its channel waits for the feed's snapshot.
CoinbaseResponse(ch, x) == IF ch = "LEVEL2" THEN BookResponse(ch, x.book) ELSE TradeResponse(ch, x)

HandleMdSubscription(ch) ==
    LET waits == IF exch.known THEN ch \in exch.due ELSE exch.live
    IN  /\ exch' = [exch EXCEPT !.known = TRUE, !.count = @ + 1,
                        !.due  = IF ~exch.known /\ exch.live THEN {ch} ELSE @,
                        !.feed = IF ~exch.known /\ exch.live THEN "waiting" ELSE @]
        /\ frames' = IF waits THEN frames ELSE Append(frames, CoinbaseResponse(ch, exch))

\* handleMdUnsubscription: the last one stops the feed.
HandleMdUnsubscription ==
    /\ exch' = IF ~exch.known THEN exch
               ELSE [exch EXCEPT !.count = @ - 1,
                        !.feed = IF exch.count = 1 /\ @ # "none" THEN "stopped" ELSE @]
    /\ UNCHANGED frames

CoinbaseRequest ==
    /\ requests # <<>>
    /\ requests' = Tail(requests)
    /\ IF Head(requests).type = "MD_SUBSCRIPTION" THEN HandleMdSubscription(Head(requests).channel)
       ELSE HandleMdUnsubscription
    /\ UNCHANGED <<side, sockets, pub, view, told, lapsed, spent>>

-----------------------------------------------------------------------------
\* onLevel2Snapshot: the rebuilt book goes to the subscribers that wait for it, or
\* to all of them when none does.
Level2Snapshot ==
    /\ exch.feed = "waiting"
    /\ LET b == [p \in Prices |-> 1] IN
         /\ exch' = [exch EXCEPT !.feed = "live", !.book = b, !.time = @ + 1, !.due = @ \ {"LEVEL2"}]
         /\ frames' = Append(frames, IF "LEVEL2" \in exch.due THEN BookResponse("LEVEL2", b)
                                     ELSE BookSnapshot(b))
    /\ UNCHANGED <<side, requests, sockets, pub, view, told, lapsed, spent>>

\* onMarketTradesSnapshot: the venue's last trade, which the book may not have yet.
MarketTradesSnapshot ==
    /\ exch.feed \in {"waiting", "live"} /\ "MARKET_TRADES" \in exch.due
    /\ \E time \in {exch.time, exch.time + 1} :
         LET trade == [id |-> exch.nextId, time |-> time, notInBook |-> TRUE]
             x     == RecordTrade(exch, trade)
         IN  /\ exch' = [x EXCEPT !.due = @ \ {"MARKET_TRADES"}, !.seeds = @ \cup {trade.id}]
             /\ frames' = Append(frames, TradeResponse("MARKET_TRADES", x))
    /\ UNCHANGED <<side, requests, sockets, pub, view, told, lapsed, spent>>

\* The book changes, by an update of the feed or a client's order.
LevelsChange ==
    /\ exch.known /\ KeepsUp /\ Spend("events", MaxEvents)
    /\ \E qty \in {0, 2} :
         LET b == [p \in Prices |-> qty]
         IN  /\ b # exch.book
             /\ exch' = [exch EXCEPT !.book = b, !.time = @ + 1]
             /\ frames' = Append(frames, LevelUpdate(exch.book, b))
    /\ UNCHANGED <<side, requests, sockets, pub, view, told, lapsed>>

\* A trade, of a print or among clients: its summary and then the changed level.
TradeHappens ==
    /\ exch.known /\ KeepsUp /\ Spend("events", MaxEvents)
    /\ exch.book # Empty
    /\ LET b == Traded(exch.book)
       IN  /\ exch' = [RecordTrade(exch, NewTrade(exch)) EXCEPT !.book = b]
           /\ frames' = frames \o <<TradeSummary(NewTrade(exch)), LevelUpdate(exch.book, b)>>
    /\ UNCHANGED <<side, requests, sockets, pub, view, told, lapsed>>

\* onMarketDataDisconnected
MarketDataDisconnected ==
    /\ exch.feed = "live" /\ Spend("events", MaxEvents)
    /\ exch' = [exch EXCEPT !.feed = "waiting", !.history = EmptyRing,
                            !.due = {"LEVEL2", "MARKET_TRADES"}]
    /\ UNCHANGED <<side, requests, frames, sockets, pub, view, told, lapsed>>

-----------------------------------------------------------------------------
\* The publisher.
Listed(ch) == Range(pub.clients[ch])
Entries(ch) == [ws \in Sockets |-> Len(SelectSeq(pub.clients[ch], LAMBDA c : c = ws))]

Updated(b, rows) ==
    IF b = None THEN None
    ELSE [p \in Prices |-> IF \E q \in 0 .. 2 : <<p, q>> \in rows
                           THEN CHOOSE q \in 0 .. 2 : <<p, q>> \in rows ELSE b[p]]

PublishBookResponse(frame) ==
    LET established == pub.info["LEVEL2"] \ Awaiting("LEVEL2")
    IN  HandledFrame(Answered("LEVEL2"),
          [view EXCEPT !["LEVEL2"] = [ws \in Sockets |->
               IF ws \in Awaiting("LEVEL2") THEN frame.book ELSE @[ws]]],
          frame.book,
          lapsed \cup {ws \in established : view["LEVEL2"][ws] # frame.book})

PublishSubscriptionResponse ==
    /\ Head(frames).type = "SUB_RESPONSE"
    /\ IF Head(frames).channel = "LEVEL2" THEN PublishBookResponse(Head(frames))
       ELSE PublishTradeResponse(Head(frames))

PublishLevelSnapshot ==
    /\ Head(frames).type = "BOOK_SNAPSHOT"
    /\ HandledFrame(pub,
         [view EXCEPT !["LEVEL2"] = [ws \in Sockets |->
              IF ws \in Listed("LEVEL2") THEN Head(frames).book ELSE @[ws]]],
         Head(frames).book, lapsed \ Listed("LEVEL2"))

PublishLevelUpdate ==
    /\ Head(frames).type = "LEVEL"
    /\ HandledFrame(pub,
         [view EXCEPT !["LEVEL2"] = [ws \in Sockets |->
              IF ws \in Listed("LEVEL2") THEN Updated(@[ws], Head(frames).rows) ELSE @[ws]]],
         Updated(told, Head(frames).rows), lapsed)

CoinbasePublish ==
    /\ frames # <<>>
    /\ \/ PublishSubscriptionResponse \/ PublishLevelSnapshot \/ PublishLevelUpdate
       \/ PublishTradeSummary("MARKET_TRADES", Entries("MARKET_TRADES"))

CoinbaseNext ==
    \/ \E ws \in Sockets, ch \in {"LEVEL2", "MARKET_TRADES"} : Subscribe(ws, ch)
    \/ \E ws \in Sockets : HandleClose(ws)
    \/ CoinbaseRequest \/ Level2Snapshot \/ MarketTradesSnapshot
    \/ LevelsChange \/ TradeHappens \/ MarketDataDisconnected
    \/ CoinbasePublish \/ EndPass
=============================================================================
