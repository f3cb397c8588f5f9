----------------------------- MODULE MdPublisher -----------------------------
(***************************************************************************)
(* Market data to clients: the publisher's event loop, the sockets and     *)
(* their subscriptions, the queue of frames from the exchange and the      *)
(* queue of requests to it, for one symbol.  What the two venues do        *)
(* differently is in CoinbasePublisher and HyperliquidPublisher.           *)
(*                                                                         *)
(* One side of the book is modelled, as prices with quantities: the code   *)
(* treats the sides alike but for the order of the levels.                 *)
(***************************************************************************)
EXTENDS SequencesExt, RingBuffer

CONSTANTS
    Sockets,         \* clients' connections
    None,            \* a socket that has had no snapshot
    MaxPrice,        \* bound: prices are 1..MaxPrice
    MaxSubscribes,   \* bound: subscriptions
    MaxEvents,       \* bound: book changes, trades, lost connections and closes
    MaxLag,          \* bound: frames the publisher is behind when more is published
    MaxBatch         \* max_batch: frames of one pass over the queue

ASSUME PublisherAssumption ==
    {MaxPrice, MaxSubscribes, MaxEvents, MaxLag, MaxBatch} \subseteq Nat

Prices == 1 .. MaxPrice
Books  == [Prices -> 0 .. 2]
Empty  == [p \in Prices |-> 0]
Channels == {"LEVEL2", "MARKET_TRADES", "L2_BOOK", "L2", "TRADES"}

VARIABLES
    side,      \* the side of the book
    exch,      \* the exchange: book and lastUpdateTime, trade_history_ and the next
               \* trade id, use_live_feed_, whether the symbol is known, the feed,
               \* num_subscriptions_, and due: the channels whose
               \* pending_md_subscription_ has the symbol; seeds: history, the ids of
               \* trades that the venue reported and the exchange did not publish
    requests,  \* request_queue_
    frames,    \* md_queue_
    sockets,   \* idle, open or closed
    pub,       \* the publisher: symbol_channel_client_, subscription_info_, the
               \* sockets' pending_subscriptions, l2_diff_baseline_, and its loop
    view,      \* what each socket has made of the messages on each channel
    told,      \* history: the book according to the frames published so far
    lapsed,    \* history: sockets whose book was replaced without telling them
    spent      \* how much of each bound is used up

vars == <<side, exch, requests, frames, sockets, pub, view, told, lapsed, spent>>

KeepsUp == Len(frames) < MaxLag

\* Prices in book order: from the highest bid, from the lowest ask.
BestFirst == [i \in Prices |-> IF side = "BUY" THEN MaxPrice + 1 - i ELSE i]

Spend(kind, bound) == spent[kind] < bound /\ spent' = [spent EXCEPT ![kind] = @ + 1]

-----------------------------------------------------------------------------
\* Subscriptions.

\* handle_message, subscribe: the request is published, and the socket is listed,
\* in symbol_channel_client_ once more every time that it subscribes.
Subscribe(ws, ch) ==
    /\ sockets[ws] # "closed"
    /\ Spend("subscribes", MaxSubscribes)
    /\ sockets' = [sockets EXCEPT ![ws] = "open"]
    /\ requests' = Append(requests, [type |-> "MD_SUBSCRIPTION", channel |-> ch])
    /\ pub' = [pub EXCEPT !.clients[ch] = Append(@, ws),
                          !.info[ch]    = @ \cup {ws},
                          !.pending[ch] = @ \cup {ws}]
    /\ UNCHANGED <<side, exch, frames, view, told, lapsed>>

\* unsubscribe_md: the socket leaves the sets it is in and loses one entry of each
\* list; the baseline of the diffs goes with its last subscriber.
Unlisted(p, ws) ==
    [p EXCEPT !.clients  = [ch \in Channels |-> RemoveFirst(@[ch], ws)],
              !.info     = [ch \in Channels |-> @[ch] \ {ws}],
              !.pending  = [ch \in Channels |-> @[ch] \ {ws}],
              !.baseline = IF p.info["L2"] = {ws} THEN None ELSE @]

\* handle_close, for a client that leaves or that check_heartbeats disconnects.
HandleClose(ws) ==
    /\ sockets[ws] = "open"
    /\ Spend("events", MaxEvents)
    /\ sockets' = [sockets EXCEPT ![ws] = "closed"]
    /\ LET left == SetToSeq({ch \in Channels : ws \in pub.info[ch]})
       IN  requests' = requests \o
             [i \in DOMAIN left |-> [type |-> "MD_UNSUBSCRIPTION", channel |-> left[i]]]
    /\ pub' = Unlisted(pub, ws)
    /\ view' = [ch \in Channels |-> [view[ch] EXCEPT ![ws] = None]]
    /\ lapsed' = lapsed \ {ws}
    /\ UNCHANGED <<side, exch, frames, told>>

-----------------------------------------------------------------------------
\* The exchange's frames.

BookResponse(ch, b) == [type |-> "SUB_RESPONSE", channel |-> ch, book |-> b]
LevelUpdate(from, to) == [type |-> "LEVEL", rows |-> {<<p, to[p]>> : p \in {q \in Prices : from[q] # to[q]}}]
BookSnapshot(b) == [type |-> "BOOK_SNAPSHOT", book |-> b]
TradeSummary(trade) == [type |-> "TRADE_SUMMARY", trade |-> trade]

Reflected(trade, time) == ~trade.notInBook \/ trade.time <= time

\* Defect: one pass, in the order of the history, with the counts of two.
OnePass(history, time) == history

\* publishTradeSubscriptionResponse: the trades that the book reflects, and then
\* the others; the consumer reads the two blocks by their counts.
Partition(history, time) ==
    SelectSeq(history, LAMBDA t : Reflected(t, time))
      \o SelectSeq(history, LAMBDA t : ~Reflected(t, time))

TradeResponse(ch, x) ==
    LET history == Items(x.history)
    IN  [type |-> "SUB_RESPONSE", channel |-> ch, asOf |-> x.time,
         trades |-> Partition(history, x.time),
         numSnapshot |-> Len(SelectSeq(history, LAMBDA t : Reflected(t, x.time)))]

\* publishTradeSummary also records the trade (recordTrade).
RecordTrade(x, trade) == [x EXCEPT !.nextId = @ + 1, !.history = Push(@, trade)]

\* The book once a trade has taken one from its best level.
Traded(b) == LET best == SelectSeq(BestFirst, LAMBDA p : b[p] > 0)[1]
             IN  [b EXCEPT ![best] = @ - 1]

\* A trade of the engine, which the book has absorbed.
NewTrade(x) == [id |-> x.nextId, time |-> x.time, notInBook |-> FALSE]

-----------------------------------------------------------------------------
\* The publisher's loop (ws_md_publisher).  A pass handles up to MaxBatch frames,
\* and ends early after a whole book; it schedules the next one.

\* Defect: a pass that found the queue empty does not schedule another.
ScheduleWhenBusy(found) == found

\* schedule_publish_processing
Schedule(found) == TRUE

EndsPass(frame) == frame.type \in {"SUB_RESPONSE", "BOOK_SNAPSHOT"}

\* The loop's state once a frame has been handled, or none was there.
Looped(p) ==
    IF frames = <<>> THEN [p EXCEPT !.scheduled = Schedule(p.inPass > 0), !.inPass = 0]
    ELSE IF EndsPass(Head(frames)) \/ p.inPass + 1 = MaxBatch
           THEN [p EXCEPT !.scheduled = Schedule(TRUE), !.inPass = 0]
           ELSE [p EXCEPT !.inPass = @ + 1]

EndPass ==
    /\ pub.scheduled /\ frames = <<>>
    /\ pub' = Looped(pub)
    /\ UNCHANGED <<side, exch, requests, frames, sockets, view, told, lapsed, spent>>

\* A frame is handled: p is the publisher and v the sockets' views afterwards.
HandledFrame(p, v, toldBook, left) ==
    /\ pub.scheduled /\ frames # <<>>
    /\ pub' = Looped(p)
    /\ frames' = Tail(frames)
    /\ view' = v /\ told' = toldBook /\ lapsed' = left
    /\ UNCHANGED <<side, exch, requests, sockets, spent>>

\* publish_subscription_response, the sockets it is sent to.
Awaiting(ch) == {ws \in pub.info[ch] : ws \in pub.pending[ch]}

Answered(ch) == [pub EXCEPT !.pending[ch] = @ \ Awaiting(ch)]

\* The blocks of a trade response as the publisher reads and sends them.
TapeOf(frame) ==
    [settled |-> SubSeq(frame.trades, 1, frame.numSnapshot),
     asOf    |-> frame.asOf,
     later   |-> SubSeq(frame.trades, frame.numSnapshot + 1, Len(frame.trades))]

\* A socket that has had its snapshot adds a trade every time it is sent.
Extended(tape, trade, times) ==
    IF tape = None THEN None ELSE [tape EXCEPT !.later = @ \o [i \in 1 .. times |-> trade]]

PublishTradeResponse(frame) ==
    LET ch == frame.channel
    IN  HandledFrame(Answered(ch),
          [view EXCEPT ![ch] = [ws \in Sockets |->
                IF ws \in Awaiting(ch) THEN TapeOf(frame) ELSE @[ws]]],
          told, lapsed)

\* publish_trade_summary, sent to each socket as often as it is listed.
PublishTradeSummary(ch, entries) ==
    /\ Head(frames).type = "TRADE_SUMMARY"
    /\ HandledFrame(pub,
         [view EXCEPT ![ch] = [ws \in Sockets |->
               Extended(@[ws], Head(frames).trade, entries[ws])]],
         told, lapsed)

PublisherInit ==
    /\ \E live \in BOOLEAN :
         exch = [book |-> Empty, time |-> 0, history |-> EmptyRing, nextId |-> 1, live |-> live,
                 known |-> FALSE, due |-> {}, count |-> 0, feed |-> "none", seeds |-> {}]
    /\ requests = <<>> /\ frames = <<>>
    /\ sockets = [ws \in Sockets |-> "idle"]
    /\ pub = [clients  |-> [ch \in Channels |-> <<>>],
              info     |-> [ch \in Channels |-> {}],
              pending  |-> [ch \in Channels |-> {}],
              baseline |-> None, scheduled |-> TRUE, inPass |-> 0]
    /\ view = [ch \in Channels |-> [ws \in Sockets |-> None]]
    /\ told = Empty /\ lapsed = {}
    /\ spent = [subscribes |-> 0, events |-> 0]
=============================================================================
