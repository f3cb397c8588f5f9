----------------------------- MODULE MarketData -----------------------------
(***************************************************************************)
(* Market data from an exchange to its clients, at either venue.           *)
(***************************************************************************)
EXTENDS CoinbasePublisher, HyperliquidPublisher

CONSTANT Parts

VARIABLE part

allVars == <<vars, part>>

Init ==
    /\ part \in Parts
    /\ side \in IF part = "hyperliquid" THEN {"BUY", "SELL"} ELSE {"BUY"}
    /\ PublisherInit

Next ==
    /\ \/ part = "coinbase" /\ CoinbaseNext
       \/ part = "hyperliquid" /\ HyperliquidNext
    /\ UNCHANGED part

ProcessRequest ==
    IF part = "coinbase" THEN CoinbaseRequest ELSE HyperliquidRequest

BookArrives ==
    IF part = "coinbase" THEN Level2Snapshot ELSE exch.due # {} /\ L2Event

PublishProcessing ==
    \/ EndPass
    \/ IF part = "coinbase" THEN CoinbasePublish ELSE HyperliquidPublish

\* The exchange thread and the publisher's loop run on, and a venue answers a
\* subscription: with a snapshot, or on Hyperliquid with its next level message.
Fairness ==
    /\ WF_allVars(ProcessRequest /\ UNCHANGED part)
    /\ WF_allVars(BookArrives /\ UNCHANGED part)
    /\ WF_allVars(part = "coinbase" /\ MarketTradesSnapshot /\ UNCHANGED part)
    /\ WF_allVars(PublishProcessing /\ UNCHANGED part)

Spec == Init /\ [][Next]_allVars /\ Fairness

-----------------------------------------------------------------------------
\* The Coinbase sockets that subscribed to a channel more than once: they are listed
\* as often, and one entry of theirs is left when they close.
Repeated(ch) ==
    {ws \in Sockets : /\ part = "coinbase"
                      /\ Entries(ch)[ws] > (IF ws \in pub.info[ch] THEN 1 ELSE 0)}

\* A client that has had its snapshot, and applies the rows or the diffs that it is
\* sent, has the book that the publisher has broadcast, whoever subscribes and
\* leaves meanwhile; nothing is sent to a socket that has closed, unless it
\* subscribed twice at Coinbase.  Left out are the clients that a later subscription
\* response passed over though it carried another book.
ClientsFollowBook ==
    /\ \A ws \in Sockets \ lapsed :
         /\ view["LEVEL2"][ws] \in {None, told}
         /\ view["L2"][ws] \in {None, pub.baseline}
    /\ \A ws \in Sockets, ch \in Channels :
         view[ch][ws] # None => sockets[ws] = "open" \/ ws \in Repeated(ch)

\* A trade client has the tape without a gap or, unless it subscribed twice at
\* Coinbase, a repetition: its snapshot, the trades sent with it and the live ones
\* are distinct, and they are all that the exchange published from the oldest of them
\* up to the newest.  What is presented as settled is in the book that goes with it,
\* so no newer print is (publishTradeSubscriptionResponse).
TapeIsComplete ==
    \A ws \in Sockets, ch \in {"MARKET_TRADES", "TRADES"} :
        view[ch][ws] # None =>
            LET tape == view[ch][ws].settled \o view[ch][ws].later
                ids  == {tape[i].id : i \in DOMAIN tape}
            IN  /\ ws \in Repeated(ch) \/ Cardinality(ids) = Len(tape)
                /\ \A i \in ids, j \in ids : (i .. j) \ exch.seeds \subseteq ids
                /\ \A i \in DOMAIN view[ch][ws].settled :
                     Reflected(view[ch][ws].settled[i], view[ch][ws].asOf)

\* Subscribers get their snapshots, unless they leave or the exchange has stopped the
\* feed that would bring one.
SubscribersServed ==
    (\E ch \in Channels : pub.pending[ch] # {})
      ~> ((\A ch \in Channels : pub.pending[ch] = {}) \/ exch.feed = "stopped")
=============================================================================
