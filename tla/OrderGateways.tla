--------------------------- MODULE OrderGateways ---------------------------
(***************************************************************************)
(* An order gateway at work against the exchange.  The gateways run on     *)
(* threads of their own and meet only in the exchange's queues, which they *)
(* read independently of each other; so a behaviour has one of them, and   *)
(* the requests of any other are part of its environment.                  *)
(***************************************************************************)
EXTENDS CoinbaseRest, CoinbaseWs, HyperliquidRest

CONSTANT Gateways    \* the gateways to put against the exchange

VARIABLE gateway     \* the one of this behaviour

vars == <<exchangeVars, restVars, wsVars, hl, gateway>>

Init == ExchangeInit /\ RestInit /\ WsInit /\ HlInit /\ gateway \in Gateways

\* Requests that some other gateway submits.
OtherRequest ==
    \E user \in Users :
        \/ \E cl \in ClOrdIds, qty \in OrderSizes :
             Submit([NoRequest EXCEPT !.kind = "new", !.user = user, !.cl = cl, !.qty = qty])
        \/ \E i \in Ids : who[i].user = user
             /\ \/ Submit([NoRequest EXCEPT !.kind = "cancel", !.user = user, !.oid = i])
                \/ \E qty \in OrderSizes :
                     Submit([NoRequest EXCEPT !.kind = "replace", !.user = user, !.oid = i, !.qty = qty])

ExchangeThread == ExchangeNext /\ UNCHANGED <<restVars, wsVars, hl>>

\* The listing of orders shares the REST thread with the handlers that submit
\* requests, and nothing else: it has a behaviour to itself.
RestThread ==
    /\ \/ gateway = "coinbase_rest" /\ RestNext
       \/ gateway = "coinbase_listing" /\ (GetOrders \/ Drain \/ (OtherRequest /\ UNCHANGED restVars))
    /\ UNCHANGED <<wsVars, hl>>

WsThread ==
    /\ gateway = "coinbase_ws"
    /\ WsNext \/ (OtherRequest /\ UNCHANGED wsVars)
    /\ UNCHANGED <<restVars, hl>>

HlThread == gateway = "hyperliquid" /\ HlNext /\ UNCHANGED <<restVars, wsVars>>

Next == (ExchangeThread \/ RestThread \/ WsThread \/ HlThread) /\ UNCHANGED gateway

Spec == Init /\ [][Next]_vars

-----------------------------------------------------------------------------
\* Properties.

\* A gateway never reads past its own answer: while a handler waits, no report
\* behind its cursor is one its request has caused, however fast the exchange
\* was.  So a timeout means that the exchange has not answered in time.
NoAnswerSkipped ==
    /\ rest.pc = "wait" => \A k \in 1 .. rest.cursor - 1 : responses[k].time # rest.time
    /\ hl.pc = "wait" => \A k \in 1 .. hl.cursor - 1 : responses[k].time # hl.time

\* A handler takes no other order's report for its answer: the id given to a
\* client is that of the order its own request created.
AnswersAreOwn ==
    rest.pc = "wait" /\ rest.kind = "new" /\ rest.cursor < QueueEnd =>
        LET r == responses[rest.cursor] IN IsAnswer(r) => r.time = rest.time

\* An order the gateway has stopped knowing, because a cancel of it counted as
\* done, has ended or is about to: a cancel that names it is on its way through
\* the queue.  A client is never left with a live order it cannot reach.
ForgottenOrdersEnd ==
    \A i \in given \ known : IsLive(i) =>
        \/ work.kind = "cancel" /\ work.order = i
        \/ \E k \in 1 .. Len(requests) : requests[k].kind = "cancel" /\ i \in Named(requests[k])

\* A store has every order reported up to its cursor, under its owner's name and
\* client order id, whatever requests were rejected in the order's name, and has
\* counted each of its trades once.
StoreIsComplete(store, cursor) ==
    \A i \in Ids :
        LET reports == {k \in 1 .. cursor - 1 : responses[k].oid = i}
        IN  /\ i \in DOMAIN store <=> reports # {}
            /\ i \in DOMAIN store =>
                  /\ store[i].user = who[i].user /\ store[i].cl = who[i].cl
                  /\ store[i].fills = Cardinality({k \in reports : responses[k].trade})

StoresAreComplete == StoreIsComplete(restStore, restCursor) /\ StoreIsComplete(wsStore, wsCursor)

\* A client that subscribed to its orders knows the last thing reported of each
\* of them, from the snapshot or from an update, also of those that were
\* reported while it was not connected; only PENDING_NEW may be kept from it.
ClientsSeeTheirOrders ==
    \A s \in Sockets : sock[s].orders =>
        \A k \in 1 .. wsCursor - 1 :
            LET r == responses[k]
            IN  r.user = sock[s].user /\ r.oid # NoId /\ r.status # "PENDING_NEW"
                  /\ (\A m \in k + 1 .. wsCursor - 1 : responses[m].oid # r.oid)
                => r.oid \in DOMAIN view[s] /\ view[s][r.oid] = r.status

\* order_store.hpp says that replaying the reports reconstructs each order's
\* state: with everything read and nothing in progress, the store and the
\* exchange agree.
ReplayReconstructsState ==
    restCursor = QueueEnd /\ requests = <<>> /\ work = NoRequest =>
        \A i \in DOMAIN restStore :
            State(restStore[i].status, restStore[i].cum, restStore[i].leaves) = life[i]
=============================================================================
