----------------------------- MODULE CoinbaseWs -----------------------------
(***************************************************************************)
(* CoinbaseWebsocketOrderGateway: one loop thread that reads the report    *)
(* queue from its beginning, keeps the store of all orders, and pushes     *)
(* each report to the socket registered for its user.  A socket registers  *)
(* its user with its first subscription, whatever the channel.             *)
(***************************************************************************)
EXTENDS OrderReports, OrderStore, FiniteSets

CONSTANTS
    Sockets,        \* connections
    NoSocket,
    SocketsPerUser  \* bound: connections a user has open at a time

ASSUME SocketsAssumption == IsFiniteSet(Sockets) /\ NoSocket \notin Sockets

VARIABLES
    sock,      \* PerSocketData of each connection, and whether it is open
    clients,   \* clients_: the socket registered for each user
    wsStore,   \* orders_
    wsCursor,  \* response_read_index_
    view       \* what the messages on each socket have told its client: order -> status

wsVars == <<sock, clients, wsStore, wsCursor, view>>

Closed == [open |-> FALSE, user |-> NoUser, orders |-> FALSE]

NoView == [i \in {} |-> i]

WsInit ==
    /\ sock = [s \in Sockets |-> Closed]
    /\ clients = [u \in Users |-> NoSocket]
    /\ wsStore = EmptyStore /\ wsCursor = 1
    /\ view = [s \in Sockets |-> NoView]

Open(s) ==
    /\ ~sock[s].open
    /\ sock' = [sock EXCEPT ![s] = [Closed EXCEPT !.open = TRUE]]
    /\ view' = [view EXCEPT ![s] = NoView]
    /\ UNCHANGED <<exchangeVars, clients, wsStore, wsCursor>>

\* The first subscription of any channel registers the socket for its user.
Register(s, u) ==
    IF clients[u] = NoSocket THEN [clients EXCEPT ![u] = s] ELSE clients

\* The snapshot of the user channel: the store's orders of this user.
Snapshot(u) == [i \in OrdersOf(wsStore, u) |-> wsStore[i].status]

\* handle_message: a subscription.  A client keeps to one identity on a socket.
Subscribe(s, u, channel) ==
    /\ sock[s].open /\ sock[s].user \in {NoUser, u}
    /\ Cardinality({t \in Sockets : sock[t].open /\ sock[t].user = u} \ {s}) < SocketsPerUser
    /\ sock' = [sock EXCEPT ![s] = [open |-> TRUE, user |-> u, orders |-> sock[s].orders \/ channel = "user"]]
    /\ clients' = Register(s, u)
    /\ view' = IF channel = "user" THEN [view EXCEPT ![s] = Snapshot(u)] ELSE view
    /\ UNCHANGED <<exchangeVars, wsStore, wsCursor>>

\* handle_close: the registration of the socket's user goes, whoever holds it.
\* A token that does not decode closes the socket too.
HandleClose(s) ==
    /\ sock[s].open
    /\ sock' = [sock EXCEPT ![s] = Closed]
    /\ clients' = IF sock[s].user # NoUser THEN [clients EXCEPT ![sock[s].user] = NoSocket] ELSE clients
    /\ view' = [view EXCEPT ![s] = NoView]
    /\ UNCHANGED <<exchangeVars, wsStore, wsCursor>>

\* check_heartbeats: registered sockets that have not answered a ping for too
\* long are unregistered and closed, all in one pass.
CheckHeartbeats(stale) ==
    /\ stale # {}
    /\ clients' = [u \in Users |-> IF clients[u] \in stale THEN NoSocket ELSE clients[u]]
    /\ sock' = [s \in Sockets |-> IF s \in stale THEN Closed ELSE sock[s]]
    /\ view' = [s \in Sockets |-> IF s \in stale THEN NoView ELSE view[s]]
    /\ UNCHANGED <<exchangeVars, wsStore, wsCursor>>

\* Defect: a report of a user who is not connected is not recorded.
RecordIfConnected(r) == IF clients[r.user] = NoSocket THEN wsStore ELSE Apply(wsStore, r)

\* A report is recorded whether or not its owner is connected.
Record(r) == Apply(wsStore, r)

\* handle_order_response: PENDING_NEW is not sent.
Push(r) ==
    LET s == clients[r.user]
    IN  IF s = NoSocket \/ r.status = "PENDING_NEW" THEN view
        ELSE [view EXCEPT ![s] = [i \in DOMAIN @ \cup {r.oid} |-> IF i = r.oid THEN r.status ELSE @[i]]]

\* process_all_responses: the next report is recorded, then pushed.
ProcessResponse ==
    LET r == responses[wsCursor]
    IN  /\ wsCursor < QueueEnd
        /\ wsCursor' = wsCursor + 1
        /\ wsStore' = Record(r)
        /\ view' = Push(r)
        /\ UNCHANGED <<exchangeVars, sock, clients>>

WsNext ==
    \/ \E s \in Sockets :
        \/ Open(s) \/ HandleClose(s)
        \/ \E u \in Users, channel \in {"user", "heartbeats"} : Subscribe(s, u, channel)
    \/ \E stale \in SUBSET ({clients[u] : u \in Users} \ {NoSocket}) : CheckHeartbeats(stale)
    \/ ProcessResponse
=============================================================================
