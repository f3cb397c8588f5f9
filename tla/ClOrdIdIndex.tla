---------------------------- MODULE ClOrdIdIndex ----------------------------
(***************************************************************************)
(* ClOrdIdIndex: one session's client order ids, each with the working     *)
(* order that holds it and the requests in flight that named it.  The      *)
(* session around it makes the calls in the order that the header and its  *)
(* unit tests state.                                                       *)
(***************************************************************************)
EXTENDS Integers, FiniteSets

CONSTANTS
    SessionIds,         \* client order ids
    OrderNums,          \* numbers of orders; 0 is none
    MaxInFlight,        \* bound: requests in flight
    MaxRequests         \* bound: requests

ASSUME SessionAssumption == OrderNums \subseteq Nat \ {0} /\ SessionIds # {}

VARIABLE session

NoEntry == [order |-> 0, claims |-> 0, held |-> FALSE]

\* find: the working order named id.
Find(ids, id) == IF ids[id].held THEN ids[id].order ELSE 0

Taken(ids) == {id \in SessionIds : ids[id] # NoEntry}

\* claim: granted for a free id, and to a replace of the order that has it.
CanClaim(ids, id, num) == ids[id] = NoEntry \/ (num # 0 /\ ids[id].order = num)

Claimed(entry, num) ==
    IF entry = NoEntry THEN [order |-> num, claims |-> 1, held |-> FALSE]
    ELSE [entry EXCEPT !.claims = @ + 1]

Claim(ids, id, num) == [ids EXCEPT ![id] = Claimed(@, num)]

\* Defect: an id goes as soon as no order holds it.
EraseUnheld(entry) == IF entry.held THEN entry ELSE NoEntry

\* erase_if_unused
EraseIfUnused(entry) == IF entry.claims = 0 /\ ~entry.held THEN NoEntry ELSE entry

Released(entry) == [entry EXCEPT !.claims = @ - 1]

Release(ids, id) ==
    IF ids[id].claims = 0 THEN ids ELSE [ids EXCEPT ![id] = EraseIfUnused(Released(@))]

Assign(ids, id, num) == [ids EXCEPT ![id] = [@ EXCEPT !.order = num, !.held = TRUE]]

Forget(ids, id, num) ==
    IF ids[id] = NoEntry \/ ids[id].order # num THEN ids
    ELSE [ids EXCEPT ![id] = EraseIfUnused([@ EXCEPT !.held = FALSE])]

Rename(ids, from, to, num) == Assign(Forget(ids, from, num), to, num)

-----------------------------------------------------------------------------
\* The session: what an order is named, and the requests that are not answered yet.

\* A new order (num 0) or a replace of num asks for id.
Ask(id, num) ==
    /\ CanClaim(session.ids, id, num)
    /\ Cardinality(session.requests) < MaxInFlight /\ session.serial < MaxRequests
    /\ session' = [session EXCEPT !.ids = Claim(@, id, num), !.serial = @ + 1,
                     !.requests = @ \cup {[serial |-> session.serial, id |-> id, num |-> num]}]

Answered(s, r, ids) == [s EXCEPT !.requests = @ \ {r}, !.ids = Release(ids, r.id)]

\* The exchange accepts a request ...
AcceptNew(r, num) ==
    /\ r.num = 0 /\ num \notin session.numbers
    /\ session' = [Answered(session, r, Assign(session.ids, r.id, num))
                     EXCEPT !.name[num] = r.id, !.working = @ \cup {num}, !.numbers = @ \cup {num}]

AcceptReplace(r) ==
    /\ r.num \in session.working
    /\ session' = [Answered(session, r, Rename(session.ids, session.name[r.num], r.id, r.num))
                     EXCEPT !.name[r.num] = r.id]

\* ... or rejects it, and an order is done.
Reject(r) == session' = Answered(session, r, session.ids)

Done(num) == session' = [session EXCEPT !.working = @ \ {num},
                                        !.ids = Forget(@, session.name[num], num)]

SessionInit ==
    session = [ids |-> [id \in SessionIds |-> NoEntry], requests |-> {}, serial |-> 0,
               working |-> {}, numbers |-> {},
               name |-> [num \in OrderNums |-> CHOOSE id \in SessionIds : TRUE]]

SessionNext ==
    \/ \E id \in SessionIds, num \in {0} \cup session.working : Ask(id, num)
    \/ \E r \in session.requests :
         AcceptReplace(r) \/ Reject(r) \/ \E num \in OrderNums : AcceptNew(r, num)
    \/ \E num \in session.working : Done(num)
=============================================================================
