---------------------------- MODULE OrderReports ----------------------------
(***************************************************************************)
(* The exchange as its order gateways see it: requests go in through one   *)
(* queue and execution reports come out through another.  Every gateway    *)
(* reads the whole report queue with a cursor of its own.                  *)
(*                                                                         *)
(* What an order may go through is module OrderLifecycle.  This module     *)
(* adds what the gateways go by: who a report is addressed to, which       *)
(* request it answers, and the reports that do not speak of an order's     *)
(* state at all (the pending notices and the rejects of requests).         *)
(***************************************************************************)
EXTENDS OrderLifecycle, Sequences

CONSTANTS
    Users,        \* user ids
    ClOrdIds,     \* client order ids
    NoClOrdId,    \* the empty client order id
    MaxRequests   \* bound: requests submitted in a behaviour

\* The empty user id.
NoUser == ""

ASSUME NamesAssumption ==
    Ids \subseteq Nat \ {0} /\ NoClOrdId \notin ClOrdIds /\ NoUser \notin Users

VARIABLES
    who,        \* the user and the client order id of each order
    nextId,     \* utils::nextOrderId()
    nextTime,   \* the clock that stamps requests: get_current_time_ns()
    requests,   \* request_queue_
    responses,  \* response_queue_, all of it: cursors count from 1
    work        \* the accepted request the exchange is working on

exchangeVars == <<life, who, nextId, nextTime, requests, responses, work>>

NoId == 0
NoTime == 0
\* `oid` is the id the request carries, `order` the order it turned out to name.
NoRequest == [kind |-> "none", user |-> NoUser, cl |-> NoClOrdId, oid |-> NoId,
              qty |-> 0, time |-> NoTime, order |-> NoId]
Nobody == [user |-> NoUser, cl |-> NoClOrdId]

ExchangeInit ==
    /\ LifeInit
    /\ who = [i \in Ids |-> Nobody]
    /\ nextId = 1 /\ nextTime = 1
    /\ requests = <<>> /\ responses = <<>> /\ work = NoRequest

-----------------------------------------------------------------------------
\* Reports.

\* A report on order i, addressed to its owner.  `time` is request_time, which
\* publishOrderExecution leaves as it is in the queue's slot.
OrderReport(i, owner, o, time, trade) ==
    [oid |-> i, user |-> owner.user, cl |-> owner.cl, status |-> o.status,
     cum |-> o.cum, leaves |-> o.leaves, time |-> time, trade |-> trade]

\* A reject of a request carries what the request carried.
RequestReject(r) ==
    [oid |-> r.oid, user |-> r.user, cl |-> r.cl, status |-> "REJECTED",
     cum |-> 0, leaves |-> 0, time |-> r.time, trade |-> FALSE]

Publish(report) == responses' = Append(responses, report)

\* initial_reading_index: the first report that is not published yet.
QueueEnd == Len(responses) + 1

-----------------------------------------------------------------------------
\* Requests.

Incoming(kind) == /\ work = NoRequest /\ requests # <<>>
                  /\ Head(requests).kind = kind

\* The order a request names: by client order id when it has one, else by id.
Named(r) == {i \in Ids : IsLive(i) /\ IF r.cl # NoClOrdId THEN who[i].cl = r.cl ELSE i = r.oid}

RejectRequest(r) ==
    /\ Publish(RequestReject(r))
    /\ UNCHANGED <<life, who, nextId, work>>

\* handleNewOrderRequest: a client order id in use is rejected; else the order
\* is announced as pending, before anything else is said of it.
TakeNew ==
    LET r == Head(requests)
        owner == [user |-> r.user, cl |-> r.cl]
    IN  /\ Incoming("new")
        /\ requests' = Tail(requests)
        /\ \/ /\ Named(r) # {}
              /\ RejectRequest(r)
           \/ /\ Named(r) = {} /\ nextId \in Ids
              /\ who' = [who EXCEPT ![nextId] = owner]
              /\ work' = [r EXCEPT !.order = nextId]
              /\ nextId' = nextId + 1
              /\ Publish(OrderReport(nextId, owner, State("PENDING_NEW", 0, r.qty), r.time, FALSE))
              /\ UNCHANGED life
        /\ UNCHANGED nextTime

\* handleModifyOrderRequest and handleCancelOrderRequest.  The pending notice
\* says that nothing has filled, whatever has.
TakeAmendment(kind, pending) ==
    LET r == Head(requests)
    IN  /\ Incoming(kind)
        /\ requests' = Tail(requests)
        /\ \/ Named(r) = {} /\ RejectRequest(r)
           \/ \E i \in Named(r) :
                /\ work' = [r EXCEPT !.order = i]
                /\ Publish(OrderReport(i, who[i], State(pending, 0, life[i].leaves), r.time, FALSE))
                /\ UNCHANGED <<life, who, nextId>>
        /\ UNCHANGED nextTime

\* Reports the new state of the order at work, as part of its request.
Told(time, trade) ==
    /\ Publish(OrderReport(work.order, who[work.order], life'[work.order], time, trade))
    /\ UNCHANGED <<who, nextId, nextTime, requests>>

\* The engine accepts a new order, or rejects it for the sake of self-match
\* prevention: that reject carries no id of the exchange's, only the request's.
AckNew == work.kind = "new" /\ Accepted(work.order, work.qty) /\ Told(work.time, FALSE) /\ UNCHANGED work
RefuseNew ==
    /\ work.kind = "new" /\ Refused(work.order)
    /\ Publish(RequestReject(work))
    /\ work' = NoRequest
    /\ UNCHANGED <<who, nextId, nextTime, requests>>

\* An amendment is applied, or rejected with the order left as it was.
ApplyReplace ==
    /\ work.kind = "replace" /\ Replaced(work.order, work.qty)
    /\ Told(work.time, FALSE)
    /\ work' = [work EXCEPT !.kind = "replaced"]
RefuseReplace ==
    /\ work.kind = "replace"
    /\ Publish(RequestReject(work))
    /\ work' = NoRequest
    /\ UNCHANGED <<life, who, nextId, nextTime, requests>>

ApplyCancel ==
    /\ work.kind = "cancel" /\ Canceled(work.order)
    /\ Told(work.time, FALSE)
    /\ work' = NoRequest

Matching == work.kind \in {"new", "replaced"} /\ IsLive(work.order)

\* The order at work trades as the aggressor.
Aggress == Matching /\ (\E n \in 1 .. life[work.order].leaves : Executed(work.order, n))
           /\ Told(NoTime, TRUE) /\ UNCHANGED work

\* What is left of it is cancelled: an immediate order's remainder, or nothing.
CancelRemainder == Matching /\ Canceled(work.order) /\ Told(work.time, FALSE) /\ work' = NoRequest

\* The handler returns: the order rests or has ended.
EndRequest ==
    /\ work.kind \in {"new", "replaced"} /\ life[work.order] # Unreported
    /\ IsLive(work.order) => life[work.order].leaves > 0
    /\ work' = NoRequest
    /\ UNCHANGED <<life, who, nextId, nextTime, requests, responses>>

\* A resting order trades with somebody else's order, or loses its place to its
\* owner's incoming order under CANCEL_RESTING.  This happens while the exchange
\* works on a request or an event that is not this order's.
Passive(i) ==
    /\ i # work.order /\ work.kind \in {"none", "new", "replaced"}
    /\ \/ \E n \in 1 .. life[i].leaves : Executed(i, n)
       \/ work.kind # "none" /\ Canceled(i)
    /\ Publish(OrderReport(i, who[i], life'[i],
                           IF life'[i].status = "CANCELED" THEN work.time ELSE NoTime,
                           life'[i].status # "CANCELED"))
    /\ UNCHANGED <<who, nextId, nextTime, requests, work>>

ExchangeStep ==
    \/ TakeNew \/ TakeAmendment("cancel", "PENDING_CANCEL") \/ TakeAmendment("replace", "PENDING_REPLACE")
    \/ AckNew \/ RefuseNew \/ ApplyReplace \/ RefuseReplace \/ ApplyCancel
    \/ Aggress \/ CancelRemainder \/ EndRequest

ExchangeNext == ExchangeStep \/ \E i \in Ids : Passive(i)

\* Bound: the ids that no order has and no queued request is going to take.
Unborn == {i \in Ids : i >= nextId + Len(SelectSeq(requests, LAMBDA r : r.kind = "new"))}

\* A gateway writes a request: it is stamped with the time it was written at.
Submit(r) ==
    /\ nextTime <= MaxRequests
    /\ r.kind = "new" => Unborn # {}
    /\ requests' = Append(requests, [r EXCEPT !.time = nextTime])
    /\ nextTime' = nextTime + 1
    /\ UNCHANGED <<life, who, nextId, responses, work>>
=============================================================================
