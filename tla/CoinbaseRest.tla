---------------------------- MODULE CoinbaseRest ----------------------------
(***************************************************************************)
(* CoinbaseRestOrderGateway: the REST gateway's loop thread.  A POST       *)
(* handler writes requests and polls the report queue for the answer while *)
(* it holds the thread, so one handler runs at a time.  Waiting ends when  *)
(* the answer is read or when the time is up, which may come at any poll.  *)
(***************************************************************************)
EXTENDS OrderReports, OrderStore

CONSTANTS
    Prices,          \* prices requests carry, in units of the smallest tick
    Sizes,           \* sizes requests carry
    PriceIncrement,  \* price_increment of the product
    BaseIncrement,   \* base_increment
    BaseMinSize,     \* base_min_size
    ListingBatch,    \* bound: reports one listing drains (4096 in the code)
    ReuseClOrdIds    \* may a client reuse the client order id of a live order?

ASSUME SizesAssumption == Sizes \subseteq Nat /\ ListingBatch \in Nat

VARIABLES
    rest,        \* the POST handler at work
    known,       \* order_id_to_symbol_
    given,       \* history: the ids the gateway has given out
    restStore,   \* orders_
    restCursor   \* orders_.cursor_

restVars == <<rest, known, given, restStore, restCursor>>

\* NULL_PRICE: the price of a market order, and of an edit that names none.
NullPrice == -1

\* `cursor` is response_read_index, `time` the time stamp of the request that
\* is waited for, `todo` the rest of a batch, `canceled` its entries that count
\* as cancelled.
NoHandler == [pc |-> "idle", kind |-> "none", user |-> NoUser, cl |-> NoClOrdId, oid |-> NoId,
              qty |-> 0, time |-> NoTime, cursor |-> 0, todo |-> <<>>, canceled |-> {}]

RestInit ==
    /\ rest = NoHandler
    /\ known = {} /\ given = {}
    /\ restStore = EmptyStore /\ restCursor = 1

-----------------------------------------------------------------------------
\* validate_order; is_multiple_of holds for every value when there is no
\* increment.  A market order's price is not looked at.

IsMultipleOf(value, increment) == increment = 0 \/ value % increment = 0

ValidOrder(price, qty) ==
    /\ price # NullPrice => IsMultipleOf(price, PriceIncrement)
    /\ qty >= BaseMinSize
    /\ IsMultipleOf(qty, BaseIncrement)

\* The order configurations: limit orders have a price, market orders none.
Configurations == (Prices \cup {NullPrice}) \X Sizes

\* An edit that names neither price nor size is not validated.
ValidEdit(price, qty) == (price = NullPrice /\ qty = 0) \/ ValidOrder(price, qty)

-----------------------------------------------------------------------------
\* The handlers.  A request that fails authentication, parsing or validation is
\* answered at once and leaves everything as it is.

RestIdle == rest.pc = "idle"

Begin(handler) == rest' = handler /\ UNCHANGED <<exchangeVars, known, given, restStore, restCursor>>

\* handle_create_order, up to its request.
CreateOrder(user, cl, price, qty) ==
    /\ RestIdle /\ nextTime <= MaxRequests /\ Unborn # {}
    /\ ValidOrder(price, qty)
    /\ ReuseClOrdIds \/ \A i \in Ids : life[i].status \notin Ended => who[i].cl # cl
    /\ ReuseClOrdIds \/ \A k \in 1 .. Len(requests) : requests[k].cl # cl
    /\ Begin([NoHandler EXCEPT !.pc = "capture", !.kind = "new", !.user = user,
                               !.cl = cl, !.qty = qty])

\* handle_edit_order: an id the gateway does not know is answered at once.
EditOrder(user, oid, price, qty) ==
    /\ RestIdle /\ nextTime <= MaxRequests
    /\ oid \in known /\ ValidEdit(price, qty)
    /\ Begin([NoHandler EXCEPT !.pc = "capture", !.kind = "replace", !.user = user,
                               !.oid = oid, !.qty = qty])

\* handle_batch_cancel: the loop head.  Unknown ids are noted and skipped.
FirstKnown(todo) ==
    {k \in 1 .. Len(todo) : todo[k] \in known /\ \A m \in 1 .. k - 1 : todo[m] \notin known}

NextCancel(handler) ==
    IF FirstKnown(handler.todo) = {} THEN [handler EXCEPT !.pc = "results", !.todo = <<>>]
    ELSE LET k == CHOOSE k \in FirstKnown(handler.todo) : TRUE
         IN  [handler EXCEPT !.pc = "capture", !.oid = handler.todo[k],
                             !.todo = SubSeq(@, k + 1, Len(@))]

BatchCancel(user, oids) ==
    /\ RestIdle /\ nextTime <= MaxRequests
    /\ oids # <<>>
    /\ Begin(NextCancel([NoHandler EXCEPT !.kind = "cancel", !.user = user, !.todo = oids]))

\* handle_get_orders drains the store before it lists the orders ...
GetOrders == RestIdle /\ Begin([NoHandler EXCEPT !.pc = "drain"])

\* ... report by report, as long as there is one and the batch is not full; `cursor`
\* counts those of this call.  The exchange may publish meanwhile.
DrainOne ==
    /\ rest.cursor < ListingBatch /\ restCursor < QueueEnd
    /\ restStore' = Apply(restStore, responses[restCursor])
    /\ restCursor' = restCursor + 1
    /\ rest' = [rest EXCEPT !.cursor = @ + 1]

EndDrain ==
    /\ rest.cursor >= ListingBatch \/ restCursor >= QueueEnd
    /\ rest' = NoHandler
    /\ UNCHANGED <<restStore, restCursor>>

Drain == rest.pc = "drain" /\ (DrainOne \/ EndDrain) /\ UNCHANGED <<exchangeVars, known, given>>

-----------------------------------------------------------------------------
\* A handler's request and its answer.

\* The response cursor is captured before the request is published.
CaptureCursor ==
    /\ rest.pc = "capture"
    /\ rest' = [rest EXCEPT !.pc = "publish", !.cursor = QueueEnd]
    /\ UNCHANGED <<exchangeVars, known, given, restStore, restCursor>>

\* Defect: the queue's slot is not cleared, and a cancel goes out with the
\* client order id that an earlier request left in it.
RecycledRequest ==
    [NoRequest EXCEPT !.kind = rest.kind, !.user = rest.user, !.oid = rest.oid, !.qty = rest.qty,
        !.cl = IF rest.kind = "new" THEN rest.cl
               ELSE who[CHOOSE i \in Ids : who[i] # Nobody].cl]

\* The request as the handlers fill it in: a cancel and an edit name their
\* order by the exchange's id alone.
RestRequest ==
    [NoRequest EXCEPT !.kind = rest.kind, !.user = rest.user, !.cl = rest.cl,
                      !.oid = rest.oid, !.qty = rest.qty]

PublishRequest ==
    /\ rest.pc = "publish"
    /\ Submit(RestRequest)
    /\ rest' = [rest EXCEPT !.pc = "wait", !.time = nextTime]
    /\ UNCHANGED <<known, given, restStore, restCursor>>

\* Defect: any report of the user's counts as the answer.
AnswersUser(r) == r.user = rest.user

\* A new order's answer is recognised by user and client order id, a cancel's
\* and an edit's by user and request time.
IsAnswer(r) == /\ r.user = rest.user
               /\ IF rest.kind = "new" THEN r.cl = rest.cl ELSE r.time = rest.time

\* What the handler does with its answer, or without one.  Without one a cancel
\* counts as done, a new order is answered with a timeout, an edit with an error.
Finish(answered, r) ==
    /\ rest' = IF rest.kind = "cancel"
                 THEN NextCancel([rest EXCEPT !.canceled =
                        IF answered /\ r.status = "REJECTED" THEN @ ELSE @ \cup {rest.oid}])
                 ELSE NoHandler
    /\ IF rest.kind = "new" /\ answered /\ r.status # "REJECTED" /\ r.oid # NoId
         THEN known' = known \cup {r.oid} /\ given' = given \cup {r.oid}
         ELSE UNCHANGED <<known, given>>
    /\ UNCHANGED <<exchangeVars, restStore, restCursor>>

\* Defect: the cursor is taken after the request went out.
PollFromTheEnd ==
    /\ rest.pc = "wait" /\ rest.cursor < QueueEnd
    /\ rest' = [rest EXCEPT !.cursor = QueueEnd]
    /\ UNCHANGED <<exchangeVars, known, given, restStore, restCursor>>

\* One poll: reads the report at the cursor, if there is one.
Poll ==
    LET r == responses[rest.cursor]
    IN  /\ rest.pc = "wait" /\ rest.cursor < QueueEnd
        /\ \/ ~IsAnswer(r) /\ rest' = [rest EXCEPT !.cursor = @ + 1]
              /\ UNCHANGED <<exchangeVars, known, given, restStore, restCursor>>
           \/ IsAnswer(r) /\ Finish(TRUE, r)

TimeOut == rest.pc = "wait" /\ Finish(FALSE, NoRequest)

\* handle_batch_cancel: the results.  What counts as cancelled is forgotten.
BuildResults ==
    /\ rest.pc = "results"
    /\ known' = known \ rest.canceled
    /\ rest' = NoHandler
    /\ UNCHANGED <<exchangeVars, given, restStore, restCursor>>

\* An id of the batch that is not a string ends the handler with an error, and
\* the cancels before it have gone out already.
BatchFails ==
    /\ rest.kind = "cancel" /\ rest.pc \in {"capture", "results"}
    /\ rest' = NoHandler
    /\ UNCHANGED <<exchangeVars, known, given, restStore, restCursor>>

RestRequests ==
    \E user \in Users :
        \/ \E cl \in ClOrdIds, c \in Configurations : CreateOrder(user, cl, c[1], c[2])
        \/ \E i \in given : who[i].user = user
             /\ \/ \E p \in Prices \cup {NullPrice}, q \in Sizes \cup {0} : EditOrder(user, i, p, q)
                \/ BatchCancel(user, <<i>>)
                \/ \E j \in given : who[j].user = user /\ BatchCancel(user, <<i, j>>)

RestStep == CaptureCursor \/ PublishRequest \/ Poll \/ TimeOut \/ BuildResults \/ BatchFails

RestNext == RestRequests \/ RestStep
=============================================================================
