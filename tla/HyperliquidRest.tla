-------------------------- MODULE HyperliquidRest --------------------------
(***************************************************************************)
(* HyperliquidRestOrderGateway: POST /exchange on the gateway's loop       *)
(* thread.  New orders are sent one by one, each waiting for its answer    *)
(* while the thread is held; cancels and modifications are sent and        *)
(* answered at once, whatever becomes of them.                             *)
(***************************************************************************)
EXTENDS OrderReports, FiniteSets

CONSTANTS
    OrderSizes   \* sizes orders carry

ASSUME OrderSizesAssumption == OrderSizes \subseteq Nat

VARIABLE hl   \* the handler at work

\* `todo` is the rest of the action's orders.
HlIdle == [pc |-> "idle", user |-> NoUser, cl |-> NoClOrdId, qty |-> 0,
           time |-> NoTime, cursor |-> 0, todo |-> <<>>]

HlInit == hl = HlIdle

\* process_order_action: the loop head.  An order for an unknown asset has its
\* error noted and is skipped; `todo` holds the others.
NextOrder(h) ==
    IF h.todo = <<>> THEN HlIdle
    ELSE [h EXCEPT !.pc = "capture", !.cl = Head(h.todo).cl, !.qty = Head(h.todo).qty,
                   !.todo = Tail(h.todo)]

\* The client order id is the order's own; without one it is made from the clock
\* and never met again.
OrderAction(user, orders) ==
    /\ hl.pc = "idle" /\ nextTime + Len(orders) - 1 <= MaxRequests
    /\ Cardinality(Unborn) >= Len(orders)
    /\ hl' = NextOrder([HlIdle EXCEPT !.user = user, !.todo = orders])
    /\ UNCHANGED exchangeVars

\* The response cursor is captured before the request is published.
HlCapture ==
    /\ hl.pc = "capture"
    /\ hl' = [hl EXCEPT !.pc = "publish", !.cursor = QueueEnd]
    /\ UNCHANGED exchangeVars

HlPublish ==
    /\ hl.pc = "publish"
    /\ Submit([NoRequest EXCEPT !.kind = "new", !.user = hl.user, !.cl = hl.cl, !.qty = hl.qty])
    /\ hl' = [hl EXCEPT !.pc = "wait", !.time = nextTime]

HlIsAnswer(r) == r.user = hl.user /\ r.cl = hl.cl

\* An accepted order's id is read as a number.  Order ids are not numbers: one
\* that starts with a letter ends the whole action with a parse error, and the
\* orders behind it are never sent.
HlPoll ==
    LET r == responses[hl.cursor]
    IN  /\ hl.pc = "wait" /\ hl.cursor < QueueEnd
        /\ \/ ~HlIsAnswer(r) /\ hl' = [hl EXCEPT !.cursor = @ + 1]
           \/ HlIsAnswer(r) /\ hl' = NextOrder(hl)
           \/ HlIsAnswer(r) /\ r.status # "REJECTED" /\ hl' = HlIdle
        /\ UNCHANGED exchangeVars

HlTimeOut == hl.pc = "wait" /\ hl' = NextOrder(hl) /\ UNCHANGED exchangeVars

\* process_cancel_action and process_batch_modify_action: the number a client
\* was given names no order.  Nobody clears the client order id in the slot of the
\* queue, so a request has the one that was left there: none in a fresh slot, that
\* of an earlier cancel in a recycled one.  What else a slot may hold names no order.
Leftover == ClOrdIds \cup {NoClOrdId}

CancelAction(user, left) ==
    /\ hl.pc = "idle" /\ UNCHANGED hl
    /\ Submit([NoRequest EXCEPT !.kind = "cancel", !.user = user, !.cl = left])
BatchModifyAction(user, left, qty) ==
    /\ hl.pc = "idle" /\ UNCHANGED hl
    /\ Submit([NoRequest EXCEPT !.kind = "replace", !.user = user, !.cl = left, !.qty = qty])

\* process_cancel_by_cloid_action
CancelByCloidAction(user, cl) ==
    /\ hl.pc = "idle" /\ UNCHANGED hl
    /\ Submit([NoRequest EXCEPT !.kind = "cancel", !.user = user, !.cl = cl])

HlStep == HlCapture \/ HlPublish \/ HlPoll \/ HlTimeOut

HlOrders == [cl : ClOrdIds, qty : OrderSizes]

HlNext ==
    \/ HlStep
    \/ \E user \in Users :
        \/ \E o \in HlOrders : OrderAction(user, <<o>>) \/ \E p \in HlOrders : OrderAction(user, <<o, p>>)
        \/ \E left \in Leftover :
             CancelAction(user, left) \/ \E qty \in OrderSizes : BatchModifyAction(user, left, qty)
        \/ \E cl \in ClOrdIds : CancelByCloidAction(user, cl)
=============================================================================
