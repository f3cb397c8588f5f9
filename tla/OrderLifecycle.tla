--------------------------- MODULE OrderLifecycle ---------------------------
(***************************************************************************)
(* What the exchange promises the owners of orders, whatever its books and *)
(* engines do: the life of an order as its execution reports tell it.      *)
(*                                                                         *)
(* An order is acknowledged or rejected once.  A live order may trade, be  *)
(* replaced or be cancelled; a trade moves a quantity from what is left to *)
(* what has filled, a replacement keeps what has filled, and an order that *)
(* ended is never heard of again.                                          *)
(*                                                                         *)
(* Module Exchange implements this specification.  The gateways see only   *)
(* this much of the exchange, so the modules about them are built on it.   *)
(***************************************************************************)
EXTENDS Integers

CONSTANT Ids    \* the ids of orders

VARIABLE life   \* the last report of each order: its status, fills and leaves

Live == {"NEW", "PARTIALLY_FILLED", "REPLACED"}
Ended == {"FILLED", "CANCELED", "REJECTED"}

Unreported == [status |-> "PENDING_NEW", cum |-> 0, leaves |-> 0]

State(status, cum, leaves) == [status |-> status, cum |-> cum, leaves |-> leaves]

IsLive(i) == life[i].status \in Live

\* publishOrderAck
Accepted(i, qty) ==
    /\ life[i] = Unreported
    /\ life' = [life EXCEPT ![i] = State("NEW", 0, qty)]

\* rejectNewOrderRequest, for an order the engine refused
Refused(i) ==
    /\ life[i] = Unreported
    /\ life' = [life EXCEPT ![i] = State("REJECTED", 0, 0)]

\* publishOrderExecution: the state of an order that traded n.
Traded(o, n) == State(IF o.leaves > n THEN "PARTIALLY_FILLED" ELSE "FILLED",
                      o.cum + n, o.leaves - n)

CanTrade(i, n) == IsLive(i) /\ n > 0 /\ n <= life[i].leaves

\* A fill against liquidity that is not a client's.
Executed(i, n) ==
    /\ CanTrade(i, n)
    /\ life' = [life EXCEPT ![i] = Traded(@, n)]

\* A fill of two clients' orders against each other.
Crossed(i, j, n) ==
    /\ i # j /\ CanTrade(i, n) /\ CanTrade(j, n)
    /\ life' = [life EXCEPT ![i] = Traded(@, n), ![j] = Traded(@, n)]

\* publishOrderModify: the total changes, what has filled does not.
Replaced(i, total) ==
    /\ IsLive(i)
    /\ life' = [life EXCEPT ![i] = State("REPLACED", @.cum,
                                IF @.cum >= total THEN 0 ELSE total - @.cum)]

\* publishOrderCancel
Canceled(i) ==
    /\ IsLive(i)
    /\ life' = [life EXCEPT ![i] = State("CANCELED", @.cum, 0)]

LifeInit == life = [i \in Ids |-> Unreported]

\* The quantities are bounded by the step itself: a total by what the report
\* after it shows, a fill by what was left before it.
LifeNext ==
    \E i \in Ids :
        \/ \E qty \in 0 .. life'[i].cum + life'[i].leaves : Accepted(i, qty) \/ Replaced(i, qty)
        \/ Refused(i) \/ Canceled(i)
        \/ \E n \in 1 .. life[i].leaves : Executed(i, n) \/ \E j \in Ids : Crossed(i, j, n)

LifeSpec == LifeInit /\ [][LifeNext]_life
=============================================================================
