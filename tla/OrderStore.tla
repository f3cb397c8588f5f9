----------------------------- MODULE OrderStore -----------------------------
(***************************************************************************)
(* order_gateway/order_store.hpp: a gateway's own picture of the orders,   *)
(* folded from the execution reports.  The REST gateway's store reads the  *)
(* report queue through a cursor of its own, on demand; the websocket      *)
(* gateway feeds its store every report it reads anyway.                   *)
(***************************************************************************)
EXTENDS Integers

\* A store is a function on the ids it has seen.
EmptyStore == [i \in {} |-> i]

\* Defect: the identity is refreshed from every report, rejects of requests
\* included.
IdentityOfReport(store, r) == [user |-> r.user, cl |-> r.cl]

\* Identity is fixed when an order is first seen.
Identity(store, r) ==
    IF r.oid \in DOMAIN store THEN [user |-> store[r.oid].user, cl |-> store[r.oid].cl]
    ELSE [user |-> r.user, cl |-> r.cl]

\* num_fills: one for each report of a trade.
Fills(store, r) ==
    (IF r.oid \in DOMAIN store THEN store[r.oid].fills ELSE 0) + (IF r.trade THEN 1 ELSE 0)

\* OrderStore::apply: a report without an order id is ignored; any other one
\* overwrites what the store says of its order.
Apply(store, r) ==
    IF r.oid = 0 THEN store
    ELSE LET id == Identity(store, r)
             entry == [user |-> id.user, cl |-> id.cl, status |-> r.status, cum |-> r.cum,
                       leaves |-> r.leaves, fills |-> Fills(store, r)]
         IN  [i \in DOMAIN store \cup {r.oid} |-> IF i = r.oid THEN entry ELSE store[i]]

\* OrderStore::orders_of: one user's orders.  The listing's order is left out.
OrdersOf(store, user) == {i \in DOMAIN store : store[i].user = user}
=============================================================================
