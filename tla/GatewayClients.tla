--------------------------- MODULE GatewayClients ---------------------------
(***************************************************************************)
(* Machine-checked theorems about what the clients of the order gateways   *)
(* get to know (module OrderGateways): the answer to a new order is its    *)
(* own, a store has what the reports said, and a client's socket shows     *)
(* the state of its orders.                                                *)
(***************************************************************************)
EXTENDS GatewayProofs

-----------------------------------------------------------------------------
\* Names of new orders.

Fresh(cl) == \A i \in Ids : life[i].status \notin Ended => who[i].cl # cl

Untaken == \A k \in 1 .. Len(responses) : responses[k].time # rest.time

NamesOK ==
    /\ gateway = "coinbase_rest" =>
          /\ \A k \in 1 .. Len(requests) : requests[k].kind # "new" => requests[k].cl = NoClOrdId
          /\ work.kind # "new" => work.cl = NoClOrdId
    /\ rest.kind = "new" /\ rest.pc \in {"capture", "publish", "wait"} => rest.cl \in ClOrdIds
    /\ rest.kind = "new" /\ rest.pc \in {"capture", "publish"} =>
          Fresh(rest.cl) /\ \A k \in 1 .. Len(requests) : requests[k].cl # rest.cl
    /\ rest.kind = "new" /\ rest.pc = "publish" =>
          \A k \in rest.cursor .. Len(responses) : responses[k].cl # rest.cl
    /\ rest.kind = "new" /\ rest.pc = "wait" =>
          /\ Untaken => Fresh(rest.cl)
          /\ Untaken => \A k \in 1 .. Len(requests) :
                            requests[k].cl = rest.cl => requests[k].time = rest.time
          /\ \A k \in rest.cursor .. Len(responses) : responses[k].cl = rest.cl =>
                \E m \in 1 .. k : responses[m].time = rest.time

-----------------------------------------------------------------------------
\* The stores and the sockets.

\* The reports of an order before the cursor, and those of its trades.
Seen(queue, i, cursor) == {k \in 1 .. cursor - 1 : queue[k].oid = i}
Trades(queue, i, cursor) == {k \in Seen(queue, i, cursor) : queue[k].trade}

\* The last report of an order before the cursor.
IsLast(queue, k, cursor) ==
    queue[k].oid # NoId /\ \A m \in k + 1 .. cursor - 1 : queue[m].oid # queue[k].oid

\* A store that has read a queue up to the cursor, with the owners of the orders.
StoreOf(store, cursor, queue, owners) ==
    /\ cursor \in 1 .. Len(queue) + 1 /\ DOMAIN store \subseteq Ids
    /\ \A i \in Ids :
          /\ i \in DOMAIN store <=> Seen(queue, i, cursor) # {}
          /\ i \in DOMAIN store =>
                /\ store[i].user = owners[i].user /\ store[i].cl = owners[i].cl
                /\ store[i].fills = Cardinality(Trades(queue, i, cursor))
    /\ \A k \in 1 .. cursor - 1 : IsLast(queue, k, cursor) => store[queue[k].oid].status = queue[k].status

StoresOK ==
    /\ StoreOf(restStore, restCursor, responses, who)
    /\ StoreOf(wsStore, wsCursor, responses, who)

SocketsOK ==
    /\ sock \in [Sockets -> [open : BOOLEAN, user : Users \cup {NoUser}, orders : BOOLEAN]]
    /\ clients \in [Users -> Sockets \cup {NoSocket}]
    /\ DOMAIN view = Sockets
    /\ \A s \in Sockets :
          /\ sock[s].orders => sock[s].user # NoUser
          /\ sock[s].user # NoUser => sock[s].open /\ clients[sock[s].user] = s
    /\ \A u \in Users : clients[u] # NoSocket => sock[clients[u]].user = u

-----------------------------------------------------------------------------
\* New orders and their answers, when a client does not reuse the name of an order that
\* it has under way.

\* A name that no live order has, and only the request q at the head of the queue, stays
\* so until q is taken.
LEMMA FreshStays ==
    ASSUME ExchangeOK, StepOK, NEW cl, Fresh(cl),
           requests' = Tail(requests) /\ requests # <<>> => Head(requests).cl # cl
    PROVE  Fresh(cl)'
  <1>1. \A i \in Ids : life'[i].status \notin Ended => life[i].status \notin Ended
    BY Zenon DEF StepOK, Moves
  <1>2. \A i \in Ids : who'[i] = who[i] \/ who'[i].cl # cl
    BY Zenon DEF StepOK, Silent, Takes, WorksOn
  <1>3. \A i \in Ids : life'[i].status \notin Ended => who'[i].cl # cl
    BY <1>1, <1>2, Zenon DEF Fresh
  <1> QED
    BY <1>3, Zenon DEF Fresh

\* Which names a report may carry.
LEMMA ReportedNames ==
    ASSUME ExchangeOK, NEW r, Takes(r) \/ WorksOn(r), NEW cl \in ClOrdIds, Fresh(cl), r.cl = cl,
           work.kind # "new" => work.cl = NoClOrdId
    PROVE  Takes(r) /\ Head(requests).cl = cl
  <1>1. ~NamesLive(r.cl)
    BY Zenon DEF NamesLive, Fresh
  <1>2. cl # NoClOrdId
    BY NamesAssumption, Zenon
  <1> QED
    BY <1>1, <1>2, Zenon DEF Takes, WorksOn

\* A step of the exchange keeps the agreement between client order ids and reports.
LEMMA NamesMeanwhile ==
    ASSUME ExchangeOK, RestOK, NamesOK, StepOK, gateway = "coinbase_rest",
           UNCHANGED <<rest, known, given>>, UNCHANGED gateway
    PROVE  NamesOK'
  <1>1. /\ rest' = rest /\ gateway' = gateway /\ requests \in Seq(Request)
        /\ \A k \in 1 .. Len(requests) : requests[k].kind # "new" => requests[k].cl = NoClOrdId
        /\ work.kind # "new" => work.cl = NoClOrdId
        /\ rest.kind = "new" /\ rest.pc \in {"capture", "publish", "wait"} => rest.cl \in ClOrdIds
    BY Zenon DEF NamesOK, ExchangeOK, ExchangeType
  <1>2. \A k \in 1 .. Len(requests') : \E m \in 1 .. Len(requests) : requests'[k] = requests[m]
    BY QueueGrowth, Zenon
  <1>3. requests # <<>> => Head(requests) = requests[1] /\ 1 \in 1 .. Len(requests)
    BY <1>1
  <1>4. \A k \in 1 .. Len(requests') : requests'[k].kind # "new" => requests'[k].cl = NoClOrdId
    BY <1>1, <1>2, Zenon
  <1>5. work'.kind # "new" => work'.cl = NoClOrdId
    <2>1. work'.kind = "none" => work'.cl = NoClOrdId
      BY DEF StepOK, ExchangeOK, WorkOK, NoRequest
    <2>2. CASE Silent
      BY <2>2, Zenon DEF Silent, NoRequest
    <2>3. ASSUME NEW r, Takes(r) PROVE work'.kind # "new" => work'.cl = NoClOrdId
      BY <1>1, <1>3, <2>1, <2>3, Zenon DEF Takes
    <2>4. ASSUME NEW r, WorksOn(r) PROVE work'.kind # "new" => work'.cl = NoClOrdId
      <3>1. CASE work' = NoRequest
        BY <3>1, Zenon DEF NoRequest
      <3>2. CASE work' = work
        BY <1>1, <3>2, Zenon
      <3>3. CASE work.kind = "replace" /\ work'.cl = work.cl
        BY <1>1, <3>3, Zenon
      <3> QED
        BY <2>4, <3>1, <3>2, <3>3, Zenon DEF WorksOn
    <2> QED
      BY <2>2, <2>3, <2>4, Zenon DEF StepOK
  <1>6. /\ Len(responses) \in Nat /\ Len(responses') \in Nat
        /\ \A k \in 1 .. Len(responses) : k \in 1 .. Len(responses') /\ responses'[k] = responses[k]
        /\ \A k \in 1 .. Len(responses') : k \notin 1 .. Len(responses) =>
              k = Len(responses) + 1 /\ (Takes(responses'[k]) \/ WorksOn(responses'[k]))
    BY QueueGrowth, Zenon
  <1>7. ASSUME rest.kind = "new", rest.pc \in {"capture", "publish"}
        PROVE  /\ Fresh(rest.cl)' /\ \A k \in 1 .. Len(requests') : requests'[k].cl # rest.cl
               /\ rest.pc = "publish" =>
                     \A k \in rest.cursor .. Len(responses') : responses'[k].cl # rest.cl
    <2>1. PICK cl \in ClOrdIds : cl = rest.cl
      BY <1>1, <1>7, Zenon
    <2>2. Fresh(cl) /\ \A k \in 1 .. Len(requests) : requests[k].cl # cl
      BY <1>7, <2>1, Zenon DEF NamesOK
    <2>3. Fresh(cl)'
      BY <1>3, <2>2, FreshStays, Zenon
    <2>4. \A k \in 1 .. Len(requests') : requests'[k].cl # cl
      BY <1>2, <2>2, Zenon
    <2>5. \A k \in 1 .. Len(responses') : k \notin 1 .. Len(responses) => responses'[k].cl # cl
      <3> SUFFICES ASSUME NEW k \in 1 .. Len(responses'), k \notin 1 .. Len(responses), responses'[k].cl = cl
                   PROVE  FALSE
        BY Zenon
      <3>1. Takes(responses'[k]) /\ Head(requests).cl = cl
        BY <1>1, <1>6, <2>2, ReportedNames, Zenon
      <3> QED
        BY <1>3, <2>2, <3>1, Zenon DEF Takes
    <2>6. ASSUME rest.pc = "publish"
          PROVE  \A k \in rest.cursor .. Len(responses') : responses'[k].cl # cl
      <3>1. rest.cursor \in Nat \ {0}
        BY <2>6, RestFacts
      <3>2. \A k \in rest.cursor .. Len(responses') : k \in 1 .. Len(responses')
        BY <1>6, <3>1
      <3>3. \A k \in rest.cursor .. Len(responses') : k \in 1 .. Len(responses) => k \in rest.cursor .. Len(responses)
        BY <1>6, <3>1
      <3>4. \A k \in rest.cursor .. Len(responses) : responses[k].cl # cl
        BY <1>7, <2>1, <2>6, Zenon DEF NamesOK
      <3> QED
        BY <1>6, <2>5, <3>2, <3>3, <3>4, Zenon
    <2> QED
      BY <1>1, <2>1, <2>3, <2>4, <2>6, Zenon DEF Fresh
  <1>8. ASSUME rest.kind = "new", rest.pc = "wait"
        PROVE  /\ Untaken' => Fresh(rest.cl)'
               /\ Untaken' => \A k \in 1 .. Len(requests') :
                                 requests'[k].cl = rest.cl => requests'[k].time = rest.time
               /\ \A k \in rest.cursor .. Len(responses') : responses'[k].cl = rest.cl =>
                     \E m \in 1 .. k : responses'[m].time = rest.time
    <2>1. PICK cl \in ClOrdIds : cl = rest.cl
      BY <1>1, <1>8, Zenon
    <2>2. /\ Untaken => Fresh(cl)
          /\ Untaken => \A k \in 1 .. Len(requests) : requests[k].cl = cl => requests[k].time = rest.time
          /\ \A k \in rest.cursor .. Len(responses) : responses[k].cl = cl =>
                \E m \in 1 .. k : responses[m].time = rest.time
      BY <1>8, <2>1, Zenon DEF NamesOK
    <2>3. Untaken' => Untaken /\ \A k \in 1 .. Len(responses') : responses'[k].time # rest.time
      BY <1>1, <1>6, Zenon DEF Untaken
    <2>4. \A k \in 1 .. Len(responses') :
             /\ k \notin 1 .. Len(responses) /\ Untaken /\ responses'[k].cl = cl
             => responses'[k].time = rest.time
      <3> SUFFICES ASSUME NEW k \in 1 .. Len(responses'), k \notin 1 .. Len(responses), Untaken,
                          responses'[k].cl = cl
                   PROVE  responses'[k].time = rest.time
        BY Zenon
      <3>1. Takes(responses'[k]) /\ Head(requests).cl = cl
        BY <1>1, <1>6, <2>2, ReportedNames, Zenon
      <3> QED
        BY <1>3, <2>2, <3>1, Zenon DEF Takes
    <2>5. ASSUME Untaken'
          PROVE  Fresh(cl)'
      <3>1. ASSUME requests' = Tail(requests), requests # <<>> PROVE Head(requests).cl # cl
        <4>1. requests' # requests
          <5>1. Len(requests') = Len(requests) - 1 /\ Len(requests) \in Nat \ {0}
            BY <1>1, <3>1, TailFacts, Zenon
          <5> QED
            BY <5>1
        <4>2. PICK r : Publishes(r) /\ Takes(r)
          BY <4>1, Zenon DEF StepOK, Silent, WorksOn
        <4>3. PICK k \in 1 .. Len(responses') : responses'[k] = r
          BY <4>2, AppendFacts DEF Publishes, ExchangeOK, ExchangeType
        <4>4. Head(requests).time # rest.time
          BY <2>3, <2>5, <4>2, <4>3, Zenon DEF Takes
        <4> QED
          BY <1>3, <2>2, <2>3, <2>5, <3>1, <4>4, Zenon
      <3> QED
        BY <2>2, <2>3, <2>5, <3>1, FreshStays, Zenon
    <2>6. Untaken' => \A k \in 1 .. Len(requests') : requests'[k].cl = cl => requests'[k].time = rest.time
      BY <1>2, <2>2, <2>3, ZenonT(40)
    <2>7. \A k \in rest.cursor .. Len(responses') : responses'[k].cl = cl =>
            \E m \in 1 .. k : responses'[m].time = rest.time
      <3> SUFFICES ASSUME NEW k \in rest.cursor .. Len(responses'), responses'[k].cl = cl
                   PROVE  \E m \in 1 .. k : responses'[m].time = rest.time
        BY Zenon
      <3>1. k \in 1 .. Len(responses') /\ k \in 1 .. k
        BY <1>6, <1>8, RestFacts
      <3>2. CASE k \in 1 .. Len(responses)
        <4>1. k \in rest.cursor .. Len(responses)
          BY <1>6, <1>8, <3>2, RestFacts
        <4>2. PICK m \in 1 .. k : responses[m].time = rest.time
          BY <1>6, <2>2, <3>2, <4>1, Zenon
        <4>3. m \in 1 .. Len(responses)
          BY <1>6, <3>2
        <4> QED
          BY <1>6, <4>2, <4>3, Zenon
      <3>3. CASE k \notin 1 .. Len(responses) /\ Untaken
        BY <2>4, <3>1, <3>3, Zenon
      <3>4. CASE k \notin 1 .. Len(responses) /\ ~Untaken
        <4>1. PICK m \in 1 .. Len(responses) : responses[m].time = rest.time
          BY <3>4, Zenon DEF Untaken
        <4>2. m \in 1 .. k
          BY <1>6, <3>1, <3>4
        <4> QED
          BY <1>6, <4>1, <4>2, Zenon
      <3> QED
        BY <3>2, <3>3, <3>4, Zenon
    <2> QED
      BY <1>1, <2>1, <2>5, <2>6, <2>7, Zenon DEF Fresh
  <1> QED
    BY <1>1, <1>4, <1>5, <1>7, <1>8, Zenon DEF NamesOK, Fresh, Untaken

\* A handler's step.
LEMMA NamesRest ==
    ASSUME ~ReuseClOrdIds, ExchangeOK, RestOK, ForgetOK, NamesOK, gateway = "coinbase_rest",
           UNCHANGED gateway, RestNext
    PROVE  NamesOK'
  <1>1. /\ gateway' = gateway /\ rest \in RestHandler
        /\ \A k \in 1 .. Len(requests) : requests[k].kind # "new" => requests[k].cl = NoClOrdId
        /\ work.kind # "new" => work.cl = NoClOrdId
    BY RestFacts, Zenon DEF NamesOK
  <1>2. ASSUME UNCHANGED exchangeVars, rest'.kind # "new" \/ rest'.pc = "idle"
        PROVE  NamesOK'
    <2>1. requests' = requests /\ work' = work
      BY <1>2, Zenon DEF exchangeVars
    <2>2. ~(rest'.kind = "new" /\ rest'.pc \in {"capture", "publish", "wait"})
      BY <1>2, Zenon
    <2> QED
      BY <1>1, <2>1, <2>2, Zenon DEF NamesOK
  <1>3. CASE RestRequests
    <2>0. UNCHANGED exchangeVars
      BY <1>3, RestBegins, Zenon
    <2>1. ASSUME NEW user, NEW cl \in ClOrdIds, NEW price, NEW qty, CreateOrder(user, cl, price, qty)
          PROVE  NamesOK'
      <3>1. /\ life' = life /\ who' = who /\ requests' = requests /\ work' = work
        BY <2>0, Zenon DEF exchangeVars
      <3>2. rest' = [NoHandler EXCEPT !.pc = "capture", !.kind = "new", !.user = user,
                                      !.cl = cl, !.qty = qty]
        BY <2>1, Zenon DEF CreateOrder, Begin
      <3>3. rest'.pc = "capture" /\ rest'.kind = "new" /\ rest'.cl = cl
        BY <3>2, IdleHandler, Zenon DEF RestHandler
      <3>4. Fresh(cl) /\ \A k \in 1 .. Len(requests) : requests[k].cl # cl
        BY <2>1, Zenon DEF CreateOrder, Fresh
      <3> QED
        BY <1>1, <3>1, <3>3, <3>4, Zenon DEF NamesOK, Fresh
    <2>2. ASSUME NEW user, NEW i, NEW price, NEW qty, EditOrder(user, i, price, qty)
          PROVE  NamesOK'
      <3>1. rest' = [NoHandler EXCEPT !.pc = "capture", !.kind = "replace", !.user = user,
                                      !.oid = i, !.qty = qty]
        BY <2>2, Zenon DEF EditOrder, Begin
      <3>2. rest'.kind # "new"
        BY <3>1, IdleHandler, Zenon DEF RestHandler
      <3> QED
        BY <1>2, <2>0, <3>2, Zenon
    <2>3. ASSUME NEW user, NEW oids, BatchCancel(user, oids)
          PROVE  NamesOK'
      <3> DEFINE h == [NoHandler EXCEPT !.kind = "cancel", !.user = user, !.todo = oids]
      <3>1. rest' = NextCancel(h)
        BY <2>3, Zenon DEF BatchCancel, Begin
      <3>2. h.kind = "cancel" /\ DOMAIN h = DOMAIN NoHandler
        BY Zenon DEF NoHandler
      <3>3. NextCancel(h).kind = "cancel"
        BY Zenon DEF NextCancel, NoHandler
      <3> QED
        BY <1>2, <2>0, <3>1, <3>3, Zenon
    <2> QED
      BY <1>3, <2>1, <2>2, <2>3, Zenon DEF RestRequests
  <1>4. ASSUME NEW answered, NEW r, Finish(answered, r), rest.pc = "wait" PROVE NamesOK'
    <2>1. UNCHANGED exchangeVars
      BY <1>4, Zenon DEF Finish
    <2>2. CASE rest.kind # "cancel"
      <3>1. rest' = NoHandler
        BY <1>4, <2>2, Zenon DEF Finish
      <3> QED
        BY <1>2, <2>1, <3>1, IdleHandler, Zenon
    <2>3. CASE rest.kind = "cancel"
      <3> DEFINE c == IF answered /\ r.status = "REJECTED" THEN rest.canceled
                      ELSE rest.canceled \cup {rest.oid}
                 h == [rest EXCEPT !.canceled = c]
      <3>1. rest' = NextCancel(h)
        BY <1>1, <1>4, <2>3, Zenon DEF Finish, RestHandler
      <3> HIDE DEF c
      <3>2. NextCancel(h).kind = "cancel"
        BY <1>1, <2>3, Zenon DEF NextCancel, RestHandler
      <3> QED
        BY <1>2, <2>1, <3>1, <3>2, Zenon
    <2> QED
      BY <2>2, <2>3, Zenon
  <1>5. CASE TimeOut \/ (Poll /\ IsAnswer(responses[rest.cursor]))
    BY <1>4, <1>5, Zenon DEF TimeOut, Poll
  <1>6. CASE BuildResults \/ BatchFails
    <2>1. rest' = NoHandler /\ UNCHANGED exchangeVars
      BY <1>6, Zenon DEF BuildResults, BatchFails
    <2> QED
      BY <1>2, <2>1, IdleHandler, Zenon
  <1>7. CASE CaptureCursor \/ (Poll /\ ~IsAnswer(responses[rest.cursor]))
    <2>1. UNCHANGED exchangeVars
      BY <1>7, Zenon DEF CaptureCursor, Poll
    <2>2. /\ life' = life /\ who' = who /\ requests' = requests /\ responses' = responses /\ work' = work
      BY <2>1, Zenon DEF exchangeVars
    <2>3. QueueEnd = Len(responses) + 1 /\ Len(responses) \in Nat
      BY DEF QueueEnd, ExchangeOK, ExchangeType
    <2>4. CASE CaptureCursor
      <3>1. rest.pc = "capture" /\ rest' = [rest EXCEPT !.pc = "publish", !.cursor = QueueEnd]
        BY <2>4, Zenon DEF CaptureCursor
      <3>2. /\ rest'.pc = "publish" /\ rest'.kind = rest.kind /\ rest'.cl = rest.cl
            /\ rest'.cursor = QueueEnd
        BY <1>1, <3>1, Zenon DEF RestHandler
      <3>3. rest'.cursor .. Len(responses) = {}
        BY <2>3, <3>2
      <3> QED
        BY <1>1, <2>2, <3>1, <3>2, <3>3, Zenon DEF NamesOK, Fresh
    <2>5. CASE Poll /\ ~IsAnswer(responses[rest.cursor])
      <3>1. rest.pc = "wait" /\ rest' = [rest EXCEPT !.cursor = @ + 1]
        BY <2>5, Zenon DEF Poll
      <3>2. /\ rest'.pc = "wait" /\ rest'.kind = rest.kind /\ rest'.cl = rest.cl
            /\ rest'.time = rest.time /\ rest'.cursor = rest.cursor + 1 /\ rest.cursor \in Nat
        BY <1>1, <3>1, Zenon DEF RestHandler
      <3>3. \A k \in rest'.cursor .. Len(responses) : k \in rest.cursor .. Len(responses)
        BY <2>3, <3>2
      <3>4. Untaken' = Untaken
        BY <2>2, <3>2, Zenon DEF Untaken
      <3> QED
        BY <1>1, <2>2, <3>1, <3>2, <3>3, <3>4, ZenonT(40) DEF NamesOK, Fresh
    <2> QED
      BY <1>7, <2>4, <2>5, Zenon
  <1>8. CASE PublishRequest
    <2>1. /\ Joins(RestRequest) /\ RestRequest.cl = rest.cl /\ RestRequest.kind = rest.kind
          /\ rest'.pc = "wait" /\ rest'.kind = rest.kind /\ rest'.cl = rest.cl
          /\ rest'.time = nextTime /\ rest'.cursor = rest.cursor
      BY <1>8, RestPublishes, Zenon
    <2>2. rest.pc = "publish" /\ (rest.kind # "new" => rest.cl = NoClOrdId)
      BY <1>8, RestFacts, Zenon DEF PublishRequest
    <2>3. /\ life' = life /\ who' = who /\ responses' = responses /\ work' = work
          /\ Len(requests') = Len(requests) + 1 /\ Len(requests) \in Nat
          /\ \A k \in 1 .. Len(requests) : requests'[k] = requests[k]
          /\ requests'[Len(requests) + 1].kind = rest.kind
          /\ requests'[Len(requests) + 1].cl = rest.cl
          /\ requests'[Len(requests) + 1].time = nextTime
      <3>1. Len(requests) \in Nat
        BY DEF ExchangeOK, ExchangeType
      <3> QED
        BY <2>1, <3>1, Zenon DEF Joins
    <2>4. \A k \in 1 .. Len(requests') : k \in 1 .. Len(requests) \/ k = Len(requests) + 1
      BY <2>3
    <2>5. \A k \in 1 .. Len(requests') : requests'[k].kind # "new" => requests'[k].cl = NoClOrdId
      BY <1>1, <2>2, <2>3, <2>4, Zenon
    <2>6. ASSUME rest.kind = "new"
          PROVE  /\ rest.cl \in ClOrdIds /\ Fresh(rest.cl)
                 /\ \A k \in 1 .. Len(requests') : requests'[k].cl = rest.cl => requests'[k].time = nextTime
                 /\ \A k \in rest.cursor .. Len(responses) : responses[k].cl # rest.cl
      <3>1. /\ rest.cl \in ClOrdIds /\ Fresh(rest.cl)
            /\ \A k \in 1 .. Len(requests) : requests[k].cl # rest.cl
            /\ \A k \in rest.cursor .. Len(responses) : responses[k].cl # rest.cl
        BY <2>2, <2>6, Zenon DEF NamesOK
      <3> QED
        BY <2>3, <2>4, <3>1, Zenon
    <2> QED
      BY <1>1, <2>1, <2>3, <2>5, <2>6, Zenon DEF NamesOK, Fresh
  <1> QED
    BY <1>3, <1>5, <1>6, <1>7, <1>8, Zenon DEF RestNext, RestStep

\* Every step keeps that agreement, when no client uses a client order id twice.
LEMMA NamesStep ==
    ASSUME ~ReuseClOrdIds, GatewayInv, NamesOK, [Next]_vars
    PROVE  NamesOK'
  <1>1. ExchangeOK /\ RestOK /\ ForgetOK /\ GatewayOK' /\ gateway' = gateway
    BY GatewayStep, Zenon DEF GatewayInv, HandlersOK, Next, vars
  <1>2. CASE gateway # "coinbase_rest"
    BY <1>1, <1>2, Zenon DEF GatewayOK, NamesOK
  <1>3. CASE gateway = "coinbase_rest"
    <2>1. CASE UNCHANGED vars
      <3>1. /\ life' = life /\ who' = who /\ requests' = requests /\ responses' = responses
            /\ work' = work /\ rest' = rest /\ gateway' = gateway
        BY <2>1, Zenon DEF vars, exchangeVars, restVars
      <3> QED
        BY <3>1, Zenon DEF NamesOK, Fresh, Untaken
    <2>2. CASE ExchangeThread
      <3>1. ExchangeNext /\ UNCHANGED <<rest, known, given>>
        BY <2>2, Zenon DEF ExchangeThread, restVars
      <3> QED
        BY <1>1, <1>3, <3>1, ExchangeSteps, NamesMeanwhile, Zenon
    <2>3. CASE RestThread
      <3>1. RestNext
        BY <1>3, <2>3, Zenon DEF RestThread
      <3> QED
        BY <1>1, <1>3, <3>1, NamesRest, Zenon
    <2>4. ~WsThread /\ ~HlThread
      BY <1>3, Zenon DEF WsThread, HlThread
    <2> QED
      BY <2>1, <2>2, <2>3, <2>4, Zenon DEF Next
  <1> QED
    BY <1>2, <1>3, Zenon

\* waitForReport of the Coinbase REST gateway: when client order ids are not used twice, the
\* report that a new order's request takes for its answer is one the request itself has caused.
THEOREM AnswersAreTheirOwn == ~ReuseClOrdIds => (Spec => []AnswersAreOwn)
  <1> SUFFICES ASSUME ~ReuseClOrdIds PROVE Spec => []AnswersAreOwn
    BY Zenon
  <1>1. ASSUME Init PROVE NamesOK
    <2>1. /\ requests = <<>> /\ work = NoRequest /\ rest = NoHandler
      BY <1>1, Zenon DEF Init, ExchangeInit, RestInit
    <2>2. Len(requests) = 0 /\ work.cl = NoClOrdId /\ rest.pc = "idle"
      BY <2>1, IdleHandler, Zenon DEF NoRequest
    <2> QED
      BY <2>2 DEF NamesOK
  <1>2. ASSUME GatewayInv, NamesOK PROVE AnswersAreOwn
    <2> SUFFICES ASSUME rest.pc = "wait", rest.kind = "new", rest.cursor < QueueEnd,
                        IsAnswer(responses[rest.cursor])
                 PROVE  responses[rest.cursor].time = rest.time
      BY Zenon DEF AnswersAreOwn
    <2>1. rest.cursor \in 1 .. Len(responses) /\ rest.cursor \in rest.cursor .. Len(responses)
      BY <1>2, RestFacts DEF GatewayInv, HandlersOK, ExchangeOK, ExchangeType, QueueEnd
    <2>2. responses[rest.cursor].cl = rest.cl
      BY Zenon DEF IsAnswer
    <2>3. PICK m \in 1 .. rest.cursor : responses[m].time = rest.time
      BY <1>2, <2>1, <2>2, Zenon DEF NamesOK
    <2>4. m \notin 1 .. rest.cursor - 1
      BY <1>2, <2>3, Zenon DEF GatewayInv, HandlersOK, RestWaits
    <2>5. m = rest.cursor
      BY <2>1, <2>4
    <2> QED
      BY <2>3, <2>5, Zenon
  <1> QED
    BY <1>1, <1>2, NamesStep, GatewayInvariant, PTL DEF Spec

-----------------------------------------------------------------------------
\* The stores.

\* What a store has read stays as it is while the queue grows.
LEMMA StoreKeeps ==
    ASSUME NEW store, NEW cursor, NEW queue \in Seq(Report), NEW longer, NEW owners, NEW newOwners,
           StoreOf(store, cursor, queue, owners), Len(longer) \in Nat, Len(queue) <= Len(longer),
           \A k \in 1 .. Len(queue) : longer[k] = queue[k],
           \A i \in Ids : Seen(queue, i, cursor) # {} => newOwners[i] = owners[i]
    PROVE  StoreOf(store, cursor, longer, newOwners)
  <1>1. cursor \in 1 .. Len(queue) + 1 /\ DOMAIN store \subseteq Ids /\ Len(queue) \in Nat
    BY DEF StoreOf
  <1>2. /\ cursor \in 1 .. Len(longer) + 1
        /\ \A k \in 1 .. cursor - 1 : k \in 1 .. Len(queue)
        /\ \A k \in 1 .. cursor - 1 : \A m \in k + 1 .. cursor - 1 : m \in 1 .. cursor - 1
    BY <1>1
  <1>3. \A k \in 1 .. cursor - 1 : longer[k] = queue[k]
    BY <1>2, Zenon
  <1>4. \A i \in Ids : Seen(longer, i, cursor) = Seen(queue, i, cursor)
                       /\ Trades(longer, i, cursor) = Trades(queue, i, cursor)
    BY <1>3, Zenon DEF Seen, Trades
  <1>5. \A k \in 1 .. cursor - 1 : IsLast(longer, k, cursor) => IsLast(queue, k, cursor)
    BY <1>2, <1>3, Zenon DEF IsLast
  <1>6. \A i \in Ids :
          /\ i \in DOMAIN store <=> Seen(queue, i, cursor) # {}
          /\ i \in DOMAIN store =>
                /\ store[i].user = owners[i].user /\ store[i].cl = owners[i].cl
                /\ store[i].fills = Cardinality(Trades(queue, i, cursor))
    BY Zenon DEF StoreOf
  <1>7. \A i \in Ids :
          /\ i \in DOMAIN store <=> Seen(longer, i, cursor) # {}
          /\ i \in DOMAIN store =>
                /\ store[i].user = newOwners[i].user /\ store[i].cl = newOwners[i].cl
                /\ store[i].fills = Cardinality(Trades(longer, i, cursor))
    BY <1>4, <1>6, Zenon
  <1>8. \A k \in 1 .. cursor - 1 : IsLast(longer, k, cursor) => store[longer[k].oid].status = longer[k].status
    BY <1>3, <1>5, Zenon DEF StoreOf
  <1> QED
    BY <1>1, <1>2, <1>7, <1>8, Zenon DEF StoreOf

\* One report more has been seen, and it is not the order's.
LEMMA SeenOther ==
    ASSUME NEW queue, NEW cursor \in Nat \ {0}, NEW i, queue[cursor].oid # i
    PROVE  /\ Seen(queue, i, cursor + 1) = Seen(queue, i, cursor)
           /\ Trades(queue, i, cursor + 1) = Trades(queue, i, cursor)
  <1>1. 1 .. (cursor + 1) - 1 = (1 .. cursor - 1) \cup {cursor} /\ cursor \notin 1 .. cursor - 1
    OBVIOUS
  <1> QED
    BY <1>1 DEF Seen, Trades

\* One report more has been seen, and it is the order's.
LEMMA SeenOwn ==
    ASSUME NEW queue, NEW cursor \in Nat \ {0}, NEW i, queue[cursor].oid = i
    PROVE  /\ cursor \in Seen(queue, i, cursor + 1)
           /\ queue[cursor].trade => Trades(queue, i, cursor + 1) = Trades(queue, i, cursor) \cup {cursor}
           /\ ~queue[cursor].trade => Trades(queue, i, cursor + 1) = Trades(queue, i, cursor)
           /\ cursor \notin Trades(queue, i, cursor) /\ IsFiniteSet(Trades(queue, i, cursor))
  <1>1. 1 .. (cursor + 1) - 1 = (1 .. cursor - 1) \cup {cursor} /\ cursor \notin 1 .. cursor - 1
    OBVIOUS
  <1>2. IsFiniteSet(1 .. cursor - 1)
    BY FS_Interval
  <1>3. IsFiniteSet(Trades(queue, i, cursor))
    <2>1. Trades(queue, i, cursor) \subseteq 1 .. cursor - 1
      BY Zenon DEF Trades, Seen
    <2> QED
      BY <1>2, <2>1, FS_Subset, Zenon
  <1> QED
    BY <1>1, <1>3, Zenon DEF Seen, Trades

\* OrderStore::apply keeps a store true to the queue.
LEMMA StoreApplies ==
    ASSUME NEW store, NEW cursor, NEW queue \in Seq(Report), NEW owners,
           StoreOf(store, cursor, queue, owners), cursor \in 1 .. Len(queue), NEW r, r = queue[cursor],
           r.oid # NoId => /\ r.user = owners[r.oid].user
                           /\ r.cl = owners[r.oid].cl \/ \E m \in 1 .. cursor - 1 : queue[m].oid = r.oid
    PROVE  StoreOf(Apply(store, r), cursor + 1, queue, owners)
  <1> DEFINE after == Apply(store, r)
  <1>1. /\ Len(queue) \in Nat /\ cursor \in Nat \ {0} /\ cursor + 1 \in 1 .. Len(queue) + 1
        /\ DOMAIN store \subseteq Ids /\ Ids \subseteq Nat \ {0}
    BY NamesAssumption DEF StoreOf
  <1>2. r \in Report /\ r.oid \in Ids \cup {NoId} /\ r.trade \in BOOLEAN
    BY ItemFacts, ReportFields, Zenon
  <1>3. \A i \in Ids :
          /\ i \in DOMAIN store <=> Seen(queue, i, cursor) # {}
          /\ i \in DOMAIN store =>
                /\ store[i].user = owners[i].user /\ store[i].cl = owners[i].cl
                /\ store[i].fills = Cardinality(Trades(queue, i, cursor))
    BY Zenon DEF StoreOf
  <1>4. \A k \in 1 .. cursor : k \in 1 .. cursor - 1 \/ k = cursor
    BY <1>1
  <1>5. \A k \in 1 .. cursor - 1 : IsLast(queue, k, cursor + 1) =>
          IsLast(queue, k, cursor) /\ r.oid # queue[k].oid
    <2>1. \A k \in 1 .. cursor - 1 : cursor \in k + 1 .. (cursor + 1) - 1
             /\ \A m \in k + 1 .. cursor - 1 : m \in k + 1 .. (cursor + 1) - 1
      BY <1>1
    <2> QED
      BY <2>1, Zenon DEF IsLast
  <1>6. \A k \in 1 .. cursor - 1 : IsLast(queue, k, cursor) => store[queue[k].oid].status = queue[k].status
    BY Zenon DEF StoreOf
  <1>7. CASE r.oid = NoId
    <2>1. after = store
      BY <1>7, Zenon DEF Apply, NoId
    <2>2. \A i \in Ids : r.oid # i
      BY <1>1, <1>7, Zenon DEF NoId
    <2>3. \A i \in Ids : Seen(queue, i, cursor + 1) = Seen(queue, i, cursor)
                        /\ Trades(queue, i, cursor + 1) = Trades(queue, i, cursor)
      <3> TAKE i \in Ids
      <3>1. queue[cursor].oid # i
        BY <2>2, Zenon
      <3> QED
        BY <1>1, <3>1, SeenOther, Zenon
    <2>4. \A k \in 1 .. (cursor + 1) - 1 : IsLast(queue, k, cursor + 1) =>
             store[queue[k].oid].status = queue[k].status
      <3>1. \A k \in 1 .. (cursor + 1) - 1 : k \in 1 .. cursor
        BY <1>1
      <3> QED
        BY <1>4, <1>5, <1>6, <1>7, <3>1, Zenon DEF IsLast
    <2>5. \A i \in Ids :
            /\ i \in DOMAIN store <=> Seen(queue, i, cursor + 1) # {}
            /\ i \in DOMAIN store =>
                  /\ store[i].user = owners[i].user /\ store[i].cl = owners[i].cl
                  /\ store[i].fills = Cardinality(Trades(queue, i, cursor + 1))
      BY <1>3, <2>3, Zenon
    <2> QED
      BY <1>1, <2>1, <2>4, <2>5, Zenon DEF StoreOf
  <1>8. CASE r.oid # NoId
    <2> DEFINE j == r.oid
               entry == after[j]
    <2>1. j \in Ids
      BY <1>2, <1>8, Zenon
    <2>2. /\ DOMAIN after = DOMAIN store \cup {j} /\ entry.status = r.status
          /\ entry.user = (IF j \in DOMAIN store THEN store[j].user ELSE r.user)
          /\ entry.cl = (IF j \in DOMAIN store THEN store[j].cl ELSE r.cl)
          /\ entry.fills = (IF j \in DOMAIN store THEN store[j].fills ELSE 0) + (IF r.trade THEN 1 ELSE 0)
          /\ \A i \in DOMAIN store : i # j => after[i] = store[i]
      BY <1>8, Zenon DEF Apply, Identity, Fills, NoId
    <2> HIDE DEF after
    <2>3. entry.user = owners[j].user /\ entry.cl = owners[j].cl
      <3>1. j \notin DOMAIN store => ~\E m \in 1 .. cursor - 1 : queue[m].oid = j
        BY <1>3, <2>1, Zenon DEF Seen
      <3> QED
        BY <1>3, <1>8, <2>1, <2>2, <3>1, Zenon
    <2>4. entry.fills = Cardinality(Trades(queue, j, cursor + 1))
      <3>1. j \notin DOMAIN store => Trades(queue, j, cursor) = {}
        BY <1>3, <2>1, Zenon DEF Trades
      <3>2. (IF j \in DOMAIN store THEN store[j].fills ELSE 0) = Cardinality(Trades(queue, j, cursor))
        BY <1>3, <2>1, <3>1, FS_EmptySet, Zenon
      <3>3. CASE r.trade
        <4>1. Trades(queue, j, cursor + 1) = Trades(queue, j, cursor) \cup {cursor}
          BY <1>1, <3>3, SeenOwn, ZenonT(40)
        <4>2. Cardinality(Trades(queue, j, cursor + 1)) = Cardinality(Trades(queue, j, cursor)) + 1
          <5>1. cursor \notin Trades(queue, j, cursor) /\ IsFiniteSet(Trades(queue, j, cursor))
            BY <1>1, SeenOwn, ZenonT(40)
          <5> QED
            BY <4>1, <5>1, FS_AddElement, Zenon
        <4> QED
          BY <2>2, <3>2, <3>3, <4>2, Zenon
      <3>4. CASE ~r.trade
        <4>1. Trades(queue, j, cursor + 1) = Trades(queue, j, cursor)
          BY <1>1, <3>4, SeenOwn, Zenon
        <4>2. Cardinality(Trades(queue, j, cursor)) \in Nat
          BY <1>1, SeenOwn, FS_CardinalityType, Zenon
        <4> QED
          BY <2>2, <3>2, <3>4, <4>1, <4>2
      <3> QED
        BY <3>3, <3>4, Zenon
    <2>5. /\ cursor \in Seen(queue, j, cursor + 1)
          /\ \A i \in Ids : i # j => Seen(queue, i, cursor + 1) = Seen(queue, i, cursor)
                                  /\ Trades(queue, i, cursor + 1) = Trades(queue, i, cursor)
      <3>1. cursor \in Seen(queue, j, cursor + 1)
        BY <1>1, SeenOwn, Zenon
      <3>2. ASSUME NEW i \in Ids, i # j
            PROVE  Seen(queue, i, cursor + 1) = Seen(queue, i, cursor)
                   /\ Trades(queue, i, cursor + 1) = Trades(queue, i, cursor)
        <4>1. queue[cursor].oid # i
          BY <3>2, Zenon
        <4> QED
          BY <1>1, <4>1, SeenOther, Zenon
      <3> QED
        BY <3>1, <3>2, Zenon
    <2>6. \A i \in Ids :
            /\ i \in DOMAIN after <=> Seen(queue, i, cursor + 1) # {}
            /\ i \in DOMAIN after =>
                  /\ after[i].user = owners[i].user /\ after[i].cl = owners[i].cl
                  /\ after[i].fills = Cardinality(Trades(queue, i, cursor + 1))
      <3> SUFFICES ASSUME NEW i \in Ids
                   PROVE  /\ i \in DOMAIN after <=> Seen(queue, i, cursor + 1) # {}
                          /\ i \in DOMAIN after =>
                                /\ after[i].user = owners[i].user /\ after[i].cl = owners[i].cl
                                /\ after[i].fills = Cardinality(Trades(queue, i, cursor + 1))
        BY Zenon
      <3>1. CASE i = j
        BY <2>2, <2>3, <2>4, <2>5, <3>1, Zenon
      <3>2. CASE i # j
        BY <1>3, <2>2, <2>5, <3>2, ZenonT(40)
      <3> QED
        BY <3>1, <3>2, Zenon
    <2>7. \A k \in 1 .. (cursor + 1) - 1 : IsLast(queue, k, cursor + 1) =>
             after[queue[k].oid].status = queue[k].status
      <3> SUFFICES ASSUME NEW k \in 1 .. (cursor + 1) - 1, IsLast(queue, k, cursor + 1)
                   PROVE  after[queue[k].oid].status = queue[k].status
        BY Zenon
      <3>1. CASE k = cursor
        BY <2>2, <3>1, Zenon
      <3>2. CASE k \in 1 .. cursor - 1
        <4>1. IsLast(queue, k, cursor) /\ r.oid # queue[k].oid /\ store[queue[k].oid].status = queue[k].status
          BY <1>5, <1>6, <3>2, Zenon
        <4>2. queue[k].oid \in Ids
          <5>1. k \in 1 .. Len(queue)
            BY <1>1, <3>2
          <5> QED
            BY <4>1, <5>1, ItemFacts, ReportFields, Zenon DEF IsLast
        <4>3. queue[k].oid \in DOMAIN store
          BY <1>3, <3>2, <4>2, Zenon DEF Seen
        <4> QED
          BY <2>2, <4>1, <4>3, Zenon
      <3> QED
        BY <1>1, <3>1, <3>2
    <2>8. DOMAIN after \subseteq Ids
      BY <1>1, <2>1, <2>2, Zenon
    <2> QED
      BY <1>1, <2>6, <2>7, <2>8, Zenon DEF StoreOf, after
  <1> QED
    BY <1>7, <1>8, Zenon

\* What a step does not touch.
Quiet == responses' = responses /\ who' = who
RestReads == UNCHANGED <<restStore, restCursor>>

\* Only the exchange reports, only a listing drains the REST gateway's store, and only
\* the websocket gateway's own thread touches what is its own.
LEMMA StoreReaders ==
    ASSUME GatewayInv, Next
    PROVE  \/ StepOK /\ RestReads /\ UNCHANGED wsVars
           \/ Quiet /\ RestReads /\ UNCHANGED wsVars
           \/ Quiet /\ DrainOne /\ UNCHANGED wsVars
           \/ Quiet /\ RestReads /\ WsNext
  <1>1. ExchangeOK
    BY Zenon DEF GatewayInv
  <1>2. ASSUME NEW q, Submit(q) PROVE Quiet
    BY <1>2, Zenon DEF Submit, Quiet
  <1>3. ASSUME UNCHANGED exchangeVars PROVE Quiet
    BY <1>3, Zenon DEF exchangeVars, Quiet
  <1>4. ASSUME UNCHANGED restVars PROVE RestReads
    BY <1>4, Zenon DEF restVars, RestReads
  <1>5. ASSUME NEW h, Begin(h) PROVE Quiet /\ RestReads
    BY <1>3, <1>5, Zenon DEF Begin, RestReads
  <1>6. CASE ExchangeThread
    BY <1>1, <1>4, <1>6, ExchangeSteps, Zenon DEF ExchangeThread
  <1>7. CASE RestThread
    <2>1. UNCHANGED wsVars
      BY <1>7, Zenon DEF RestThread
    <2>2. CASE RestRequests
      <3>1. /\ \A user, cl, price, qty : CreateOrder(user, cl, price, qty) => \E h : Begin(h)
            /\ \A user, i, price, qty : EditOrder(user, i, price, qty) => \E h : Begin(h)
            /\ \A user, oids : BatchCancel(user, oids) => \E h : Begin(h)
        BY Zenon DEF CreateOrder, EditOrder, BatchCancel
      <3>2. \E h : Begin(h)
        BY <2>2, <3>1, Zenon DEF RestRequests
      <3> QED
        BY <1>5, <2>1, <3>2, Zenon
    <2>3. CASE CaptureCursor \/ BuildResults \/ BatchFails \/ Poll \/ TimeOut
      <3>1. UNCHANGED exchangeVars /\ RestReads
        BY <2>3, Zenon DEF CaptureCursor, BuildResults, BatchFails, Poll, TimeOut, Finish, RestReads
      <3> QED
        BY <1>3, <2>1, <3>1, Zenon
    <2>4. CASE PublishRequest
      <3>1. Submit(RestRequest) /\ RestReads
        BY <2>4, Zenon DEF PublishRequest, RestReads
      <3> QED
        BY <1>2, <2>1, <3>1, Zenon
    <2>5. CASE GetOrders
      BY <1>5, <2>1, <2>5, Zenon DEF GetOrders
    <2>6. CASE Drain
      BY <1>3, <2>1, <2>6, Zenon DEF Drain, EndDrain, RestReads
    <2>7. CASE OtherRequest /\ UNCHANGED restVars
      BY <1>1, <1>2, <1>4, <2>1, <2>7, OtherSubmits, Zenon
    <2> QED
      BY <1>7, <2>2, <2>3, <2>4, <2>5, <2>6, <2>7, Zenon DEF RestThread, RestNext, RestStep
  <1>8. CASE WsThread
    BY <1>1, <1>2, <1>3, <1>4, <1>8, WsLeavesExchange, OtherSubmits, Zenon DEF WsThread
  <1>9. CASE HlThread
    <2>1. UNCHANGED wsVars /\ RestReads /\ HlOK /\ HlNext
      BY <1>4, <1>9, Zenon DEF HlThread, GatewayInv, HandlersOK
    <2>2. CASE HlPublish
      BY <1>2, <2>1, <2>2, Zenon DEF HlPublish
    <2>3. CASE \/ HlCapture \/ HlPoll \/ HlTimeOut
               \/ \E user \in Users, o \in HlOrders :
                     OrderAction(user, <<o>>) \/ \E p \in HlOrders : OrderAction(user, <<o, p>>)
      BY <1>1, <1>3, <2>1, <2>3, HlMoves, Zenon
    <2>4. ASSUME NEW user \in Users,
                 \/ \E left \in Leftover :
                      CancelAction(user, left) \/ \E qty \in OrderSizes : BatchModifyAction(user, left, qty)
                 \/ \E cl \in ClOrdIds : CancelByCloidAction(user, cl)
          PROVE  Quiet
      BY <1>1, <1>2, <2>4, HlSubmits, Zenon
    <2> QED
      BY <2>1, <2>2, <2>3, <2>4, Zenon DEF HlNext, HlStep
  <1> QED
    BY <1>6, <1>7, <1>8, <1>9, Zenon DEF Next

\* A store that nobody touches, while the queue may grow.
LEMMA StoreWaits ==
    ASSUME ExchangeOK, StepOK \/ Quiet, NEW store, NEW cursor, StoreOf(store, cursor, responses, who)
    PROVE  StoreOf(store, cursor, responses', who')
  <1>1. CASE Quiet
    BY <1>1, Zenon DEF Quiet
  <1>2. CASE StepOK
    <2>1. responses \in Seq(Report) /\ QueuesOK
      BY Zenon DEF ExchangeOK, ExchangeType
    <2>2. /\ Len(responses') \in Nat /\ Len(responses) <= Len(responses') /\ Len(responses) \in Nat
          /\ \A k \in 1 .. Len(responses) : responses'[k] = responses[k]
      BY <1>2, QueueGrowth, Zenon
    <2>3. ASSUME NEW i \in Ids, Seen(responses, i, cursor) # {} PROVE who'[i] = who[i]
      <3>1. PICK k \in 1 .. cursor - 1 : responses[k].oid = i
        BY <2>3, Zenon DEF Seen
      <3>2. k \in 1 .. Len(responses)
        BY <2>2, <3>1 DEF StoreOf
      <3>3. i # NoId
        BY NamesAssumption, Zenon DEF NoId
      <3>4. i < nextId
        BY <2>1, <3>1, <3>2, <3>3, Zenon DEF QueuesOK, Owned
      <3> QED
        BY <1>2, <3>4, Zenon DEF StepOK, Moves
    <2> QED
      BY <2>1, <2>2, <2>3, StoreKeeps, Zenon
  <1> QED
    BY <1>1, <1>2, Zenon

\* A store reads the next report of the queue.
LEMMA StoreReads ==
    ASSUME ExchangeOK, NEW store, NEW cursor, StoreOf(store, cursor, responses, who), cursor < QueueEnd
    PROVE  StoreOf(Apply(store, responses[cursor]), cursor + 1, responses, who)
  <1>1. responses \in Seq(Report) /\ QueuesOK
    BY Zenon DEF ExchangeOK, ExchangeType
  <1>2. cursor \in 1 .. Len(responses)
    BY <1>1 DEF StoreOf, QueueEnd
  <1>3. responses[cursor].oid # NoId =>
           /\ responses[cursor].user = who[responses[cursor].oid].user
           /\ \/ responses[cursor].cl = who[responses[cursor].oid].cl
              \/ \E m \in 1 .. cursor - 1 : responses[m].oid = responses[cursor].oid
    BY <1>1, <1>2, Zenon DEF QueuesOK, Owned
  <1> QED
    BY <1>1, <1>2, <1>3, StoreApplies, Zenon

\* Every step keeps the order stores in agreement with the reports read so far.
LEMMA StoresStep == ASSUME GatewayInv, StoresOK, [Next]_vars PROVE StoresOK'
  <1>1. ExchangeOK /\ StoreOf(restStore, restCursor, responses, who) /\ StoreOf(wsStore, wsCursor, responses, who)
    BY Zenon DEF GatewayInv, StoresOK
  <1>2. ASSUME RestReads, StepOK \/ Quiet PROVE StoreOf(restStore', restCursor', responses', who')
    <2>1. restStore' = restStore /\ restCursor' = restCursor
      BY <1>2, Zenon DEF RestReads
    <2>2. StoreOf(restStore, restCursor, responses', who')
      BY <1>1, <1>2, StoreWaits, Zenon
    <2> QED
      BY <2>1, <2>2, Zenon
  <1>3. ASSUME wsStore' = wsStore, wsCursor' = wsCursor, StepOK \/ Quiet
        PROVE  StoreOf(wsStore', wsCursor', responses', who')
    <2>1. StoreOf(wsStore, wsCursor, responses', who')
      BY <1>1, <1>3, StoreWaits, Zenon
    <2> QED
      BY <1>3, <2>1, Zenon
  <1>4. ASSUME UNCHANGED wsVars PROVE wsStore' = wsStore /\ wsCursor' = wsCursor
    BY <1>4, Zenon DEF wsVars
  <1>5. ASSUME Quiet, DrainOne PROVE StoreOf(restStore', restCursor', responses', who')
    <2>1. /\ restCursor < QueueEnd /\ restStore' = Apply(restStore, responses[restCursor])
          /\ restCursor' = restCursor + 1 /\ responses' = responses /\ who' = who
      BY <1>5, Zenon DEF Quiet, DrainOne
    <2>2. StoreOf(Apply(restStore, responses[restCursor]), restCursor + 1, responses, who)
      BY <1>1, <2>1, StoreReads, Zenon
    <2> QED
      BY <2>1, <2>2, Zenon
  <1>6. ASSUME Quiet, WsNext PROVE StoreOf(wsStore', wsCursor', responses', who')
    <2>1. CASE ProcessResponse
      <3>1. /\ wsCursor < QueueEnd /\ wsStore' = Apply(wsStore, responses[wsCursor])
            /\ wsCursor' = wsCursor + 1 /\ responses' = responses /\ who' = who
        BY <1>6, <2>1, Zenon DEF Quiet, ProcessResponse, Record
      <3>2. StoreOf(Apply(wsStore, responses[wsCursor]), wsCursor + 1, responses, who)
        BY <1>1, <3>1, StoreReads, Zenon
      <3> QED
        BY <3>1, <3>2, Zenon
    <2>2. CASE wsStore' = wsStore /\ wsCursor' = wsCursor
      BY <1>3, <1>6, <2>2, Zenon
    <2>3. WsNext => ProcessResponse \/ (wsStore' = wsStore /\ wsCursor' = wsCursor)
      BY Zenon DEF WsNext, Open, HandleClose, Subscribe, CheckHeartbeats
    <2> QED
      BY <1>6, <2>1, <2>2, <2>3, Zenon
  <1>7. CASE UNCHANGED vars
    <2>1. Quiet /\ RestReads /\ UNCHANGED wsVars
      BY <1>7, Zenon DEF vars, restVars, exchangeVars, Quiet, RestReads
    <2> QED
      BY <1>2, <1>3, <1>4, <2>1, Zenon DEF StoresOK, StoreOf, IsLast, Seen, Trades
  <1>8. CASE Next
    <2>1. StoreOf(restStore', restCursor', responses', who') /\ StoreOf(wsStore', wsCursor', responses', who')
      BY <1>2, <1>3, <1>4, <1>5, <1>6, <1>8, StoreReaders, Zenon
    <2> QED
      BY <2>1, Zenon DEF StoresOK, StoreOf, IsLast, Seen, Trades
  <1> QED
    BY <1>7, <1>8, Zenon

\* The stores start empty and no report was read.
LEMMA StoresInit == ASSUME Init PROVE StoresOK
  <1>1. responses = <<>> /\ restCursor = 1 /\ wsCursor = 1 /\ restStore = EmptyStore /\ wsStore = EmptyStore
    BY Zenon DEF Init, ExchangeInit, RestInit, WsInit
  <1>2. DOMAIN EmptyStore = {} /\ Len(responses) = 0 /\ 1 .. 1 - 1 = {}
    BY <1>1 DEF EmptyStore
  <1>3. \A i : Seen(responses, i, 1) = {}
    BY <1>2, Zenon DEF Seen
  <1>4. 1 \in 1 .. Len(responses) + 1
    BY <1>2
  <1>5. StoreOf(EmptyStore, 1, responses, who)
    BY <1>2, <1>3, <1>4, Zenon DEF StoreOf
  <1> QED
    BY <1>1, <1>5, Zenon DEF StoresOK

\* Each gateway's store has every order that was reported up to its cursor, under its
\* owner's name and client order id, and has counted each of its trades once.
THEOREM StoresAreTrue == Spec => []StoresAreComplete
  <1>1. Init => GatewayInv /\ StoresOK
    BY GatewayInit, StoresInit, Zenon
  <1>2. GatewayInv /\ StoresOK /\ [Next]_vars => GatewayInv' /\ StoresOK'
    BY GatewayStep, StoresStep, Zenon
  <1>3. StoresOK => StoresAreComplete
    BY Zenon DEF StoresOK, StoreOf, Seen, Trades, StoresAreComplete, StoreIsComplete
  <1> QED
    BY <1>1, <1>2, <1>3, PTL DEF Spec

-----------------------------------------------------------------------------
\* The sockets.

\* A client whose socket told it `v` knows the last report of each of the user's orders.
Informed(queue, cursor, user, v) ==
    \A k \in 1 .. cursor - 1 :
        queue[k].user = user /\ queue[k].status # "PENDING_NEW" /\ IsLast(queue, k, cursor) =>
            queue[k].oid \in DOMAIN v /\ v[queue[k].oid] = queue[k].status

ViewsOK == \A s \in Sockets : sock[s].orders => Informed(responses, wsCursor, sock[s].user, view[s])

\* What a client knows stays true while the queue grows behind the cursor.
LEMMA InformedKeeps ==
    ASSUME NEW queue, NEW longer, NEW cursor, NEW user, NEW v, Len(queue) \in Nat,
           cursor \in 1 .. Len(queue) + 1, Informed(queue, cursor, user, v),
           \A k \in 1 .. Len(queue) : longer[k] = queue[k]
    PROVE  Informed(longer, cursor, user, v)
  <1>1. \A k \in 1 .. cursor - 1 : k \in 1 .. Len(queue) /\ \A m \in k + 1 .. cursor - 1 : m \in 1 .. Len(queue)
    OBVIOUS
  <1>2. \A k \in 1 .. cursor - 1 : longer[k] = queue[k] /\ (IsLast(longer, k, cursor) => IsLast(queue, k, cursor))
    BY <1>1, Zenon DEF IsLast
  <1> QED
    BY <1>2, Zenon DEF Informed

\* A report joins those read: an earlier one that is still the last of its order is not
\* of the same order.
LEMMA StillLast ==
    ASSUME NEW queue, NEW cursor \in Nat \ {0}
    PROVE  /\ \A k \in 1 .. cursor - 1 : IsLast(queue, k, cursor + 1) =>
                 IsLast(queue, k, cursor) /\ queue[cursor].oid # queue[k].oid
           /\ \A k \in 1 .. (cursor + 1) - 1 : k \in 1 .. cursor - 1 \/ k = cursor
  <1>1. \A k \in 1 .. cursor - 1 : cursor \in k + 1 .. (cursor + 1) - 1
             /\ \A m \in k + 1 .. cursor - 1 : m \in k + 1 .. (cursor + 1) - 1
    OBVIOUS
  <1>2. \A k \in 1 .. (cursor + 1) - 1 : k \in 1 .. cursor - 1 \/ k = cursor
    OBVIOUS
  <1> QED
    BY <1>1, <1>2, Zenon DEF IsLast

\* A report that is not for this client leaves what it knows true.
LEMMA InformedOther ==
    ASSUME NEW queue, NEW cursor \in Nat \ {0}, NEW user, NEW v, Informed(queue, cursor, user, v),
           queue[cursor].user # user \/ queue[cursor].status = "PENDING_NEW"
    PROVE  Informed(queue, cursor + 1, user, v)
  BY StillLast, Zenon DEF Informed

\* A report pushed to the client is what it knows of the order.
LEMMA InformedPush ==
    ASSUME NEW queue, NEW cursor \in Nat \ {0}, NEW user, NEW v, Informed(queue, cursor, user, v)
    PROVE  Informed(queue, cursor + 1, user,
                    [i \in DOMAIN v \cup {queue[cursor].oid} |->
                        IF i = queue[cursor].oid THEN queue[cursor].status ELSE v[i]])
  <1> DEFINE r == queue[cursor]
  <1> DEFINE w == [i \in DOMAIN v \cup {r.oid} |-> IF i = r.oid THEN r.status ELSE v[i]]
  <1>1. DOMAIN w = DOMAIN v \cup {r.oid} /\ w[r.oid] = r.status /\ \A i \in DOMAIN v : i # r.oid => w[i] = v[i]
    BY Zenon
  <1> HIDE DEF w
  <1> SUFFICES ASSUME NEW k \in 1 .. (cursor + 1) - 1,
                      queue[k].user = user, queue[k].status # "PENDING_NEW", IsLast(queue, k, cursor + 1)
               PROVE  queue[k].oid \in DOMAIN w /\ w[queue[k].oid] = queue[k].status
    BY Zenon DEF Informed, w
  <1>2. CASE k = cursor
    BY <1>1, <1>2, Zenon
  <1>3. CASE k \in 1 .. cursor - 1
    <2>1. IsLast(queue, k, cursor) /\ r.oid # queue[k].oid
      BY <1>3, StillLast, Zenon
    <2>2. queue[k].oid \in DOMAIN v /\ v[queue[k].oid] = queue[k].status
      BY <1>3, <2>1, Zenon DEF Informed
    <2> QED
      BY <1>1, <2>1, <2>2, Zenon
  <1> QED
    BY <1>2, <1>3, StillLast, Zenon

\* The snapshot of a user's orders has the last report of each of them.
LEMMA InformedSnapshot ==
    ASSUME ExchangeOK, StoreOf(wsStore, wsCursor, responses, who), NEW u
    PROVE  Informed(responses, wsCursor, u, Snapshot(u))
  <1>1. responses \in Seq(Report) /\ QueuesOK /\ Len(responses) \in Nat
    BY DEF ExchangeOK, ExchangeType
  <1> SUFFICES ASSUME NEW k \in 1 .. wsCursor - 1, responses[k].user = u, IsLast(responses, k, wsCursor)
               PROVE  responses[k].oid \in DOMAIN Snapshot(u) /\ Snapshot(u)[responses[k].oid] = responses[k].status
    BY Zenon DEF Informed
  <1> DEFINE i == responses[k].oid
  <1>2. k \in 1 .. Len(responses) /\ i # NoId
    BY <1>1 DEF StoreOf, IsLast
  <1>3. i \in Ids
    BY <1>1, <1>2, ItemFacts, ReportFields, Zenon
  <1>4. who[i].user = u
    BY <1>1, <1>2, Zenon DEF QueuesOK, Owned
  <1>5. i \in DOMAIN wsStore /\ wsStore[i].user = u
    BY <1>3, <1>4, Zenon DEF StoreOf, Seen
  <1>6. wsStore[i].status = responses[k].status
    BY Zenon DEF StoreOf
  <1> QED
    BY <1>5, <1>6, Zenon DEF Snapshot, OrdersOf

\* What the socket lemmas use of a socket.
Socket == [open : BOOLEAN, user : Users \cup {NoUser}, orders : BOOLEAN]

\* A socket that is closed, or just opened, has no user and no subscription.
LEMMA ClosedSocket ==
    /\ Closed \in Socket /\ Closed.user = NoUser /\ ~Closed.orders
    /\ [Closed EXCEPT !.open = TRUE] \in Socket
    /\ [Closed EXCEPT !.open = TRUE].user = NoUser /\ ~[Closed EXCEPT !.open = TRUE].orders
  BY Zenon DEF Closed, Socket

\* A socket that belongs to nobody takes the place of one that is not registered.
LEMMA SocketReset ==
    ASSUME SocketsOK, NEW s \in Sockets, NEW blank \in Socket, blank.user = NoUser, ~blank.orders,
           \A u \in Users : clients[u] = s => clients'[u] = NoSocket,
           \A u \in Users : clients[u] # s => clients'[u] = clients[u],
           clients' \in [Users -> Sockets \cup {NoSocket}],
           sock' = [sock EXCEPT ![s] = blank]
    PROVE  /\ sock' \in [Sockets -> Socket]
           /\ \A t \in Sockets : t # s => sock'[t] = sock[t]
           /\ ~sock'[s].orders
           /\ \A t \in Sockets :
                /\ sock'[t].orders => sock'[t].user # NoUser
                /\ sock'[t].user # NoUser => sock'[t].open /\ clients'[sock'[t].user] = t
           /\ \A u \in Users : clients'[u] # NoSocket => sock'[clients'[u]].user = u
  <1>1. /\ sock \in [Sockets -> Socket]
        /\ \A t \in Sockets : sock[t].user \in Users \cup {NoUser}
    BY Zenon DEF SocketsOK, Socket
  <1>2. sock' \in [Sockets -> Socket] /\ sock'[s] = blank /\ \A t \in Sockets : t # s => sock'[t] = sock[t]
    BY <1>1, Zenon
  <1>3. \A t \in Sockets : t # s =>
                /\ sock'[t].orders => sock'[t].user # NoUser
                /\ sock'[t].user # NoUser => sock'[t].open /\ clients'[sock'[t].user] = t
    <2> SUFFICES ASSUME NEW t \in Sockets, t # s
                 PROVE  /\ sock[t].orders => sock[t].user # NoUser
                        /\ sock[t].user # NoUser => sock[t].open /\ clients'[sock[t].user] = t
      BY <1>2, Zenon
    <2> QED
      BY <1>1, Zenon DEF SocketsOK
  <1>4. ASSUME NEW u \in Users, clients'[u] # NoSocket PROVE sock'[clients'[u]].user = u
    <2>1. clients[u] # s /\ clients'[u] = clients[u] /\ clients[u] # NoSocket
      BY <1>4, Zenon
    <2>2. clients[u] \in Sockets /\ sock[clients[u]].user = u
      BY <2>1, Zenon DEF SocketsOK
    <2> QED
      BY <1>2, <2>1, <2>2, Zenon
  <1> QED
    BY <1>2, <1>3, <1>4, Zenon

\* A client that connects keeps the agreement of sockets, subscriptions and views.
LEMMA OpenStep == ASSUME SocketsOK, ViewsOK, NEW s \in Sockets, Open(s) PROVE SocketsOK' /\ ViewsOK'
  <1>1. /\ ~sock[s].open /\ sock' = [sock EXCEPT ![s] = [Closed EXCEPT !.open = TRUE]]
        /\ view' = [view EXCEPT ![s] = NoView] /\ clients' = clients
        /\ responses' = responses /\ wsCursor' = wsCursor
    BY Zenon DEF Open, exchangeVars
  <1>2. \A u \in Users : clients[u] # s
    <2> SUFFICES ASSUME NEW u \in Users, clients[u] = s PROVE FALSE
      BY Zenon
    <2>1. clients[u] # NoSocket
      BY SocketsAssumption, Zenon
    <2>2. sock[s].user = u /\ u # NoUser
      BY <2>1, NamesAssumption, Zenon DEF SocketsOK
    <2> QED
      BY <1>1, <2>2, Zenon DEF SocketsOK
  <1>3. clients' \in [Users -> Sockets \cup {NoSocket}] /\ DOMAIN view = Sockets
    BY <1>1, Zenon DEF SocketsOK
  <1>4. /\ sock' \in [Sockets -> Socket]
        /\ \A t \in Sockets : t # s => sock'[t] = sock[t]
        /\ ~sock'[s].orders
        /\ \A t \in Sockets :
             /\ sock'[t].orders => sock'[t].user # NoUser
             /\ sock'[t].user # NoUser => sock'[t].open /\ clients'[sock'[t].user] = t
        /\ \A u \in Users : clients'[u] # NoSocket => sock'[clients'[u]].user = u
    BY <1>1, <1>2, <1>3, ClosedSocket, SocketReset, Zenon
  <1>5. DOMAIN view' = Sockets /\ \A t \in Sockets : t # s => view'[t] = view[t]
    BY <1>1, <1>3, Zenon
  <1>6. SocketsOK'
    BY <1>3, <1>4, <1>5, Zenon DEF SocketsOK, Socket
  <1>7. ViewsOK'
    <2>1. ASSUME NEW t \in Sockets, sock'[t].orders
          PROVE  Informed(responses', wsCursor', sock'[t].user, view'[t])
      <3>1. t # s
        BY <1>4, <2>1, Zenon
      <3>2. sock'[t] = sock[t] /\ view'[t] = view[t]
        BY <1>4, <1>5, <3>1, Zenon
      <3>3. Informed(responses, wsCursor, sock[t].user, view[t])
        BY <2>1, <3>2, Zenon DEF ViewsOK
      <3> QED
        BY <1>1, <3>2, <3>3, Zenon
    <2> QED
      BY <2>1, Zenon DEF ViewsOK, Informed, IsLast
  <1> QED
    BY <1>6, <1>7, Zenon

\* handleClose keeps it: the socket's user is forgotten with the socket.
LEMMA CloseStep == ASSUME SocketsOK, ViewsOK, NEW s \in Sockets, HandleClose(s) PROVE SocketsOK' /\ ViewsOK'
  <1>1. /\ sock[s].open /\ sock' = [sock EXCEPT ![s] = Closed]
        /\ view' = [view EXCEPT ![s] = NoView]
        /\ clients' = IF sock[s].user # NoUser THEN [clients EXCEPT ![sock[s].user] = NoSocket] ELSE clients
        /\ responses' = responses /\ wsCursor' = wsCursor
    BY Zenon DEF HandleClose, exchangeVars
  <1>2. /\ clients \in [Users -> Sockets \cup {NoSocket}] /\ DOMAIN view = Sockets
        /\ sock[s].user \in Users \cup {NoUser}
        /\ sock[s].user # NoUser => clients[sock[s].user] = s
        /\ \A u \in Users : clients[u] = s => sock[s].user = u /\ u # NoUser
    BY SocketsAssumption, NamesAssumption DEF SocketsOK
  <1>3. /\ clients' \in [Users -> Sockets \cup {NoSocket}]
        /\ \A u \in Users : clients[u] = s => clients'[u] = NoSocket
        /\ \A u \in Users : clients[u] # s => clients'[u] = clients[u]
    BY <1>1, <1>2, Zenon
  <1>4. /\ sock' \in [Sockets -> Socket]
        /\ \A t \in Sockets : t # s => sock'[t] = sock[t]
        /\ ~sock'[s].orders
        /\ \A t \in Sockets :
             /\ sock'[t].orders => sock'[t].user # NoUser
             /\ sock'[t].user # NoUser => sock'[t].open /\ clients'[sock'[t].user] = t
        /\ \A u \in Users : clients'[u] # NoSocket => sock'[clients'[u]].user = u
    BY <1>1, <1>3, ClosedSocket, SocketReset, Zenon
  <1>5. DOMAIN view' = Sockets /\ \A t \in Sockets : t # s => view'[t] = view[t]
    BY <1>1, <1>2, Zenon
  <1>6. SocketsOK'
    BY <1>3, <1>4, <1>5, Zenon DEF SocketsOK, Socket
  <1>7. ViewsOK'
    <2>1. ASSUME NEW t \in Sockets, sock'[t].orders
          PROVE  Informed(responses', wsCursor', sock'[t].user, view'[t])
      <3>1. t # s
        BY <1>4, <2>1, Zenon
      <3>2. sock'[t] = sock[t] /\ view'[t] = view[t]
        BY <1>4, <1>5, <3>1, Zenon
      <3>3. Informed(responses, wsCursor, sock[t].user, view[t])
        BY <2>1, <3>2, Zenon DEF ViewsOK
      <3> QED
        BY <1>1, <3>2, <3>3, Zenon
    <2> QED
      BY <2>1, Zenon DEF ViewsOK, Informed, IsLast
  <1> QED
    BY <1>6, <1>7, Zenon

\* checkHeartbeats keeps it: every stale connection is closed with its user.
LEMMA HeartbeatStep ==
    ASSUME SocketsOK, ViewsOK, NEW stale \in SUBSET ({clients[u] : u \in Users} \ {NoSocket}), CheckHeartbeats(stale)
    PROVE  SocketsOK' /\ ViewsOK'
  <1>1. /\ clients' = [u \in Users |-> IF clients[u] \in stale THEN NoSocket ELSE clients[u]]
        /\ sock' = [s \in Sockets |-> IF s \in stale THEN Closed ELSE sock[s]]
        /\ view' = [s \in Sockets |-> IF s \in stale THEN NoView ELSE view[s]]
        /\ responses' = responses /\ wsCursor' = wsCursor
    BY Zenon DEF CheckHeartbeats, exchangeVars
  <1>2. /\ clients \in [Users -> Sockets \cup {NoSocket}] /\ sock \in [Sockets -> Socket]
        /\ \A t \in Sockets : sock[t].user \in Users \cup {NoUser}
        /\ \A t \in Sockets : sock[t].orders => sock[t].user # NoUser
        /\ \A t \in Sockets : sock[t].user # NoUser => sock[t].open /\ clients[sock[t].user] = t
        /\ \A u \in Users : clients[u] # NoSocket => sock[clients[u]].user = u
    BY Zenon DEF SocketsOK, Socket
  <1>3. /\ clients' \in [Users -> Sockets \cup {NoSocket}] /\ sock' \in [Sockets -> Socket]
        /\ DOMAIN view' = Sockets
    BY <1>1, <1>2, ClosedSocket, Zenon
  <1>4. \A t \in Sockets : t \notin stale => sock'[t] = sock[t] /\ view'[t] = view[t]
    BY <1>1, Zenon
  <1>5. \A t \in Sockets : t \in stale => sock'[t].user = NoUser /\ ~sock'[t].orders
    BY <1>1, ClosedSocket, Zenon
  <1>6. \A u \in Users : /\ clients[u] \in stale => clients'[u] = NoSocket
                         /\ clients[u] \notin stale => clients'[u] = clients[u]
    BY <1>1, Zenon
  <1>7. \A t \in Sockets :
          /\ sock'[t].orders => sock'[t].user # NoUser
          /\ sock'[t].user # NoUser => sock'[t].open /\ clients'[sock'[t].user] = t
    <2> TAKE t \in Sockets
    <2>1. CASE t \in stale
      BY <1>5, <2>1, Zenon
    <2>2. CASE t \notin stale
      BY <1>2, <1>4, <1>6, <2>2
    <2> QED
      BY <2>1, <2>2, Zenon
  <1>8. ASSUME NEW u \in Users, clients'[u] # NoSocket PROVE sock'[clients'[u]].user = u
    <2>1. clients[u] \notin stale /\ clients'[u] = clients[u] /\ clients[u] \in Sockets
      BY <1>2, <1>6, <1>8
    <2> QED
      BY <1>2, <1>4, <1>8, <2>1
  <1>9. SocketsOK'
    BY <1>3, <1>7, <1>8, Zenon DEF SocketsOK, Socket
  <1>10. ViewsOK'
    <2> SUFFICES ASSUME NEW t \in Sockets, sock'[t].orders PROVE Informed(responses, wsCursor, sock[t].user, view[t]) /\ t \notin stale
      BY <1>1, <1>4 DEF ViewsOK, Informed, IsLast
    <2> QED
      BY <1>4, <1>5, Zenon DEF ViewsOK
  <1> QED
    BY <1>9, <1>10, Zenon

\* With one connection to a user there is no other socket of the same user.
LEMMA OneConnection ==
    ASSUME SocketsPerUser = 1, SocketsOK, NEW s \in Sockets, NEW u \in Users,
           Cardinality({t \in Sockets : sock[t].open /\ sock[t].user = u} \ {s}) < SocketsPerUser
    PROVE  \A t \in Sockets : sock[t].user = u => t = s
  <1> DEFINE others == {t \in Sockets : sock[t].open /\ sock[t].user = u} \ {s}
  <1>1. IsFiniteSet(others)
    BY SocketsAssumption, FS_Subset, others \subseteq Sockets, Zenon
  <1>2. Cardinality(others) \in Nat /\ Cardinality(others) < 1
    BY <1>1, FS_CardinalityType, Zenon
  <1>3. others = {}
    BY <1>1, <1>2, FS_EmptySet
  <1>4. \A t \in Sockets : sock[t].user = u => sock[t].open
    BY NamesAssumption, Zenon DEF SocketsOK
  <1> QED
    BY <1>3, <1>4, Zenon

\* A subscription keeps it: the snapshot is what the store holds for the user, when a user has
\* one socket at a time.
LEMMA SubscribeStep ==
    ASSUME SocketsPerUser = 1, ExchangeOK, StoresOK, SocketsOK, ViewsOK,
           NEW s \in Sockets, NEW u \in Users, NEW channel, Subscribe(s, u, channel)
    PROVE  SocketsOK' /\ ViewsOK'
  <1>1. /\ sock[s].open /\ sock[s].user \in {NoUser, u}
        /\ Cardinality({t \in Sockets : sock[t].open /\ sock[t].user = u} \ {s}) < SocketsPerUser
        /\ sock' = [sock EXCEPT ![s] = [open |-> TRUE, user |-> u, orders |-> sock[s].orders \/ channel = "user"]]
        /\ clients' = IF clients[u] = NoSocket THEN [clients EXCEPT ![u] = s] ELSE clients
        /\ view' = IF channel = "user" THEN [view EXCEPT ![s] = Snapshot(u)] ELSE view
        /\ responses' = responses /\ wsCursor' = wsCursor
    BY Zenon DEF Subscribe, Register, exchangeVars
  <1>2. \A t \in Sockets : sock[t].user = u => t = s
    BY <1>1, OneConnection, Zenon
  <1>3. /\ clients \in [Users -> Sockets \cup {NoSocket}] /\ sock \in [Sockets -> Socket]
        /\ DOMAIN view = Sockets /\ u # NoUser /\ s # NoSocket
        /\ \A t \in Sockets : sock[t].user \in Users \cup {NoUser}
        /\ \A t \in Sockets : sock[t].orders => sock[t].user # NoUser
        /\ \A t \in Sockets : sock[t].user # NoUser => sock[t].open /\ clients[sock[t].user] = t
        /\ \A v \in Users : clients[v] # NoSocket => sock[clients[v]].user = v
    BY NamesAssumption, SocketsAssumption, Zenon DEF SocketsOK, Socket
  <1>4. clients[u] # NoSocket => clients[u] = s
    BY <1>2, <1>3
  <1>5. /\ clients' \in [Users -> Sockets \cup {NoSocket}] /\ clients'[u] = s
        /\ \A v \in Users : v # u => clients'[v] = clients[v]
    BY <1>1, <1>3, <1>4, Zenon
  <1>6. /\ sock' \in [Sockets -> Socket]
        /\ sock'[s].user = u /\ sock'[s].open /\ sock'[s].orders = (sock[s].orders \/ channel = "user")
        /\ \A t \in Sockets : t # s => sock'[t] = sock[t]
    <2> DEFINE mine == [open |-> TRUE, user |-> u, orders |-> sock[s].orders \/ channel = "user"]
    <2>1. mine \in Socket /\ mine.user = u /\ mine.open /\ mine.orders = (sock[s].orders \/ channel = "user")
      BY Zenon DEF Socket
    <2> HIDE DEF mine
    <2>2. sock' = [sock EXCEPT ![s] = mine]
      BY <1>1, Zenon DEF mine
    <2> QED
      BY <1>3, <2>1, <2>2, Zenon
  <1>7. /\ DOMAIN view' = Sockets /\ \A t \in Sockets : t # s => view'[t] = view[t]
        /\ channel = "user" => view'[s] = Snapshot(u)
        /\ channel # "user" => view'[s] = view[s]
    BY <1>1, <1>3, Zenon
  <1>8. \A t \in Sockets :
          /\ sock'[t].orders => sock'[t].user # NoUser
          /\ sock'[t].user # NoUser => sock'[t].open /\ clients'[sock'[t].user] = t
    <2> TAKE t \in Sockets
    <2>1. CASE t = s
      BY <1>3, <1>5, <1>6, <2>1, Zenon
    <2>2. CASE t # s
      <3>1. sock'[t] = sock[t] /\ sock[t].user # u
        BY <1>2, <1>6, <2>2, Zenon
      <3> QED
        BY <1>3, <1>5, <3>1
    <2> QED
      BY <2>1, <2>2, Zenon
  <1>9. ASSUME NEW v \in Users, clients'[v] # NoSocket PROVE sock'[clients'[v]].user = v
    <2>1. CASE v = u
      BY <1>5, <1>6, <2>1, Zenon
    <2>2. CASE v # u
      <3>1. clients'[v] = clients[v] /\ clients[v] \in Sockets /\ sock[clients[v]].user = v
        BY <1>3, <1>5, <1>9, <2>2, Zenon
      <3>2. clients[v] # s
        BY <1>1, <1>3, <2>2, <3>1, NamesAssumption
      <3> QED
        BY <1>6, <3>1, <3>2, Zenon
    <2> QED
      BY <2>1, <2>2, Zenon
  <1>10. SocketsOK'
    BY <1>5, <1>7, <1>6, <1>8, <1>9, Zenon DEF SocketsOK, Socket
  <1>11. Informed(responses, wsCursor, u, Snapshot(u))
    BY InformedSnapshot, Zenon DEF StoresOK
  <1>12. ASSUME NEW t \in Sockets, sock'[t].orders PROVE Informed(responses, wsCursor, sock'[t].user, view'[t])
    <2>1. CASE t # s
      <3>1. Informed(responses, wsCursor, sock[t].user, view[t])
        BY <1>6, <1>12, <2>1, Zenon DEF ViewsOK
      <3> QED
        BY <1>6, <1>7, <2>1, <3>1, Zenon
    <2>2. CASE t = s /\ channel = "user"
      BY <1>6, <1>7, <1>11, <2>2, Zenon
    <2>3. CASE t = s /\ channel # "user"
      <3>1. sock[s].orders /\ sock[s].user = u
        BY <1>1, <1>3, <1>6, <1>12, <2>3, Zenon
      <3>2. Informed(responses, wsCursor, u, view[s])
        BY <3>1, Zenon DEF ViewsOK
      <3> QED
        BY <1>6, <1>7, <2>3, <3>2, Zenon
    <2> QED
      BY <2>1, <2>2, <2>3, Zenon
  <1>13. ViewsOK'
    <2>1. responses' = responses /\ wsCursor' = wsCursor
      BY <1>1, Zenon
    <2> QED
      BY <1>12, <2>1, ZenonT(40) DEF ViewsOK, Informed, IsLast
  <1> QED
    BY <1>10, <1>13, Zenon

\* processResponse keeps it: the report goes to the store and to the user's socket in one step.
LEMMA ProcessStep ==
    ASSUME ExchangeOK, StoresOK, SocketsOK, ViewsOK, ProcessResponse
    PROVE  SocketsOK' /\ ViewsOK'
  <1> DEFINE r == responses[wsCursor]
  <1>1. /\ wsCursor < QueueEnd /\ wsCursor' = wsCursor + 1 /\ view' = Push(r)
        /\ responses' = responses /\ sock' = sock /\ clients' = clients
    BY Zenon DEF ProcessResponse, exchangeVars
  <1>2. wsCursor \in Nat \ {0} /\ wsCursor \in 1 .. Len(responses) /\ responses \in Seq(Report)
    <2>1. responses \in Seq(Report) /\ wsCursor \in 1 .. Len(responses) + 1 /\ wsCursor < Len(responses) + 1
      BY <1>1, Zenon DEF StoresOK, StoreOf, QueueEnd, ExchangeOK, ExchangeType
    <2>2. Len(responses) \in Nat
      BY <2>1
    <2> QED
      BY <2>1, <2>2
  <1>3. r.user \in Users
    BY <1>2, ItemFacts, ReportFields, Zenon
  <1>4. DOMAIN view = Sockets /\ clients \in [Users -> Sockets \cup {NoSocket}]
    BY Zenon DEF SocketsOK
  <1>5. /\ DOMAIN view' = Sockets
        /\ \A t \in Sockets : t # clients[r.user] \/ r.status = "PENDING_NEW" => view'[t] = view[t]
        /\ \A t \in Sockets : t = clients[r.user] /\ r.status # "PENDING_NEW" =>
              view'[t] = [i \in DOMAIN view[t] \cup {r.oid} |-> IF i = r.oid THEN r.status ELSE view[t][i]]
    BY <1>1, <1>3, <1>4, SocketsAssumption, Zenon DEF Push
  <1>6. SocketsOK'
    BY <1>1, <1>5, Zenon DEF SocketsOK
  <1>7. ASSUME NEW t \in Sockets, sock[t].orders PROVE Informed(responses, wsCursor + 1, sock[t].user, view'[t])
    <2>1. Informed(responses, wsCursor, sock[t].user, view[t])
      BY <1>7, Zenon DEF ViewsOK
    <2>2. clients[sock[t].user] = t
      BY <1>7, Zenon DEF SocketsOK
    <2>3. CASE t # clients[r.user] \/ r.status = "PENDING_NEW"
      <3>1. r.user # sock[t].user \/ r.status = "PENDING_NEW"
        BY <2>2, <2>3, Zenon
      <3>2. Informed(responses, wsCursor + 1, sock[t].user, view[t])
        BY <1>2, <2>1, <3>1, InformedOther, Zenon
      <3> QED
        BY <1>5, <2>3, <3>2, Zenon
    <2>4. CASE t = clients[r.user] /\ r.status # "PENDING_NEW"
      <3>1. Informed(responses, wsCursor + 1, sock[t].user,
                     [i \in DOMAIN view[t] \cup {r.oid} |-> IF i = r.oid THEN r.status ELSE view[t][i]])
        BY <1>2, <2>1, InformedPush, ZenonT(40)
      <3> QED
        BY <1>5, <2>4, <3>1, Zenon
    <2> QED
      BY <2>3, <2>4, Zenon
  <1>8. ViewsOK'
    BY <1>1, <1>7, ZenonT(40) DEF ViewsOK, Informed, IsLast
  <1> QED
    BY <1>6, <1>8, Zenon

\* Nothing happens to the sockets, while the queue may grow.
LEMMA SocketsWait ==
    ASSUME ExchangeOK, StoresOK, SocketsOK, ViewsOK, StepOK \/ Quiet, UNCHANGED wsVars
    PROVE  SocketsOK' /\ ViewsOK'
  <1>1. sock' = sock /\ clients' = clients /\ view' = view /\ wsCursor' = wsCursor
    BY Zenon DEF wsVars
  <1>2. SocketsOK'
    BY <1>1, Zenon DEF SocketsOK
  <1>3. Len(responses) \in Nat /\ wsCursor \in 1 .. Len(responses) + 1
    BY DEF StoresOK, StoreOf, ExchangeOK, ExchangeType
  <1>4. \A k \in 1 .. Len(responses) : responses'[k] = responses[k]
    BY QueueGrowth, Zenon DEF Quiet
  <1>5. ASSUME NEW t \in Sockets, sock[t].orders PROVE Informed(responses', wsCursor, sock[t].user, view[t])
    <2>1. Informed(responses, wsCursor, sock[t].user, view[t])
      BY <1>5, Zenon DEF ViewsOK
    <2> QED
      BY <1>3, <1>4, <2>1, InformedKeeps, Zenon
  <1>6. ViewsOK'
    BY <1>1, <1>5, Zenon DEF ViewsOK, Informed, IsLast
  <1> QED
    BY <1>2, <1>6, Zenon

\* Every step keeps the agreement of sockets, subscriptions and views.
LEMMA SocketsStep ==
    ASSUME SocketsPerUser = 1, GatewayInv, StoresOK, SocketsOK, ViewsOK, [Next]_vars
    PROVE  SocketsOK' /\ ViewsOK'
  <1>1. ExchangeOK
    BY Zenon DEF GatewayInv
  <1>2. CASE WsNext
    BY <1>1, <1>2, OpenStep, CloseStep, SubscribeStep, HeartbeatStep, ProcessStep, Zenon DEF WsNext
  <1>3. CASE (StepOK \/ Quiet) /\ UNCHANGED wsVars
    BY <1>1, <1>3, SocketsWait, Zenon
  <1>4. CASE UNCHANGED vars
    <2>1. Quiet /\ UNCHANGED wsVars
      BY <1>4, Zenon DEF vars, exchangeVars, Quiet
    <2> QED
      BY <1>3, <2>1, Zenon
  <1> QED
    BY <1>2, <1>3, <1>4, StoreReaders, Zenon

\* No socket is open and no view is held at the start.
LEMMA SocketsInit == ASSUME Init PROVE SocketsOK /\ ViewsOK
  <1>1. /\ sock = [s \in Sockets |-> Closed] /\ clients = [u \in Users |-> NoSocket]
        /\ view = [s \in Sockets |-> NoView]
    BY Zenon DEF Init, WsInit
  <1>2. \A s \in Sockets : sock[s].user = NoUser /\ ~sock[s].orders
    BY <1>1, ClosedSocket, Zenon
  <1>3. sock \in [Sockets -> Socket] /\ \A u \in Users : clients[u] = NoSocket
    BY <1>1, ClosedSocket, Zenon
  <1>4. clients \in [Users -> Sockets \cup {NoSocket}] /\ DOMAIN view = Sockets
    BY <1>1, Zenon
  <1> QED
    BY <1>2, <1>3, <1>4, Zenon DEF SocketsOK, ViewsOK, Socket

\* With one connection to a user, a client that subscribed to its orders knows the last
\* thing reported of each of them: the snapshot and the pushes leave no gap, whatever
\* connects, closes or goes stale in between.
THEOREM ClientsKnowTheirOrders == SocketsPerUser = 1 => (Spec => []ClientsSeeTheirOrders)
  <1> SUFFICES ASSUME SocketsPerUser = 1 PROVE Spec => []ClientsSeeTheirOrders
    BY Zenon
  <1>1. Init => GatewayInv /\ StoresOK /\ SocketsOK /\ ViewsOK
    BY GatewayInit, StoresInit, SocketsInit, Zenon
  <1>2. GatewayInv /\ StoresOK /\ SocketsOK /\ ViewsOK /\ [Next]_vars
           => GatewayInv' /\ StoresOK' /\ SocketsOK' /\ ViewsOK'
    BY GatewayStep, StoresStep, SocketsStep, Zenon
  <1>3. ViewsOK => ClientsSeeTheirOrders
    BY Zenon DEF ViewsOK, Informed, IsLast, ClientsSeeTheirOrders
  <1> QED
    BY <1>1, <1>2, <1>3, PTL DEF Spec

=============================================================================
