---------------------------- MODULE GatewayProofs ----------------------------
(***************************************************************************)
(* Machine-checked theorems about the order gateways (module               *)
(* OrderGateways), for any number of orders, users, requests and sockets.  *)
(***************************************************************************)
EXTENDS OrderGateways, FiniteSetTheorems, TLAPS

-----------------------------------------------------------------------------
\* The invariant of the exchange and its queues.

Names   == ClOrdIds \cup {NoClOrdId}
Owner   == [user : Users \cup {NoUser}, cl : Names]
Lives   == [status : Live \cup Ended \cup {"PENDING_NEW"}, cum : Nat, leaves : Nat]
Request == [kind : {"none", "new", "cancel", "replace", "replaced"}, user : Users \cup {NoUser},
            cl : Names, oid : Ids \cup {NoId}, qty : Nat, time : Nat, order : Ids \cup {NoId}]
Report  == [oid : Ids \cup {NoId}, user : Users, cl : Names,
            status : Live \cup Ended \cup {"PENDING_NEW", "PENDING_CANCEL", "PENDING_REPLACE"},
            cum : Nat, leaves : Nat, time : Nat, trade : BOOLEAN]

ExchangeType ==
    /\ life \in [Ids -> Lives] /\ who \in [Ids -> Owner]
    /\ nextId \in Nat \ {0} /\ nextTime \in Nat \ {0}
    /\ requests \in Seq(Request) /\ responses \in Seq(Report) /\ work \in Request

\* What a request or a report says of an order's owner is so.
Owned(r) == r.oid # NoId => r.oid < nextId /\ who[r.oid].user = r.user

\* Every id given out has an owner and has been announced; an order that nobody works
\* on has been acknowledged or refused.
OrdersOK ==
    \A i \in Ids :
        /\ i < nextId => /\ who[i].user \in Users
                         /\ \E k \in 1 .. Len(responses) : responses[k].oid = i
        /\ ~(i < nextId) => who[i] = Nobody /\ life[i] = Unreported
        /\ life[i].status = "PENDING_NEW" => life[i] = Unreported
        /\ i < nextId /\ life[i].status = "PENDING_NEW" => work.kind = "new" /\ work.order = i

\* The request at work has been answered with a pending notice.
WorkOK ==
    /\ work.kind = "none" => work = NoRequest
    /\ work.kind # "none" =>
          /\ work.order \in Ids /\ work.order < nextId /\ work.user \in Users
          /\ work.time < nextTime /\ Owned(work)
          /\ \E k \in 1 .. Len(responses) : responses[k].time = work.time
    /\ work.kind = "new" => who[work.order].cl = work.cl

QueuesOK ==
    /\ \A k \in 1 .. Len(requests) :
          /\ requests[k].kind \in {"new", "cancel", "replace"} /\ requests[k].user \in Users
          /\ requests[k].time # NoTime /\ requests[k].time < nextTime
          /\ requests[k].order = NoId /\ Owned(requests[k])
          /\ requests[k].kind = "new" => requests[k].oid = NoId
    /\ \A k \in 1 .. Len(responses) :
          /\ responses[k].time < nextTime /\ Owned(responses[k])
          /\ responses[k].oid # NoId =>
                \/ responses[k].cl = who[responses[k].oid].cl
                \/ \E m \in 1 .. k - 1 : responses[m].oid = responses[k].oid

ExchangeOK == ExchangeType /\ OrdersOK /\ WorkOK /\ QueuesOK

-----------------------------------------------------------------------------
\* The invariants of the handlers that wait for an answer.

RestHandler ==
    [pc : {"idle", "capture", "publish", "wait", "results", "drain"},
     kind : {"none", "new", "cancel", "replace"}, user : Users \cup {NoUser}, cl : Names,
     oid : Ids \cup {NoId}, qty : Nat, time : Nat, cursor : Nat, todo : Seq(Ids),
     canceled : SUBSET Ids]

\* An order the handler may name.
OwnOrder(i, user) == i \in Ids /\ i < nextId /\ who[i].user = user

HandlerOK(h) ==
    /\ h \in RestHandler
    /\ h.pc \in {"idle", "drain"} => h.canceled = {}
    /\ h.pc \in {"publish", "wait"} => h.cursor \in 1 .. QueueEnd
    /\ h.pc \in {"capture", "publish", "wait"} =>
          /\ h.user \in Users /\ h.kind # "none"
          /\ h.kind = "new" => h.oid = NoId
          /\ h.kind # "new" => h.cl = NoClOrdId /\ OwnOrder(h.oid, h.user)
    /\ \A k \in 1 .. Len(h.todo) : OwnOrder(h.todo[k], h.user)
    /\ \A i \in h.canceled : i < nextId

RestOK ==
    /\ HandlerOK(rest) /\ known \subseteq Ids /\ given \subseteq Ids
    /\ \A i \in given : i < nextId

\* The first report of the handler's request is one it takes for its answer, and it has
\* not been read.
RestWaits ==
    rest.pc = "wait" =>
        /\ rest.time # NoTime /\ rest.time < nextTime
        /\ \A k \in 1 .. Len(requests) : requests[k].time = rest.time =>
              /\ requests[k].kind = rest.kind /\ requests[k].user = rest.user
              /\ requests[k].cl = rest.cl /\ requests[k].oid = rest.oid
        /\ \A k \in 1 .. rest.cursor - 1 : responses[k].time # rest.time
        /\ \A k \in 1 .. Len(responses) :
              responses[k].time = rest.time /\ (\A m \in 1 .. k - 1 : responses[m].time # rest.time)
                  => IsAnswer(responses[k])

HlHandler ==
    [pc : {"idle", "capture", "publish", "wait"}, user : Users \cup {NoUser}, cl : Names,
     qty : Nat, time : Nat, cursor : Nat, todo : Seq([cl : ClOrdIds, qty : Nat])]

HlOK ==
    /\ hl \in HlHandler
    /\ hl.pc \in {"publish", "wait"} => hl.cursor \in 1 .. QueueEnd
    /\ hl.pc # "idle" => hl.user \in Users
    /\ hl.pc = "wait" =>
        /\ hl.time # NoTime /\ hl.time < nextTime
        /\ \A k \in 1 .. Len(requests) : requests[k].time = hl.time =>
              requests[k].kind = "new" /\ requests[k].user = hl.user /\ requests[k].cl = hl.cl
        /\ \A k \in 1 .. hl.cursor - 1 : responses[k].time # hl.time
        /\ \A k \in 1 .. Len(responses) :
              responses[k].time = hl.time /\ (\A m \in 1 .. k - 1 : responses[m].time # hl.time)
                  => HlIsAnswer(responses[k])

\* Only the gateway of the behaviour has a handler at work.
GatewayOK ==
    /\ rest.pc \notin {"idle", "drain"} => gateway = "coinbase_rest"
    /\ hl.pc # "idle" => gateway = "hyperliquid"

-----------------------------------------------------------------------------
\* Orders forgotten.

\* The order has ended, or a cancel of it is at work or queued.
Going(i) ==
    \/ life[i].status \in Ended
    \/ work.kind = "cancel" /\ work.order = i
    \/ \E k \in 1 .. Len(requests) :
          requests[k].kind = "cancel" /\ requests[k].cl = NoClOrdId /\ requests[k].oid = i

ForgetOK ==
    /\ \A i \in given \ known : Going(i)
    /\ \A i \in rest.canceled : Going(i)
    /\ rest.pc = "wait" /\ rest.kind = "cancel" => Going(rest.oid)

-----------------------------------------------------------------------------
\* Sequences, as the queues use them.

\* What appending does: a report or a request joins its queue behind the earlier ones.
LEMMA AppendFacts ==
    ASSUME NEW S, NEW s \in Seq(S), NEW e \in S
    PROVE  /\ Append(s, e) \in Seq(S) /\ Len(Append(s, e)) = Len(s) + 1 /\ Len(s) \in Nat
           /\ \A k \in 1 .. Len(s) : Append(s, e)[k] = s[k]
           /\ Append(s, e)[Len(s) + 1] = e
  OBVIOUS

\* The sequences of no, one and two entries, as the gateways build them for a batch.
LEMMA ShortSeqs ==
    ASSUME NEW S
    PROVE  /\ <<>> \in Seq(S) /\ Len(<<>>) = 0
           /\ \A e \in S : <<e>> \in Seq(S) /\ \A d \in S : <<e, d>> \in Seq(S)
  OBVIOUS

\* An entry of a queue is of the queue's type.
LEMMA ItemFacts == ASSUME NEW S, NEW s \in Seq(S), NEW k \in 1 .. Len(s) PROVE s[k] \in S
  OBVIOUS

\* What taking the oldest entry off a queue leaves (the exchange's request queue).
LEMMA TailFacts ==
    ASSUME NEW S, NEW s \in Seq(S), s # <<>>
    PROVE  /\ Tail(s) \in Seq(S) /\ Len(Tail(s)) = Len(s) - 1 /\ Len(s) \in Nat \ {0}
           /\ \A k \in 1 .. Len(s) - 1 : Tail(s)[k] = s[k + 1]
           /\ Head(s) = s[1] /\ Head(s) \in S
  OBVIOUS

\* The fields of a request that a gateway writes to the exchange's queue.
LEMMA RequestFields ==
    ASSUME NEW q \in Request
    PROVE  /\ q.kind \in {"none", "new", "cancel", "replace", "replaced"}
           /\ q.user \in Users \cup {NoUser} /\ q.cl \in Names /\ q.oid \in Ids \cup {NoId}
           /\ q.qty \in Nat /\ q.time \in Nat /\ q.order \in Ids \cup {NoId}
  BY Zenon DEF Request

\* The fields of an execution report.
LEMMA ReportFields ==
    ASSUME NEW r \in Report
    PROVE  /\ r.oid \in Ids \cup {NoId} /\ r.user \in Users /\ r.cl \in Names
           /\ r.time \in Nat /\ r.trade \in BOOLEAN
           /\ r.status \in Live \cup Ended \cup {"PENDING_NEW", "PENDING_CANCEL", "PENDING_REPLACE"}
  BY Zenon DEF Report

-----------------------------------------------------------------------------
\* What a step of the exchange does to the orders, and what it reports.

\* Owners stay, what has ended stays so, and a cancel at work ends its order.
Moves ==
    /\ nextTime' = nextTime /\ nextId' \in Nat \ {0} /\ nextId' >= nextId
    /\ \A i \in Ids : i < nextId => who'[i] = who[i]
    /\ \A i \in Ids : life[i].status \in Ended => life'[i].status \in Ended
    /\ work.kind = "cancel" => life'[work.order].status \in Ended

\* A report that is true to the order it speaks of, or to the request it answers.
Publishes(r) ==
    /\ r \in Report /\ responses' = Append(responses, r) /\ r.time < nextTime
    /\ r.oid # NoId => r.oid < nextId' /\ who'[r.oid].user = r.user
    /\ r.oid # NoId => r.cl = who'[r.oid].cl \/ r.oid < nextId

\* The name of an order that has not ended.
NamesLive(cl) == \E i \in Ids : life[i].status \notin Ended /\ who[i].cl = cl

\* The next request of the queue is taken, and reported on.
Takes(r) ==
    LET q == Head(requests)
    IN  /\ requests # <<>> /\ requests' = Tail(requests) /\ work.kind = "none"
        /\ r.time = q.time /\ (r.cl = q.cl \/ NamesLive(r.cl))
        /\ q.kind = "new" => r.user = q.user /\ r.cl = q.cl
        /\ q.kind # "new" /\ q.cl = NoClOrdId => r.user = q.user
        /\ q.kind = "cancel" /\ q.cl = NoClOrdId /\ q.oid \in Ids /\ IsLive(q.oid) =>
              work'.kind = "cancel" /\ work'.order = q.oid
        /\ \A i \in Ids : who'[i] = who[i] \/ who'[i].cl = q.cl
        /\ work'.kind \notin {"none", "new"} => work'.cl = q.cl /\ q.kind # "new"

\* The request at work is reported on, or an order that is not.
WorksOn(r) ==
    /\ requests' = requests /\ who' = who
    /\ r.time = NoTime \/ (work.kind # "none" /\ r.time = work.time)
    /\ NamesLive(r.cl) \/ (work.kind # "new" /\ r.cl = work.cl)
    /\ work' = NoRequest \/ work' = work
         \/ (work.kind = "replace" /\ work'.kind = "replaced" /\ work'.cl = work.cl)

Silent ==
    /\ requests' = requests /\ who' = who /\ responses' = responses
    /\ work' = NoRequest /\ work.kind # "cancel"

StepOK ==
    /\ ExchangeOK' /\ Moves
    /\ Silent \/ \E r \in Report : Publishes(r) /\ (Takes(r) \/ WorksOn(r))

\* A report joins the queue, and at most the first request leaves its own.
LEMMA QueuesStep ==
    ASSUME ExchangeOK, Moves, NEW r \in Report, Publishes(r),
           requests' = requests \/ (requests # <<>> /\ requests' = Tail(requests))
    PROVE  /\ requests' \in Seq(Request) /\ responses' \in Seq(Report) /\ QueuesOK'
           /\ \A i \in Ids : i < nextId =>
                 \E k \in 1 .. Len(responses') : responses'[k].oid = i
           /\ \A t : (\E k \in 1 .. Len(responses) : responses[k].time = t)
                 => \E k \in 1 .. Len(responses') : responses'[k].time = t
           /\ \E k \in 1 .. Len(responses') : responses'[k] = r
  <1>1. /\ requests \in Seq(Request) /\ responses \in Seq(Report) /\ QueuesOK /\ OrdersOK
        /\ nextId \in Nat \ {0} /\ nextTime \in Nat \ {0}
    BY Zenon DEF ExchangeOK, ExchangeType
  <1>2. /\ responses' \in Seq(Report) /\ Len(responses') = Len(responses) + 1
        /\ Len(responses) \in Nat
        /\ \A k \in 1 .. Len(responses) : responses'[k] = responses[k]
        /\ responses'[Len(responses) + 1] = r
    BY <1>1 DEF Publishes
  <1>3. /\ requests' \in Seq(Request)
        /\ \A k \in 1 .. Len(requests') : \E m \in 1 .. Len(requests) : requests'[k] = requests[m]
    <2>1. CASE requests' = requests
      BY <1>1, <2>1, Zenon
    <2>2. CASE requests # <<>> /\ requests' = Tail(requests)
      <3>1. /\ requests' \in Seq(Request) /\ Len(requests') = Len(requests) - 1
            /\ Len(requests) \in Nat \ {0}
            /\ \A k \in 1 .. Len(requests) - 1 : requests'[k] = requests[k + 1]
        BY <1>1, <2>2, TailFacts, Zenon
      <3>2. \A k \in 1 .. Len(requests') : k \in 1 .. Len(requests) - 1 /\ k + 1 \in 1 .. Len(requests)
        BY <3>1
      <3> QED
        BY <3>1, <3>2, Zenon
    <2> QED
      BY <2>1, <2>2, Zenon
  <1>4. \A i \in Ids : i < nextId => i < nextId' /\ who'[i] = who[i]
    BY <1>1, NamesAssumption DEF Moves
  <1>5. \A k \in 1 .. Len(requests') :
          /\ requests'[k].kind \in {"new", "cancel", "replace"} /\ requests'[k].user \in Users
          /\ requests'[k].time # NoTime /\ requests'[k].time < nextTime'
          /\ requests'[k].order = NoId
          /\ (requests'[k].oid # NoId => requests'[k].oid < nextId' /\ who'[requests'[k].oid].user = requests'[k].user)
          /\ requests'[k].kind = "new" => requests'[k].oid = NoId
    <2> SUFFICES ASSUME NEW k \in 1 .. Len(requests')
                 PROVE  /\ requests'[k].kind \in {"new", "cancel", "replace"}
                        /\ requests'[k].user \in Users
                        /\ requests'[k].time # NoTime /\ requests'[k].time < nextTime'
                        /\ requests'[k].order = NoId
                        /\ (requests'[k].oid # NoId => requests'[k].oid < nextId' /\ who'[requests'[k].oid].user = requests'[k].user)
                        /\ requests'[k].kind = "new" => requests'[k].oid = NoId
      BY Zenon
    <2>1. PICK m \in 1 .. Len(requests) : requests'[k] = requests[m]
      BY <1>3, Zenon
    <2>2. requests[m].oid \in Ids \cup {NoId}
      BY <1>1, ItemFacts, RequestFields, Zenon
    <2>3. /\ requests[m].kind \in {"new", "cancel", "replace"} /\ requests[m].user \in Users
          /\ requests[m].time # NoTime /\ requests[m].time < nextTime
          /\ requests[m].order = NoId /\ Owned(requests[m])
          /\ requests[m].kind = "new" => requests[m].oid = NoId
      BY <1>1, Zenon DEF QueuesOK
    <2>4. requests[m].oid # NoId =>
             requests[m].oid < nextId' /\ who'[requests[m].oid].user = requests[m].user
      BY <1>4, <2>2, <2>3, Zenon DEF Owned
    <2> QED
      BY <2>1, <2>3, <2>4, Zenon DEF Moves
  <1>6. \A k \in 1 .. Len(responses) : responses[k].oid \in Ids \cup {NoId}
    BY <1>1, ItemFacts, ReportFields, Zenon
  <1>7. \A k \in 1 .. Len(responses') :
          /\ responses'[k].time < nextTime'
          /\ (responses'[k].oid # NoId => responses'[k].oid < nextId' /\ who'[responses'[k].oid].user = responses'[k].user)
          /\ responses'[k].oid # NoId =>
                \/ responses'[k].cl = who'[responses'[k].oid].cl
                \/ \E m \in 1 .. k - 1 : responses'[m].oid = responses'[k].oid
    <2> SUFFICES ASSUME NEW k \in 1 .. Len(responses')
                 PROVE  /\ responses'[k].time < nextTime'
                        /\ (responses'[k].oid # NoId => responses'[k].oid < nextId' /\ who'[responses'[k].oid].user = responses'[k].user)
                        /\ responses'[k].oid # NoId =>
                              \/ responses'[k].cl = who'[responses'[k].oid].cl
                              \/ \E m \in 1 .. k - 1 : responses'[m].oid = responses'[k].oid
      BY Zenon
    <2>1. CASE k \in 1 .. Len(responses)
      <3>1. \A m \in 1 .. k - 1 : m \in 1 .. Len(responses)
        BY <1>2, <2>1
      <3>2. /\ responses[k].time < nextTime /\ Owned(responses[k])
            /\ responses[k].oid # NoId =>
                  \/ responses[k].cl = who[responses[k].oid].cl
                  \/ \E m \in 1 .. k - 1 : responses[m].oid = responses[k].oid
        BY <1>1, <2>1, Zenon DEF QueuesOK
      <3>3. responses[k].oid # NoId => responses[k].oid < nextId'
                                     /\ who'[responses[k].oid] = who[responses[k].oid]
        BY <1>4, <1>6, <2>1, <3>2, Zenon DEF Owned
      <3>4. /\ responses[k].time < nextTime'
            /\ responses[k].oid # NoId => who'[responses[k].oid].user = responses[k].user
            /\ responses[k].oid # NoId =>
                  \/ responses[k].cl = who'[responses[k].oid].cl
                  \/ \E m \in 1 .. k - 1 : responses'[m].oid = responses[k].oid
        BY <1>2, <3>1, <3>2, <3>3, Zenon DEF Moves, Owned
      <3> QED
        BY <1>2, <2>1, <3>3, <3>4, Zenon
    <2>2. CASE k = Len(responses) + 1
      <3>1. k - 1 = Len(responses)
        BY <1>2, <2>2
      <3>2. r.oid \in Ids \cup {NoId}
        BY ReportFields, Zenon
      <3>3. /\ r.time < nextTime'
            /\ r.oid # NoId => r.oid < nextId' /\ who'[r.oid].user = r.user
            /\ r.oid # NoId => r.cl = who'[r.oid].cl \/ r.oid < nextId
        BY Zenon DEF Publishes, Moves
      <3>4. r.oid # NoId /\ r.oid < nextId => \E m \in 1 .. Len(responses) : responses'[m].oid = r.oid
        <4>1. r.oid # NoId /\ r.oid < nextId => \E m \in 1 .. Len(responses) : responses[m].oid = r.oid
          BY <1>1, <3>2, Zenon DEF OrdersOK
        <4> QED
          BY <1>2, <4>1, Zenon
      <3>5. responses'[k] = r
        BY <1>2, <2>2, Zenon
      <3>6. r.oid # NoId /\ r.oid < nextId => \E m \in 1 .. k - 1 : responses'[m].oid = r.oid
        BY <3>1, <3>4, Zenon
      <3> QED
        BY <3>3, <3>5, <3>6, Zenon
    <2> QED
      BY <1>2, <2>1, <2>2
  <1>8. QueuesOK'
    BY <1>5, <1>7, Zenon DEF QueuesOK, Owned
  <1>9. /\ Len(responses) + 1 \in 1 .. Len(responses')
        /\ \A k \in 1 .. Len(responses) : k \in 1 .. Len(responses')
    BY <1>2
  <1> QED
    BY <1>1, <1>2, <1>3, <1>8, <1>9, Zenon DEF OrdersOK

\* A step on a request that has been taken, or on an order that no request is about:
\* order i goes on to state o, and its report says so.
LEMMA WorkStep ==
    ASSUME ExchangeOK, NEW i \in Ids, i < nextId, NEW o \in Lives, o.status # "PENDING_NEW",
           life[i].status \in Ended => o.status \in Ended,
           life' = [life EXCEPT ![i] = o], who' = who, nextId' = nextId, nextTime' = nextTime,
           requests' = requests, NEW r \in Report, responses' = Append(responses, r),
           r.time = NoTime \/ (work.kind # "none" /\ r.time = work.time),
           NamesLive(r.cl) \/ (work.kind # "new" /\ r.cl = work.cl),
           \/ r.oid = i /\ r.user = who[i].user /\ r.cl = who[i].cl
           \/ work.kind # "none" /\ r.oid = work.oid /\ r.user = work.user,
           \/ work' = NoRequest
           \/ work' = work
           \/ work.kind = "replace" /\ work' = [work EXCEPT !.kind = "replaced"],
           work.kind = "new" => i = work.order \/ work' = work,
           work.kind = "cancel" => i = work.order /\ o.status \in Ended
    PROVE  StepOK
  <1>1. /\ ExchangeType /\ OrdersOK /\ WorkOK /\ QueuesOK
        /\ life \in [Ids -> Lives] /\ who \in [Ids -> Owner] /\ work \in Request
        /\ nextId \in Nat \ {0} /\ nextTime \in Nat \ {0}
    BY Zenon DEF ExchangeOK, ExchangeType
  <1>2. /\ life' \in [Ids -> Lives] /\ life'[i] = o
        /\ \A j \in Ids \ {i} : life'[j] = life[j]
    BY <1>1, Zenon
  <1>3. nextId' >= nextId
    BY <1>1
  <1>4. Moves
    BY <1>1, <1>2, <1>3, Zenon DEF Moves
  <1>5. r.time < nextTime
    <2>1. NoTime < nextTime
      BY <1>1 DEF NoTime
    <2> QED
      BY <1>1, <2>1, Zenon DEF WorkOK
  <1>6. Publishes(r)
    <2>1. r.oid # NoId => r.oid < nextId' /\ who'[r.oid].user = r.user
      BY <1>1, Zenon DEF WorkOK, Owned
    <2>2. r.oid # NoId => r.oid < nextId
      BY <2>1, Zenon
    <2> QED
      BY <1>5, <2>1, <2>2, Zenon DEF Publishes
  <1>7. /\ requests' \in Seq(Request) /\ responses' \in Seq(Report) /\ QueuesOK'
        /\ \A j \in Ids : j < nextId => \E k \in 1 .. Len(responses') : responses'[k].oid = j
        /\ \A t : (\E k \in 1 .. Len(responses) : responses[k].time = t)
                 => \E k \in 1 .. Len(responses') : responses'[k].time = t
    BY <1>4, <1>6, QueuesStep, Zenon
  <1>8. work' \in Request
    BY <1>1 DEF Request, NoRequest, NoId, NoTime, Names
  <1>9. OrdersOK'
    BY <1>1, <1>2, <1>7, SMTT(30) DEF OrdersOK, WorkOK
  <1>10. \/ work' = NoRequest
         \/ work' = work
         \/ /\ work.kind = "replace" /\ work'.kind = "replaced"
            /\ work'.cl = work.cl /\ work'.order = work.order /\ work'.user = work.user
            /\ work'.oid = work.oid /\ work'.time = work.time
    BY <1>1, Zenon DEF Request
  <1>11. WorkOK'
    <2>1. NoRequest.kind = "none"
      BY Zenon DEF NoRequest
    <2>2. CASE work' = NoRequest
      BY <2>1, <2>2, Zenon DEF WorkOK
    <2>3. work.kind # "none" => \E k \in 1 .. Len(responses') : responses'[k].time = work.time
      BY <1>1, <1>7, Zenon DEF WorkOK
    <2>4. CASE work' = work
      BY <1>1, <2>3, <2>4, Zenon DEF WorkOK, Owned
    <2>5. CASE work.kind = "replace" /\ work'.kind = "replaced"
      BY <1>1, <1>10, <2>1, <2>3, <2>5, Zenon DEF WorkOK, Owned
    <2> QED
      BY <1>10, <2>2, <2>4, <2>5, Zenon
  <1>12. WorksOn(r)
    BY <1>10, Zenon DEF WorksOn
  <1> QED
    BY <1>1, <1>2, <1>4, <1>6, <1>7, <1>8, <1>9, <1>11, <1>12, Zenon
       DEF StepOK, ExchangeOK, ExchangeType

\* The state an order goes on to, of each kind.
LEMMA LifeFacts ==
    ASSUME NEW o \in Lives, NEW n \in Nat
    PROVE  /\ State("NEW", 0, n) \in Lives /\ State("REJECTED", 0, 0) \in Lives
           /\ State("CANCELED", o.cum, 0) \in Lives
           /\ State("REPLACED", o.cum, IF o.cum >= n THEN 0 ELSE n - o.cum) \in Lives
           /\ n <= o.leaves => Traded(o, n) \in Lives
           /\ o.cum \in Nat /\ o.leaves \in Nat
  BY DEF Lives, State, Traded, Live, Ended

\* A report on an order of i's owner.
LEMMA OrderReportFacts ==
    ASSUME NEW i \in Ids, NEW owner \in Owner, owner.user \in Users, NEW o,
           o.status \in Live \cup Ended \cup {"PENDING_NEW", "PENDING_CANCEL", "PENDING_REPLACE"},
           o.cum \in Nat, o.leaves \in Nat, NEW time \in Nat, NEW trade \in BOOLEAN,
           NEW r, r = OrderReport(i, owner, o, time, trade)
    PROVE  /\ r \in Report /\ r.oid = i /\ r.user = owner.user /\ r.cl = owner.cl /\ r.time = time
  BY Zenon DEF OrderReport, Report, Owner

\* The report that refuses a request carries the request's order, user, name and time.
LEMMA RejectFacts ==
    ASSUME NEW q \in Request, q.user \in Users, NEW r, r = RequestReject(q)
    PROVE  r \in Report /\ r.oid = q.oid /\ r.user = q.user /\ r.cl = q.cl /\ r.time = q.time
  BY Zenon DEF RequestReject, Report, Request, Ended

\* The request the exchange works on is of an order that exists, and its user owns it.
LEMMA WorkFacts ==
    ASSUME ExchangeOK, work.kind # "none"
    PROVE  /\ work \in Request /\ work.order \in Ids /\ work.order < nextId
           /\ who[work.order] \in Owner /\ who[work.order].user \in Users
           /\ life[work.order] \in Lives /\ work.user \in Users
           /\ work.time \in Nat /\ work.qty \in Nat
           /\ work.kind = "new" => who[work.order].cl = work.cl
  <1>1. /\ work \in Request /\ life \in [Ids -> Lives] /\ who \in [Ids -> Owner]
        /\ OrdersOK /\ WorkOK
    BY Zenon DEF ExchangeOK, ExchangeType
  <1>2. work.time \in Nat /\ work.qty \in Nat
    BY <1>1, RequestFields, Zenon
  <1> QED
    BY <1>1, <1>2, Zenon DEF OrdersOK, WorkOK

\* Its owner is told of the order at work.
LEMMA ToldStep ==
    ASSUME ExchangeOK, work.kind # "none", life[work.order].status \notin Ended,
           NEW o \in Lives, o.status # "PENDING_NEW",
           life' = [life EXCEPT ![work.order] = o],
           NEW time \in {NoTime, work.time}, NEW trade \in BOOLEAN, Told(time, trade),
           \/ work' = NoRequest
           \/ work' = work
           \/ work.kind = "replace" /\ work' = [work EXCEPT !.kind = "replaced"],
           work.kind = "cancel" => o.status \in Ended
    PROVE  StepOK
  <1> DEFINE i == work.order
             r == OrderReport(i, who[i], o, time, trade)
  <1>1. /\ i \in Ids /\ i < nextId /\ who[i] \in Owner /\ who[i].user \in Users
        /\ life \in [Ids -> Lives] /\ work.time \in Nat
    BY WorkFacts, Zenon DEF ExchangeOK, ExchangeType
  <1>2. life'[i] = o
    BY <1>1, Zenon
  <1>3. /\ o.status \in Live \cup Ended \cup {"PENDING_NEW", "PENDING_CANCEL", "PENDING_REPLACE"}
        /\ o.cum \in Nat /\ o.leaves \in Nat /\ time \in Nat
    BY <1>1 DEF Lives, NoTime
  <1>4. /\ r \in Report /\ r.oid = i /\ r.user = who[i].user /\ r.cl = who[i].cl /\ r.time = time
    BY <1>1, <1>3, OrderReportFacts
  <1>5. /\ responses' = Append(responses, r) /\ who' = who /\ nextId' = nextId
        /\ nextTime' = nextTime /\ requests' = requests
    BY <1>2, Zenon DEF Told, Publish
  <1>6. NamesLive(r.cl)
    BY <1>1, <1>4, Zenon DEF NamesLive
  <1>7. r.time = NoTime \/ r.time = work.time
    BY <1>4, Zenon
  <1> HIDE DEF r
  <1> QED
    BY <1>1, <1>4, <1>5, <1>6, <1>7, WorkStep, Zenon

\* The middle steps of a request (acknowledge, replace, cancel, fill, cancel the rest) keep
\* the exchange's invariant and append at most what StepOK allows to the report queue.
LEMMA WorkingSteps ==
    ASSUME ExchangeOK, AckNew \/ ApplyReplace \/ ApplyCancel \/ Aggress \/ CancelRemainder
    PROVE  StepOK
  <1>1. CASE AckNew
    <2>1. /\ work.kind = "new" /\ life[work.order] = Unreported /\ work' = work
          /\ life' = [life EXCEPT ![work.order] = State("NEW", 0, work.qty)]
          /\ Told(work.time, FALSE)
      BY <1>1, Zenon DEF AckNew, Accepted
    <2>2. State("NEW", 0, work.qty) \in Lives
      BY <2>1, WorkFacts, LifeFacts, Zenon
    <2>3. State("NEW", 0, work.qty).status # "PENDING_NEW" /\ life[work.order].status \notin Ended
      BY <2>1 DEF State, Unreported, Ended
    <2> QED
      BY <2>1, <2>2, <2>3, ToldStep, Zenon
  <1>2. CASE ApplyReplace
    <2> DEFINE c == life[work.order].cum
               o == State("REPLACED", c, IF c >= work.qty THEN 0 ELSE work.qty - c)
    <2>1. /\ work.kind = "replace" /\ IsLive(work.order) /\ Told(work.time, FALSE)
          /\ work' = [work EXCEPT !.kind = "replaced"]
      BY <1>2, Zenon DEF ApplyReplace, Replaced
    <2>2. life' = [life EXCEPT ![work.order] = o]
      BY <1>2, <2>1, WorkFacts, Zenon DEF ApplyReplace, Replaced, ExchangeOK, ExchangeType
    <2>3. o \in Lives
      BY <2>1, WorkFacts, LifeFacts, Zenon
    <2>4. o.status # "PENDING_NEW" /\ life[work.order].status \notin Ended
      BY <2>1, Zenon DEF State, IsLive, Live, Ended
    <2> HIDE DEF o
    <2> QED
      BY <2>1, <2>2, <2>3, <2>4, ToldStep, Zenon
  <1>3. CASE ApplyCancel \/ CancelRemainder
    <2> DEFINE o == State("CANCELED", life[work.order].cum, 0)
    <2>1. /\ work.kind \in {"cancel", "new", "replaced"} /\ IsLive(work.order)
          /\ Told(work.time, FALSE) /\ work' = NoRequest
      BY <1>3, Zenon DEF ApplyCancel, CancelRemainder, Matching, Canceled
    <2>2. life' = [life EXCEPT ![work.order] = o]
      BY <1>3, <2>1, WorkFacts, Zenon DEF ApplyCancel, CancelRemainder, Canceled, ExchangeOK, ExchangeType
    <2>3. o \in Lives
      BY <2>1, WorkFacts, LifeFacts, Zenon
    <2>4. o.status # "PENDING_NEW" /\ o.status \in Ended /\ life[work.order].status \notin Ended
      BY <2>1, Zenon DEF State, IsLive, Live, Ended
    <2> HIDE DEF o
    <2> QED
      BY <2>1, <2>2, <2>3, <2>4, ToldStep, Zenon
  <1>4. CASE Aggress
    <2>1. PICK n \in 1 .. life[work.order].leaves : Executed(work.order, n)
      BY <1>4, Zenon DEF Aggress
    <2> DEFINE o == Traded(life[work.order], n)
    <2>2. /\ work.kind \in {"new", "replaced"} /\ IsLive(work.order)
          /\ Told(NoTime, TRUE) /\ work' = work
      BY <1>4, Zenon DEF Aggress, Matching
    <2>3. life' = [life EXCEPT ![work.order] = o] /\ n <= life[work.order].leaves
      BY <2>1, <2>2, WorkFacts, Zenon DEF Executed, CanTrade, ExchangeOK, ExchangeType
    <2>4. o \in Lives
      <3>1. life[work.order] \in Lives /\ n \in Nat
        BY <2>2, WorkFacts
      <3> QED
        BY <2>3, <3>1, LifeFacts, Zenon
    <2>5. o.status # "PENDING_NEW" /\ life[work.order].status \notin Ended
      BY <2>2, Zenon DEF State, Traded, IsLive, Live, Ended
    <2> HIDE DEF o
    <2> QED
      BY <2>2, <2>3, <2>4, <2>5, ToldStep, Zenon
  <1> QED
    BY <1>1, <1>2, <1>3, <1>4, Zenon

\* The engine refuses the order or the amendment at work, or the handler returns.
LEMMA RefusalSteps ==
    ASSUME ExchangeOK, RefuseNew \/ RefuseReplace
    PROVE  StepOK
  <1> DEFINE i == work.order
             r == RequestReject(work)
             o == IF RefuseNew THEN State("REJECTED", 0, 0) ELSE life[i]
  <1>1. /\ work.kind \in {"new", "replace"} /\ work' = NoRequest
        /\ responses' = Append(responses, r) /\ who' = who /\ nextId' = nextId
        /\ nextTime' = nextTime /\ requests' = requests
        /\ RefuseNew => work.kind = "new" /\ life[i] = Unreported
        /\ ~RefuseNew => work.kind = "replace" /\ life' = life
    BY Zenon DEF RefuseNew, RefuseReplace, Publish, Refused
  <1>2. /\ i \in Ids /\ i < nextId /\ life \in [Ids -> Lives] /\ work \in Request /\ OrdersOK
        /\ work.user \in Users /\ (work.kind = "new" => who[i].cl = work.cl)
    BY <1>1, WorkFacts, Zenon DEF ExchangeOK, ExchangeType
  <1>3. r \in Report /\ r.oid = work.oid /\ r.user = work.user /\ r.cl = work.cl /\ r.time = work.time
    BY <1>2, RejectFacts, Zenon
  <1>4. life' = [life EXCEPT ![i] = o]
    BY <1>1, <1>2, Zenon DEF RefuseNew, Refused
  <1>5. o \in Lives /\ o.status # "PENDING_NEW" /\ (life[i].status \in Ended => o.status \in Ended)
    BY <1>1, <1>2, Zenon DEF OrdersOK, State, Lives, Ended, Unreported
  <1>6. NamesLive(r.cl) \/ (work.kind # "new" /\ r.cl = work.cl)
    BY <1>1, <1>2, <1>3 DEF NamesLive, Unreported, Ended
  <1> HIDE DEF r, o
  <1> QED
    BY <1>1, <1>2, <1>3, <1>4, <1>5, <1>6, WorkStep, Zenon

\* The end of a request keeps the exchange's invariant: its last report has been written.
LEMMA EndStep == ASSUME ExchangeOK, EndRequest PROVE StepOK
  <1>1. /\ work.kind \in {"new", "replaced"} /\ life[work.order] # Unreported
        /\ work' = NoRequest /\ life' = life /\ who' = who /\ nextId' = nextId
        /\ nextTime' = nextTime /\ requests' = requests /\ responses' = responses
    BY Zenon DEF EndRequest
  <1>2. ExchangeType /\ OrdersOK /\ WorkOK /\ QueuesOK /\ nextId \in Nat \ {0}
    BY Zenon DEF ExchangeOK, ExchangeType
  <1>3. ExchangeType'
    BY <1>1, <1>2, Zenon DEF ExchangeType, Request, NoRequest, NoId, NoTime, Names
  <1>4. OrdersOK'
    BY <1>1, <1>2, WorkFacts, Zenon DEF OrdersOK
  <1>5. WorkOK' /\ QueuesOK'
    BY <1>1, <1>2, Zenon DEF WorkOK, QueuesOK, Owned, NoRequest
  <1>6. Moves
    BY <1>1, <1>2 DEF Moves
  <1> QED
    BY <1>1, <1>3, <1>4, <1>5, <1>6, Zenon DEF StepOK, ExchangeOK, Silent

\* A resting order trades or loses its place while the exchange works on another.
LEMMA PassiveStep == ASSUME ExchangeOK, NEW i \in Ids, Passive(i) PROVE StepOK
  <1> DEFINE o == life'[i]
             time == IF o.status = "CANCELED" THEN work.time ELSE NoTime
             r == OrderReport(i, who[i], o, time, o.status # "CANCELED")
  <1>1. /\ i # work.order /\ work.kind \in {"none", "new", "replaced"} /\ work' = work
        /\ responses' = Append(responses, r) /\ who' = who /\ nextId' = nextId
        /\ nextTime' = nextTime /\ requests' = requests
    BY Zenon DEF Passive, Publish
  <1>2. /\ life \in [Ids -> Lives] /\ who \in [Ids -> Owner] /\ OrdersOK /\ WorkOK
        /\ work \in Request
    BY Zenon DEF ExchangeOK, ExchangeType
  <1>3. /\ IsLive(i)
        /\ \/ \E n \in Nat : n <= life[i].leaves /\ life' = [life EXCEPT ![i] = Traded(life[i], n)]
           \/ work.kind # "none" /\ life' = [life EXCEPT ![i] = State("CANCELED", life[i].cum, 0)]
    <2>1. life[i].leaves \in Nat
      BY <1>2, Zenon DEF Lives
    <2>2. CASE \E n \in 1 .. life[i].leaves : Executed(i, n)
      <3>1. PICK n \in 1 .. life[i].leaves : Executed(i, n)
        BY <2>2, Zenon
      <3>2. n \in Nat /\ n <= life[i].leaves
        BY <2>1
      <3>3. IsLive(i) /\ life' = [life EXCEPT ![i] = Traded(life[i], n)]
        BY <1>2, <3>1, Zenon DEF Executed, CanTrade
      <3> QED
        BY <3>2, <3>3, Zenon
    <2>3. CASE work.kind # "none" /\ Canceled(i)
      BY <1>2, <2>3, Zenon DEF Canceled
    <2> QED
      BY <2>2, <2>3, Zenon DEF Passive
  <1>4. /\ o \in Lives /\ o.status # "PENDING_NEW" /\ life' = [life EXCEPT ![i] = o]
        /\ o.status = "CANCELED" => work.kind # "none"
    <2>1. CASE \E n \in Nat : n <= life[i].leaves /\ life' = [life EXCEPT ![i] = Traded(life[i], n)]
      <3>1. PICK n \in Nat : n <= life[i].leaves /\ life' = [life EXCEPT ![i] = Traded(life[i], n)]
        BY <2>1, Zenon
      <3>2. o = Traded(life[i], n)
        BY <1>2, <3>1, Zenon
      <3>3. o \in Lives
        BY <1>2, <3>1, <3>2, LifeFacts, Zenon
      <3>4. o.status \in {"PARTIALLY_FILLED", "FILLED"}
        BY <3>2 DEF Traded, State
      <3> QED
        BY <3>1, <3>2, <3>3, <3>4, Zenon
    <2>2. CASE work.kind # "none" /\ life' = [life EXCEPT ![i] = State("CANCELED", life[i].cum, 0)]
      <3>1. o = State("CANCELED", life[i].cum, 0)
        BY <1>2, <2>2, Zenon
      <3> QED
        BY <1>2, <2>2, <3>1, LifeFacts, Zenon DEF State
    <2> QED
      BY <1>3, <2>1, <2>2, Zenon
  <1>5. i < nextId /\ life[i].status \notin Ended /\ who[i] \in Owner /\ who[i].user \in Users
    <2>1. life[i].status # "PENDING_NEW" /\ life[i].status \notin Ended
      BY <1>3, Zenon DEF IsLive, Live, Ended
    <2> QED
      BY <1>2, <2>1 DEF OrdersOK, Unreported
  <1>6. /\ o.status \in Live \cup Ended \cup {"PENDING_NEW", "PENDING_CANCEL", "PENDING_REPLACE"}
        /\ o.cum \in Nat /\ o.leaves \in Nat /\ time \in Nat
        /\ time = NoTime \/ (work.kind # "none" /\ time = work.time)
    <2>1. work.time \in Nat
      BY <1>2, RequestFields, Zenon
    <2> QED
      BY <1>4, <2>1, Zenon DEF Lives, NoTime
  <1>7. /\ r \in Report /\ r.oid = i /\ r.user = who[i].user /\ r.cl = who[i].cl /\ r.time = time
    <2> HIDE DEF time
    <2> QED
      BY <1>5, <1>6, Zenon DEF OrderReport, Report, Owner
  <1>8. NamesLive(r.cl)
    BY <1>5, <1>7, Zenon DEF NamesLive
  <1> HIDE DEF r, o, time
  <1> QED
    BY <1>1, <1>4, <1>5, <1>6, <1>7, <1>8, WorkStep, Zenon

\* The oldest request of the queue is well formed and names an order of its user, or none.
LEMMA HeadFacts ==
    ASSUME ExchangeOK, requests # <<>>
    PROVE  LET q == Head(requests)
           IN  /\ q \in Request /\ q.kind \in {"new", "cancel", "replace"} /\ q.user \in Users
               /\ q.time \in Nat \ {NoTime} /\ q.time < nextTime /\ q.qty \in Nat /\ q.cl \in Names
               /\ q.oid \in Ids \cup {NoId} /\ Owned(q) /\ (q.kind = "new" => q.oid = NoId)
  <1>1. requests \in Seq(Request) /\ QueuesOK
    BY Zenon DEF ExchangeOK, ExchangeType
  <1>2. Head(requests) = requests[1] /\ Head(requests) \in Request /\ 1 \in 1 .. Len(requests)
    BY <1>1
  <1> QED
    BY <1>1, <1>2, RequestFields, Zenon DEF QueuesOK

\* A request is taken and rejected.
LEMMA RejectStep ==
    ASSUME ExchangeOK, work = NoRequest, requests # <<>>, requests' = Tail(requests),
           RejectRequest(Head(requests)), nextTime' = nextTime,
           LET q == Head(requests)
           IN  q.kind = "cancel" /\ q.cl = NoClOrdId /\ q.oid \in Ids => ~IsLive(q.oid)
    PROVE  StepOK
  <1> DEFINE q == Head(requests)
             r == RequestReject(q)
  <1>1. /\ q \in Request /\ q.kind \in {"new", "cancel", "replace"} /\ q.user \in Users
        /\ q.time < nextTime /\ Owned(q)
    BY HeadFacts, Zenon
  <1>2. r \in Report /\ r.oid = q.oid /\ r.user = q.user /\ r.cl = q.cl /\ r.time = q.time
    BY <1>1, RejectFacts, Zenon
  <1>3. /\ responses' = Append(responses, r) /\ life' = life /\ who' = who /\ nextId' = nextId
        /\ work' = work
    BY Zenon DEF RejectRequest, Publish
  <1>4. /\ ExchangeType /\ OrdersOK /\ WorkOK /\ nextId \in Nat \ {0}
    BY Zenon DEF ExchangeOK, ExchangeType
  <1>5. nextId' >= nextId /\ work.kind = "none"
    BY <1>3, <1>4 DEF NoRequest
  <1>6. Moves
    BY <1>3, <1>4, <1>5, Zenon DEF Moves
  <1> HIDE DEF r, q
  <1>7. Publishes(r)
    BY <1>1, <1>2, <1>3, Zenon DEF Publishes, Owned
  <1>8. /\ requests' \in Seq(Request) /\ responses' \in Seq(Report) /\ QueuesOK'
        /\ \A i \in Ids : i < nextId => \E k \in 1 .. Len(responses') : responses'[k].oid = i
    BY <1>2, <1>6, <1>7, QueuesStep, Zenon
  <1>9. ExchangeType' /\ OrdersOK' /\ WorkOK'
    <2>1. ExchangeType'
      BY <1>3, <1>4, <1>8, Zenon DEF ExchangeType
    <2>2. OrdersOK'
      BY <1>3, <1>4, <1>8, Zenon DEF OrdersOK
    <2>3. WorkOK'
      BY <1>3, <1>5, Zenon DEF WorkOK
    <2> QED
      BY <2>1, <2>2, <2>3, Zenon
  <1>10. Takes(r)
    BY <1>1, <1>2, <1>3, <1>5, Zenon DEF Takes, q
  <1> QED
    BY <1>2, <1>6, <1>7, <1>8, <1>9, <1>10, Zenon DEF StepOK, ExchangeOK

\* A new order is taken and announced.
LEMMA AnnounceStep ==
    ASSUME ExchangeOK, TakeNew, Named(Head(requests)) = {}
    PROVE  StepOK
  <1> DEFINE q == Head(requests)
             owner == [user |-> q.user, cl |-> q.cl]
             r == OrderReport(nextId, owner, State("PENDING_NEW", 0, q.qty), q.time, FALSE)
  <1>1. /\ work = NoRequest /\ requests # <<>> /\ q.kind = "new" /\ requests' = Tail(requests)
        /\ nextTime' = nextTime /\ nextId \in Ids /\ who' = [who EXCEPT ![nextId] = owner]
        /\ work' = [q EXCEPT !.order = nextId] /\ nextId' = nextId + 1
        /\ responses' = Append(responses, r) /\ life' = life
    BY Zenon DEF TakeNew, Incoming, Publish
  <1>2. /\ q \in Request /\ q.user \in Users /\ q.time \in Nat /\ q.time < nextTime
        /\ q.qty \in Nat /\ q.cl \in Names /\ q.oid = NoId
    BY <1>1, HeadFacts, Zenon
  <1>3. owner \in Owner /\ owner.user = q.user /\ owner.cl = q.cl
    BY <1>2, Zenon DEF Owner
  <1>4. /\ r \in Report /\ r.oid = nextId /\ r.user = q.user /\ r.cl = q.cl /\ r.time = q.time
    <2>1. LET o == State("PENDING_NEW", 0, q.qty)
          IN  o.status = "PENDING_NEW" /\ o.cum \in Nat /\ o.leaves \in Nat
      BY <1>2, Zenon DEF State
    <2> QED
      BY <1>1, <1>2, <1>3, <2>1, Zenon DEF OrderReport, Report, Owner
  <1>5. /\ ExchangeType /\ OrdersOK /\ WorkOK /\ nextId \in Nat \ {0} /\ who \in [Ids -> Owner]
    BY Zenon DEF ExchangeOK, ExchangeType
  <1>6. /\ work'.kind = "new" /\ work'.user = q.user /\ work'.cl = q.cl /\ work'.oid = NoId
        /\ work'.time = q.time /\ work'.order = nextId /\ work' \in Request
    BY <1>1, <1>2, Zenon DEF Request
  <1> HIDE DEF r, owner, q
  <1>7. /\ who' \in [Ids -> Owner] /\ who'[nextId] = owner
        /\ \A i \in Ids : i # nextId => who'[i] = who[i]
    BY <1>1, <1>3, <1>5, Zenon
  <1>8. /\ nextId' >= nextId /\ nextId < nextId' /\ nextId # NoId /\ nextId' \in Nat \ {0}
        /\ \A i \in Ids : i < nextId => i # nextId
        /\ \A i \in Ids : i < nextId' => i < nextId \/ i = nextId
    BY <1>1, <1>5, NamesAssumption DEF NoId
  <1>9. work.kind = "none" /\ Moves
    BY <1>1, <1>5, <1>7, <1>8, Zenon DEF Moves, NoRequest
  <1>10. Publishes(r)
    BY <1>1, <1>2, <1>3, <1>4, <1>7, <1>8, Zenon DEF Publishes
  <1>11. /\ requests' \in Seq(Request) /\ responses' \in Seq(Report) /\ QueuesOK'
         /\ \A i \in Ids : i < nextId => \E k \in 1 .. Len(responses') : responses'[k].oid = i
         /\ \E k \in 1 .. Len(responses') : responses'[k] = r
    BY <1>1, <1>4, <1>9, <1>10, QueuesStep, Zenon
  <1>12. ExchangeType'
    BY <1>1, <1>5, <1>6, <1>7, <1>8, <1>11, Zenon DEF ExchangeType
  <1>13. OrdersOK'
    <2> SUFFICES ASSUME NEW i \in Ids
                 PROVE  /\ i < nextId' => /\ who'[i].user \in Users
                                          /\ \E k \in 1 .. Len(responses') : responses'[k].oid = i
                        /\ ~(i < nextId') => who'[i] = Nobody /\ life'[i] = Unreported
                        /\ life'[i].status = "PENDING_NEW" => life'[i] = Unreported
                        /\ i < nextId' /\ life'[i].status = "PENDING_NEW" => work'.kind = "new" /\ work'.order = i
      BY Zenon DEF OrdersOK
    <2>1. CASE i = nextId
      BY <1>1, <1>2, <1>3, <1>4, <1>5, <1>6, <1>7, <1>8, <1>11, <2>1, Zenon DEF OrdersOK
    <2>2. CASE i # nextId
      <3>1. i < nextId' <=> i < nextId
        BY <1>1, <1>5, <2>2, NamesAssumption
      <3> QED
        BY <1>1, <1>5, <1>7, <1>9, <1>11, <2>2, <3>1, Zenon DEF OrdersOK
    <2> QED
      BY <2>1, <2>2, Zenon
  <1>14. WorkOK'
    <2>1. \E k \in 1 .. Len(responses') : responses'[k].time = q.time
      BY <1>4, <1>11, Zenon
    <2> QED
      BY <1>1, <1>2, <1>3, <1>6, <1>7, <1>8, <2>1, Zenon DEF WorkOK, Owned
  <1>15. Takes(r)
    BY <1>1, <1>2, <1>3, <1>4, <1>6, <1>7, <1>9, Zenon DEF Takes, q
  <1> QED
    BY <1>4, <1>9, <1>10, <1>11, <1>12, <1>13, <1>14, <1>15, Zenon DEF StepOK, ExchangeOK

\* A cancel or a replacement of order i is taken, and its notice goes out.
LEMMA NoticeStep ==
    ASSUME ExchangeOK, NEW kind \in {"cancel", "replace"},
           NEW pending \in {"PENDING_CANCEL", "PENDING_REPLACE"}, Incoming(kind),
           requests' = Tail(requests), nextTime' = nextTime,
           NEW i \in Named(Head(requests)), work' = [Head(requests) EXCEPT !.order = i],
           Publish(OrderReport(i, who[i], State(pending, 0, life[i].leaves), Head(requests).time, FALSE)),
           UNCHANGED <<life, who, nextId>>
    PROVE  StepOK
  <1> DEFINE q == Head(requests)
             r == OrderReport(i, who[i], State(pending, 0, life[i].leaves), q.time, FALSE)
  <1>1. /\ work = NoRequest /\ requests # <<>> /\ q.kind = kind /\ work.kind = "none"
        /\ responses' = Append(responses, r) /\ life' = life /\ who' = who /\ nextId' = nextId
    BY Zenon DEF Incoming, Publish, NoRequest
  <1>2. /\ q \in Request /\ q.user \in Users /\ q.time \in Nat /\ q.time < nextTime /\ Owned(q)
        /\ q.oid \in Ids \cup {NoId}
    BY <1>1, HeadFacts, Zenon
  <1>3. /\ ExchangeType /\ OrdersOK /\ WorkOK /\ nextId \in Nat \ {0} /\ who \in [Ids -> Owner]
        /\ life \in [Ids -> Lives]
    BY Zenon DEF ExchangeOK, ExchangeType
  <1>4. /\ i \in Ids /\ IsLive(i) /\ (q.cl # NoClOrdId => who[i].cl = q.cl)
        /\ (q.cl = NoClOrdId => i = q.oid)
    BY Zenon DEF Named
  <1>5. /\ i < nextId /\ life[i].status \notin Ended /\ who[i] \in Owner /\ who[i].user \in Users
        /\ life[i].leaves \in Nat
    <2>1. life[i].status # "PENDING_NEW" /\ life[i].status \notin Ended
      BY <1>4, Zenon DEF IsLive, Live, Ended
    <2> QED
      BY <1>3, <1>4, <2>1 DEF OrdersOK, Unreported, Lives
  <1>6. /\ r \in Report /\ r.oid = i /\ r.user = who[i].user /\ r.cl = who[i].cl /\ r.time = q.time
    <2>1. LET o == State(pending, 0, life[i].leaves)
          IN  o.status = pending /\ o.cum \in Nat /\ o.leaves \in Nat
      BY <1>5, Zenon DEF State
    <2> QED
      BY <1>2, <1>4, <1>5, <2>1, Zenon DEF OrderReport, Report, Owner
  <1>7. /\ work'.kind = kind /\ work'.user = q.user /\ work'.cl = q.cl /\ work'.oid = q.oid
        /\ work'.time = q.time /\ work'.order = i /\ work' \in Request
    BY <1>1, <1>2, <1>4, Zenon DEF Request
  <1> HIDE DEF r, q
  <1>8. nextId' >= nextId
    BY <1>1, <1>3
  <1>9. Moves
    BY <1>1, <1>3, <1>8, Zenon DEF Moves
  <1>10. Publishes(r)
    BY <1>1, <1>2, <1>5, <1>6, Zenon DEF Publishes
  <1>11. /\ requests' \in Seq(Request) /\ responses' \in Seq(Report) /\ QueuesOK'
         /\ \A j \in Ids : j < nextId => \E k \in 1 .. Len(responses') : responses'[k].oid = j
         /\ \E k \in 1 .. Len(responses') : responses'[k] = r
    BY <1>1, <1>6, <1>9, <1>10, QueuesStep, Zenon
  <1>12. ExchangeType'
    BY <1>1, <1>3, <1>7, <1>11, Zenon DEF ExchangeType
  <1>13. OrdersOK'
    BY <1>1, <1>3, <1>11 DEF OrdersOK
  <1>14. WorkOK'
    <2>1. \E k \in 1 .. Len(responses') : responses'[k].time = q.time
      BY <1>6, <1>11, Zenon
    <2> QED
      BY <1>1, <1>2, <1>4, <1>5, <1>7, <2>1, Zenon DEF WorkOK, Owned
  <1>15. Takes(r)
    <2>1. NamesLive(r.cl) /\ (q.cl = NoClOrdId => r.user = q.user)
      BY <1>2, <1>4, <1>5, <1>6, NamesAssumption, Zenon DEF NamesLive, Owned, NoId
    <2> QED
      BY <1>1, <1>4, <1>6, <1>7, <2>1, Zenon DEF Takes, q
  <1> QED
    BY <1>6, <1>9, <1>10, <1>11, <1>12, <1>13, <1>14, <1>15, Zenon DEF StepOK, ExchangeOK

\* Every step of the exchange thread keeps its invariant and only extends the report queue.
LEMMA ExchangeSteps == ASSUME ExchangeOK, ExchangeNext PROVE StepOK
  <1>1. CASE TakeNew
    <2>1. CASE Named(Head(requests)) = {}
      BY <1>1, <2>1, AnnounceStep, Zenon
    <2>2. CASE Named(Head(requests)) # {}
      <3>1. /\ work = NoRequest /\ requests # <<>> /\ requests' = Tail(requests)
            /\ Head(requests).kind = "new" /\ RejectRequest(Head(requests)) /\ nextTime' = nextTime
        BY <1>1, <2>2, Zenon DEF TakeNew, Incoming
      <3>2. Head(requests).kind # "cancel"
        BY <3>1, Zenon
      <3> QED
        BY <3>1, <3>2, RejectStep, Zenon
    <2> QED
      BY <2>1, <2>2, Zenon
  <1>2. ASSUME NEW kind \in {"cancel", "replace"}, NEW pending \in {"PENDING_CANCEL", "PENDING_REPLACE"},
               TakeAmendment(kind, pending)
        PROVE  StepOK
    <2>1. /\ Incoming(kind) /\ work = NoRequest /\ requests # <<>> /\ requests' = Tail(requests)
          /\ nextTime' = nextTime
      BY <1>2, Zenon DEF TakeAmendment, Incoming
    <2>2. CASE Named(Head(requests)) = {} /\ RejectRequest(Head(requests))
      <3>1. LET q == Head(requests)
            IN  q.kind = "cancel" /\ q.cl = NoClOrdId /\ q.oid \in Ids => ~IsLive(q.oid)
        BY <2>2, Zenon DEF Named
      <3> QED
        BY <2>1, <2>2, <3>1, RejectStep, Zenon
    <2>3. CASE \E i \in Named(Head(requests)) :
                  /\ work' = [Head(requests) EXCEPT !.order = i]
                  /\ Publish(OrderReport(i, who[i], State(pending, 0, life[i].leaves), Head(requests).time, FALSE))
                  /\ UNCHANGED <<life, who, nextId>>
      BY <2>1, <2>3, NoticeStep, Zenon
    <2> QED
      BY <1>2, <2>2, <2>3, Zenon DEF TakeAmendment
  <1>3. TakeAmendment("cancel", "PENDING_CANCEL") \/ TakeAmendment("replace", "PENDING_REPLACE") => StepOK
    BY <1>2, Zenon
  <1> QED
    BY <1>1, <1>3, WorkingSteps, RefusalSteps, EndStep, PassiveStep, Zenon DEF ExchangeNext, ExchangeStep

-----------------------------------------------------------------------------
\* What a gateway's request does.

\* A request a gateway may write: it names only orders of its user's.
Written(q) ==
    /\ q \in Request /\ q.kind \in {"new", "cancel", "replace"} /\ q.user \in Users
    /\ q.order = NoId /\ Owned(q) /\ (q.kind = "new" => q.oid = NoId)

\* It joins the queue under a time that no request and no report has yet.
Joins(q) ==
    /\ UNCHANGED <<life, who, nextId, responses, work>> /\ nextTime' = nextTime + 1
    /\ Len(requests') = Len(requests) + 1
    /\ \A k \in 1 .. Len(requests) : requests'[k] = requests[k]
    /\ LET n == requests'[Len(requests) + 1]
       IN  n.kind = q.kind /\ n.user = q.user /\ n.cl = q.cl /\ n.oid = q.oid /\ n.time = nextTime

\* Writing a well-formed request keeps the exchange's invariant; the request joins the
\* queue with a time of its own.
LEMMA SubmitStep ==
    ASSUME ExchangeOK, NEW q, Written(q), Submit(q)
    PROVE  ExchangeOK' /\ Joins(q)
  <1> DEFINE n == [q EXCEPT !.time = nextTime]
  <1>1. /\ requests' = Append(requests, n) /\ nextTime' = nextTime + 1
        /\ life' = life /\ who' = who /\ nextId' = nextId /\ responses' = responses /\ work' = work
    BY Zenon DEF Submit
  <1>2. /\ ExchangeType /\ OrdersOK /\ WorkOK /\ QueuesOK /\ nextTime \in Nat \ {0}
        /\ requests \in Seq(Request)
    BY Zenon DEF ExchangeOK, ExchangeType
  <1>3. /\ n \in Request /\ n.kind = q.kind /\ n.user = q.user /\ n.cl = q.cl /\ n.oid = q.oid
        /\ n.time = nextTime /\ n.order = q.order
    BY <1>2, Zenon DEF Written, Request
  <1> HIDE DEF n
  <1>4. /\ requests' \in Seq(Request) /\ Len(requests') = Len(requests) + 1
        /\ Len(requests) \in Nat
        /\ \A k \in 1 .. Len(requests) : requests'[k] = requests[k]
        /\ requests'[Len(requests) + 1] = n
    BY <1>1, <1>2, <1>3, AppendFacts
  <1>5. Joins(q)
    BY <1>1, <1>3, <1>4, Zenon DEF Joins
  <1>6. nextTime' \in Nat \ {0} /\ nextTime < nextTime' /\ nextTime # NoTime
    BY <1>1, <1>2 DEF NoTime
  <1>7. ExchangeType'
    BY <1>1, <1>2, <1>4, <1>6, Zenon DEF ExchangeType
  <1>8. OrdersOK'
    BY <1>1, <1>2, Zenon DEF OrdersOK
  <1>9. WorkOK'
    <2>1. work.time \in Nat
      BY <1>2, RequestFields, Zenon DEF ExchangeType
    <2> QED
      BY <1>1, <1>2, <2>1 DEF WorkOK, Owned
  <1>10. \A k \in 1 .. Len(responses) : responses[k].time < nextTime'
    <2>1. \A k \in 1 .. Len(responses) : responses[k].time \in Nat
      BY <1>2, ItemFacts, ReportFields, Zenon DEF ExchangeType
    <2> QED
      BY <1>1, <1>2, <2>1 DEF QueuesOK
  <1>11. \A k \in 1 .. Len(requests') :
          /\ requests'[k].kind \in {"new", "cancel", "replace"} /\ requests'[k].user \in Users
          /\ requests'[k].time # NoTime /\ requests'[k].time < nextTime'
          /\ requests'[k].order = NoId /\ Owned(requests'[k])
          /\ requests'[k].kind = "new" => requests'[k].oid = NoId
    <2> SUFFICES ASSUME NEW k \in 1 .. Len(requests')
                 PROVE  /\ requests'[k].kind \in {"new", "cancel", "replace"}
                        /\ requests'[k].user \in Users
                        /\ requests'[k].time # NoTime /\ requests'[k].time < nextTime'
                        /\ requests'[k].order = NoId /\ Owned(requests'[k])
                        /\ requests'[k].kind = "new" => requests'[k].oid = NoId
      BY Zenon
    <2>1. CASE k \in 1 .. Len(requests)
      <3>1. requests[k].time \in Nat
        BY <1>2, <2>1, ItemFacts, RequestFields, Zenon
      <3>2. requests[k].time < nextTime => requests[k].time < nextTime'
        BY <1>1, <1>2, <3>1
      <3> QED
        BY <1>2, <1>4, <2>1, <3>2, Zenon DEF QueuesOK
    <2>2. CASE k = Len(requests) + 1
      BY <1>3, <1>4, <1>6, <2>2, Zenon DEF Written, Owned
    <2> QED
      BY <1>4, <2>1, <2>2
  <1>12. QueuesOK'
    BY <1>1, <1>2, <1>10, <1>11, ZenonT(40) DEF QueuesOK, Owned
  <1> QED
    BY <1>5, <1>7, <1>8, <1>9, <1>12, Zenon DEF ExchangeOK

\* An order that is going goes on going, whatever the exchange does ...
LEMMA GoingStep ==
    ASSUME ExchangeOK, StepOK, NEW i \in Ids, i < nextId, Going(i)
    PROVE  Going(i)'
  <1>1. /\ requests \in Seq(Request) /\ life \in [Ids -> Lives] /\ OrdersOK /\ Moves
    BY Zenon DEF ExchangeOK, ExchangeType, StepOK
  <1>2. CASE life[i].status \in Ended \/ (work.kind = "cancel" /\ work.order = i)
    BY <1>1, <1>2, Zenon DEF Going, Moves
  <1>3. ASSUME NEW k \in 1 .. Len(requests), requests[k].kind = "cancel",
               requests[k].cl = NoClOrdId, requests[k].oid = i
        PROVE  Going(i)'
    <2>1. CASE requests' = requests
      BY <1>3, <2>1, Zenon DEF Going
    <2>2. ASSUME NEW r \in Report, Takes(r)
          PROVE  Going(i)'
      <3>1. /\ requests # <<>> /\ requests' = Tail(requests) /\ work.kind = "none"
            /\ LET q == Head(requests)
               IN  q.kind = "cancel" /\ q.cl = NoClOrdId /\ q.oid \in Ids /\ IsLive(q.oid) =>
                      work'.kind = "cancel" /\ work'.order = q.oid
        BY <2>2, Zenon DEF Takes
      <3>2. /\ Len(requests') = Len(requests) - 1 /\ Len(requests) \in Nat \ {0}
            /\ \A m \in 1 .. Len(requests) - 1 : requests'[m] = requests[m + 1]
            /\ Head(requests) = requests[1]
        BY <1>1, <3>1, TailFacts, Zenon
      <3>3. CASE k = 1
        <4>1. life[i].status \in Live \cup Ended \cup {"PENDING_NEW"} /\ life[i].status # "PENDING_NEW"
          BY <1>1, <3>1, Zenon DEF OrdersOK, Lives
        <4>2. IsLive(i) => work'.kind = "cancel" /\ work'.order = i
          BY <1>3, <3>1, <3>2, <3>3, Zenon
        <4> QED
          BY <1>1, <4>1, <4>2, Zenon DEF Going, Moves, IsLive
      <3>4. CASE k # 1
        <4>1. /\ k - 1 \in 1 .. Len(requests') /\ requests'[k - 1] = requests[k]
          BY <3>2, <3>4
        <4> QED
          BY <1>3, <4>1, Zenon DEF Going
      <3> QED
        BY <3>3, <3>4, Zenon
    <2> QED
      BY <2>1, <2>2, Zenon DEF StepOK, Silent, WorksOn
  <1> QED
    BY <1>2, <1>3, Zenon DEF Going

\* ... and whoever writes a request.
LEMMA GoingSubmit ==
    ASSUME ExchangeOK, NEW q, Joins(q), NEW i \in Ids
    PROVE  /\ Going(i) => Going(i)'
           /\ q.kind = "cancel" /\ q.cl = NoClOrdId /\ q.oid = i => Going(i)'
  <1>1. Len(requests) \in Nat
    BY DEF ExchangeOK, ExchangeType
  <1>2. /\ Len(requests) + 1 \in 1 .. Len(requests')
        /\ \A k \in 1 .. Len(requests) : k \in 1 .. Len(requests')
    BY <1>1 DEF Joins
  <1> QED
    BY <1>2, Zenon DEF Going, Joins

-----------------------------------------------------------------------------
\* The handlers, while the exchange works.

HandlersOK == RestOK /\ RestWaits /\ HlOK /\ GatewayOK /\ ForgetOK

\* The queue of reports only grows, that of requests only shrinks.
LEMMA QueueGrowth ==
    ASSUME ExchangeOK, StepOK
    PROVE  /\ Len(responses) \in Nat /\ Len(responses') \in Nat /\ Len(responses) <= Len(responses')
           /\ \A k \in 1 .. Len(responses) : k \in 1 .. Len(responses') /\ responses'[k] = responses[k]
           /\ \A k \in 1 .. Len(requests') : \E m \in 1 .. Len(requests) : requests'[k] = requests[m]
           /\ \A k \in 1 .. Len(responses') : k \notin 1 .. Len(responses) =>
                 /\ k = Len(responses) + 1 /\ Publishes(responses'[k])
                 /\ Takes(responses'[k]) \/ WorksOn(responses'[k])
  <1>1. requests \in Seq(Request) /\ responses \in Seq(Report) /\ Len(responses) \in Nat
    BY DEF ExchangeOK, ExchangeType
  <1>2. CASE Silent
    BY <1>1, <1>2 DEF Silent
  <1>3. ASSUME NEW r \in Report, Publishes(r), Takes(r) \/ WorksOn(r)
        PROVE  /\ Len(responses) \in Nat /\ Len(responses') \in Nat /\ Len(responses) <= Len(responses')
               /\ \A k \in 1 .. Len(responses) : k \in 1 .. Len(responses') /\ responses'[k] = responses[k]
               /\ \A k \in 1 .. Len(requests') : \E m \in 1 .. Len(requests) : requests'[k] = requests[m]
               /\ \A k \in 1 .. Len(responses') : k \notin 1 .. Len(responses) =>
                     /\ k = Len(responses) + 1 /\ Publishes(responses'[k])
                     /\ Takes(responses'[k]) \/ WorksOn(responses'[k])
    <2>1. /\ Len(responses') = Len(responses) + 1
          /\ \A k \in 1 .. Len(responses) : responses'[k] = responses[k]
          /\ responses'[Len(responses) + 1] = r
      BY <1>1, <1>3, AppendFacts DEF Publishes
    <2>2. \A k \in 1 .. Len(requests') : \E m \in 1 .. Len(requests) : requests'[k] = requests[m]
      <3>1. CASE requests' = requests
        BY <3>1, Zenon
      <3>2. CASE requests # <<>> /\ requests' = Tail(requests)
        <4>1. /\ Len(requests') = Len(requests) - 1 /\ Len(requests) \in Nat \ {0}
              /\ \A k \in 1 .. Len(requests) - 1 : requests'[k] = requests[k + 1]
          BY <1>1, <3>2, TailFacts, Zenon
        <4>2. \A k \in 1 .. Len(requests') : k \in 1 .. Len(requests) - 1 /\ k + 1 \in 1 .. Len(requests)
          BY <4>1
        <4> QED
          BY <4>1, <4>2, Zenon
      <3> QED
        BY <1>3, <3>1, <3>2, Zenon DEF Takes, WorksOn
    <2>3. /\ Len(responses') \in Nat /\ Len(responses) <= Len(responses')
          /\ \A k \in 1 .. Len(responses) : k \in 1 .. Len(responses')
          /\ \A k \in 1 .. Len(responses') : k \notin 1 .. Len(responses) => k = Len(responses) + 1
      BY <1>1, <2>1
    <2> QED
      BY <1>1, <1>3, <2>1, <2>2, <2>3, Zenon
  <1> QED
    BY <1>2, <1>3, Zenon DEF StepOK

\* The first report that carries a request's time is published when it is taken.
LEMMA FirstReport ==
    ASSUME ExchangeOK, StepOK, NEW t, t # NoTime, NEW k \in 1 .. Len(responses'),
           responses'[k].time = t, \A m \in 1 .. k - 1 : responses'[m].time # t
    PROVE  \/ /\ k \in 1 .. Len(responses) /\ responses'[k] = responses[k]
              /\ \A m \in 1 .. k - 1 : responses[m].time # t
           \/ Takes(responses'[k])
  <1>1. CASE k \in 1 .. Len(responses)
    <2>1. \A m \in 1 .. k - 1 : m \in 1 .. Len(responses)
      BY <1>1, QueueGrowth
    <2> QED
      BY <1>1, <2>1, QueueGrowth, Zenon
  <1>2. CASE k = Len(responses) + 1 /\ WorksOn(responses'[k])
    <2>1. work.kind # "none" /\ work.time = t
      BY <1>2, Zenon DEF WorksOn
    <2>2. PICK m \in 1 .. Len(responses) : responses[m].time = t
      BY <2>1, Zenon DEF ExchangeOK, WorkOK
    <2>3. m \in 1 .. k - 1
      BY <1>2, QueueGrowth
    <2> QED
      BY <2>2, <2>3, QueueGrowth, Zenon
  <1> QED
    BY <1>1, <1>2, QueueGrowth, Zenon

\* The fields of the Coinbase REST handler's frame.
LEMMA RestFields ==
    ASSUME NEW h \in RestHandler
    PROVE  /\ h.pc \in {"idle", "capture", "publish", "wait", "results", "drain"}
           /\ h.kind \in {"none", "new", "cancel", "replace"}
           /\ h.user \in Users \cup {NoUser} /\ h.cl \in Names /\ h.oid \in Ids \cup {NoId}
           /\ h.qty \in Nat /\ h.time \in Nat /\ h.cursor \in Nat /\ h.todo \in Seq(Ids)
           /\ h.canceled \subseteq Ids
  BY Zenon DEF RestHandler

\* A step of the exchange, with the REST handler waiting, keeps what the handler relies on:
\* no report its request causes lies before its cursor.
LEMMA RestMeanwhile ==
    ASSUME ExchangeOK, RestOK, RestWaits, ForgetOK, StepOK, UNCHANGED <<rest, known, given>>
    PROVE  RestOK' /\ RestWaits' /\ ForgetOK'
  <1>1. /\ nextId \in Nat \ {0} /\ Moves /\ nextId' \in Nat \ {0} /\ nextTime' = nextTime
        /\ rest' = rest /\ known' = known /\ given' = given
    BY Zenon DEF ExchangeOK, ExchangeType, StepOK, Moves
  <1>2. \A i \in Ids : i < nextId => i < nextId' /\ who'[i] = who[i]
    <2>1. /\ nextId' >= nextId /\ Ids \subseteq Nat
          /\ \A i \in Ids : i < nextId => who'[i] = who[i]
      BY <1>1, NamesAssumption, Zenon DEF Moves
    <2> QED
      BY <1>1, <2>1
  <1>3. rest.pc \in {"publish", "wait"} => rest.cursor \in 1 .. Len(responses') + 1
    BY QueueGrowth DEF RestOK, HandlerOK, QueueEnd
  <1>4. /\ rest.canceled \subseteq Ids /\ known \subseteq Ids /\ given \subseteq Ids
        /\ rest \in RestHandler
    BY RestFields, Zenon DEF RestOK, HandlerOK
  <1>5. RestOK'
    BY <1>1, <1>2, <1>3, <1>4 DEF RestOK, HandlerOK, OwnOrder, QueueEnd
  <1>6. ForgetOK'
    <2>1. \A i \in Ids : i < nextId /\ Going(i) => Going(i)'
      BY GoingStep, Zenon
    <2>2. rest.pc = "wait" /\ rest.kind = "cancel" => rest.oid \in Ids /\ rest.oid < nextId
      BY Zenon DEF RestOK, HandlerOK, OwnOrder
    <2>3. rest.pc = "wait" /\ rest.kind = "cancel" => Going(rest.oid)'
      <3> SUFFICES ASSUME rest.pc = "wait", rest.kind = "cancel" PROVE Going(rest.oid)'
        BY Zenon
      <3>1. PICK j \in Ids : j = rest.oid /\ j < nextId
        BY <2>2, Zenon
      <3>2. Going(j)'
        BY <2>1, <3>1, Zenon DEF ForgetOK
      <3> QED
        BY <1>1, <3>1, <3>2, Zenon DEF Going
    <2>4. \A i \in (given \ known) \cup rest.canceled : i \in Ids /\ i < nextId /\ Going(i)
      BY <1>4, Zenon DEF RestOK, HandlerOK, ForgetOK
    <2>5. \A i \in (given \ known) \cup rest.canceled : Going(i)'
      BY <2>1, <2>4, Zenon
    <2>6. rest'.pc = "wait" /\ rest'.kind = "cancel" => Going(rest.oid)'
      BY <1>1, <2>3, Zenon
    <2> QED
      BY <1>1, <2>5, <2>6, Zenon DEF ForgetOK, Going
  <1>7. ASSUME rest.pc = "wait" PROVE RestWaits'
    <2>1. /\ rest.time # NoTime /\ rest.time < nextTime
          /\ \A k \in 1 .. Len(requests) : requests[k].time = rest.time =>
                /\ requests[k].kind = rest.kind /\ requests[k].user = rest.user
                /\ requests[k].cl = rest.cl /\ requests[k].oid = rest.oid
          /\ \A k \in 1 .. rest.cursor - 1 : responses[k].time # rest.time
          /\ \A k \in 1 .. Len(responses) :
                responses[k].time = rest.time /\ (\A m \in 1 .. k - 1 : responses[m].time # rest.time)
                    => IsAnswer(responses[k])
      BY <1>7, Zenon DEF RestWaits
    <2>2. \A k \in 1 .. Len(requests') : requests'[k].time = rest.time =>
                /\ requests'[k].kind = rest.kind /\ requests'[k].user = rest.user
                /\ requests'[k].cl = rest.cl /\ requests'[k].oid = rest.oid
      <3>1. \A k \in 1 .. Len(requests') : \E m \in 1 .. Len(requests) : requests'[k] = requests[m]
        BY QueueGrowth, Zenon
      <3> QED
        BY <2>1, <3>1, ZenonT(40)
    <2>3. \A k \in 1 .. rest.cursor - 1 : responses'[k].time # rest.time
      <3>1. \A k \in 1 .. rest.cursor - 1 : k \in 1 .. Len(responses)
        BY <1>7, QueueGrowth DEF RestOK, HandlerOK, QueueEnd
      <3> QED
        BY <2>1, <3>1, QueueGrowth, Zenon
    <2>4. ASSUME NEW k \in 1 .. Len(responses'), responses'[k].time = rest.time,
                 \A m \in 1 .. k - 1 : responses'[m].time # rest.time
          PROVE  IsAnswer(responses'[k])
      <3>1. CASE Takes(responses'[k])
        <4> DEFINE q == Head(requests)
        <4>1. /\ requests # <<>> /\ q.time = rest.time
              /\ q.kind = "new" => responses'[k].user = q.user /\ responses'[k].cl = q.cl
              /\ q.kind # "new" /\ q.cl = NoClOrdId => responses'[k].user = q.user
          BY <2>4, <3>1, Zenon DEF Takes
        <4>2. q = requests[1] /\ 1 \in 1 .. Len(requests)
          BY <4>1 DEF ExchangeOK, ExchangeType
        <4>3. q.kind = rest.kind /\ q.user = rest.user /\ q.cl = rest.cl
          BY <2>1, <4>1, <4>2, Zenon
        <4>4. rest.kind # "new" => rest.cl = NoClOrdId
          BY <1>7, Zenon DEF RestOK, HandlerOK
        <4> QED
          BY <2>4, <4>1, <4>3, <4>4, Zenon DEF IsAnswer
      <3>2. CASE /\ k \in 1 .. Len(responses) /\ responses'[k] = responses[k]
                 /\ \A m \in 1 .. k - 1 : responses[m].time # rest.time
        BY <2>1, <2>4, <3>2, Zenon
      <3> QED
        BY <2>1, <2>4, <3>1, <3>2, FirstReport, Zenon
    <2> QED
      BY <1>1, <2>1, <2>2, <2>3, <2>4, ZenonT(40) DEF RestWaits, IsAnswer
  <1> QED
    BY <1>1, <1>5, <1>6, <1>7, Zenon DEF RestWaits

\* A step of the exchange, with the Hyperliquid handler waiting, keeps what that one relies on.
LEMMA HlMeanwhile ==
    ASSUME ExchangeOK, HlOK, StepOK, UNCHANGED hl
    PROVE  HlOK'
  <1>1. Moves /\ nextTime' = nextTime /\ hl' = hl
    BY Zenon DEF StepOK, Moves
  <1>2. hl.pc \in {"publish", "wait"} => hl.cursor \in 1 .. Len(responses') + 1
    <2>1. hl.pc \in {"publish", "wait"} => hl.cursor \in 1 .. Len(responses) + 1
      BY Zenon DEF HlOK, QueueEnd
    <2>2. Len(responses) \in Nat /\ Len(responses') \in Nat /\ Len(responses) <= Len(responses')
      BY QueueGrowth, Zenon
    <2>3. \A k \in 1 .. Len(responses) + 1 : k \in 1 .. Len(responses') + 1
      BY <2>2
    <2> QED
      BY <2>1, <2>3, Zenon
  <1>3. ASSUME hl.pc = "wait"
        PROVE  /\ hl.time # NoTime /\ hl.time < nextTime
               /\ \A k \in 1 .. Len(requests') : requests'[k].time = hl.time =>
                     requests'[k].kind = "new" /\ requests'[k].user = hl.user /\ requests'[k].cl = hl.cl
               /\ \A k \in 1 .. hl.cursor - 1 : responses'[k].time # hl.time
               /\ \A k \in 1 .. Len(responses') :
                     responses'[k].time = hl.time /\ (\A m \in 1 .. k - 1 : responses'[m].time # hl.time)
                         => HlIsAnswer(responses'[k])
    <2>1. /\ hl.time # NoTime /\ hl.time < nextTime
          /\ \A k \in 1 .. Len(requests) : requests[k].time = hl.time =>
                requests[k].kind = "new" /\ requests[k].user = hl.user /\ requests[k].cl = hl.cl
          /\ \A k \in 1 .. hl.cursor - 1 : responses[k].time # hl.time
          /\ \A k \in 1 .. Len(responses) :
                responses[k].time = hl.time /\ (\A m \in 1 .. k - 1 : responses[m].time # hl.time)
                    => HlIsAnswer(responses[k])
      BY <1>3, Zenon DEF HlOK
    <2>2. \A k \in 1 .. Len(requests') : requests'[k].time = hl.time =>
                requests'[k].kind = "new" /\ requests'[k].user = hl.user /\ requests'[k].cl = hl.cl
      <3>1. \A k \in 1 .. Len(requests') : \E m \in 1 .. Len(requests) : requests'[k] = requests[m]
        BY QueueGrowth, Zenon
      <3> QED
        BY <2>1, <3>1, Zenon
    <2>3. \A k \in 1 .. hl.cursor - 1 : responses'[k].time # hl.time
      <3>1. \A k \in 1 .. hl.cursor - 1 : k \in 1 .. Len(responses)
        <4>1. hl.cursor \in 1 .. Len(responses) + 1
          BY <1>3, Zenon DEF HlOK, QueueEnd
        <4>2. Len(responses) \in Nat
          BY QueueGrowth, Zenon
        <4> QED
          BY <4>1, <4>2
      <3> QED
        BY <2>1, <3>1, QueueGrowth, Zenon
    <2>4. ASSUME NEW k \in 1 .. Len(responses'), responses'[k].time = hl.time,
                 \A m \in 1 .. k - 1 : responses'[m].time # hl.time
          PROVE  HlIsAnswer(responses'[k])
      <3>1. CASE Takes(responses'[k])
        <4> DEFINE q == Head(requests)
        <4>1. /\ requests # <<>> /\ q.time = hl.time
              /\ q.kind = "new" => responses'[k].user = q.user /\ responses'[k].cl = q.cl
          BY <2>4, <3>1, Zenon DEF Takes
        <4>2. q = requests[1] /\ 1 \in 1 .. Len(requests)
          BY <4>1 DEF ExchangeOK, ExchangeType
        <4> QED
          BY <2>1, <4>1, <4>2, Zenon DEF HlIsAnswer
      <3>2. CASE /\ k \in 1 .. Len(responses) /\ responses'[k] = responses[k]
                 /\ \A m \in 1 .. k - 1 : responses[m].time # hl.time
        BY <2>1, <2>4, <3>2, Zenon
      <3> QED
        BY <2>1, <2>4, <3>1, <3>2, FirstReport, Zenon
    <2> QED
      BY <2>1, <2>2, <2>3, <2>4, Zenon
  <1> QED
    BY <1>1, <1>2, <1>3, Zenon DEF HlOK, HlIsAnswer, QueueEnd

-----------------------------------------------------------------------------
\* The steps of the handlers themselves.

\* A step that leaves the exchange alone keeps its invariant, and the Hyperliquid handler's
\* when it leaves that alone too.
LEMMA SameExchange ==
    ASSUME UNCHANGED exchangeVars
    PROVE  /\ ExchangeOK => ExchangeOK'
           /\ HlOK /\ UNCHANGED hl => HlOK'
  <1>1. /\ life' = life /\ who' = who /\ nextId' = nextId /\ nextTime' = nextTime
        /\ requests' = requests /\ responses' = responses /\ work' = work
    BY Zenon DEF exchangeVars
  <1>2. ExchangeType => ExchangeType'
    BY <1>1, Zenon DEF ExchangeType
  <1>3. OrdersOK => OrdersOK'
    BY <1>1, Zenon DEF OrdersOK
  <1>4. WorkOK => WorkOK'
    BY <1>1, Zenon DEF WorkOK, Owned
  <1>5. QueuesOK => QueuesOK'
    BY <1>1, Zenon DEF QueuesOK, Owned
  <1>6. HlOK /\ UNCHANGED hl => HlOK'
    BY <1>1, ZenonT(40) DEF HlOK, HlIsAnswer, QueueEnd
  <1> QED
    BY <1>2, <1>3, <1>4, <1>5, <1>6, Zenon DEF ExchangeOK

\* The handler goes on, with nobody else moving and no request of its own under way.
LEMMA RestTurns ==
    ASSUME UNCHANGED exchangeVars, HandlerOK(rest'), rest'.pc # "wait",
           \A i \in rest'.canceled : Going(i),
           known' \subseteq Ids, given' \subseteq Ids, \A i \in given' : i < nextId,
           \A i \in given' \ known' : Going(i)
    PROVE  RestOK' /\ RestWaits' /\ ForgetOK'
  <1>1. /\ life' = life /\ who' = who /\ nextId' = nextId
        /\ requests' = requests /\ responses' = responses /\ work' = work
    BY Zenon DEF exchangeVars
  <1>2. RestOK'
    BY <1>1, Zenon DEF RestOK, HandlerOK, OwnOrder, QueueEnd
  <1>3. RestWaits'
    BY Zenon DEF RestWaits
  <1>4. ForgetOK'
    BY <1>1, Zenon DEF ForgetOK, Going
  <1> QED
    BY <1>2, <1>3, <1>4, Zenon

\* What the REST handler's invariant says of each point of the handler.
LEMMA RestFacts ==
    ASSUME RestOK
    PROVE  /\ rest \in RestHandler /\ known \subseteq Ids /\ given \subseteq Ids
           /\ \A i \in given : i < nextId
           /\ rest.pc \in {"idle", "drain"} => rest.canceled = {}
           /\ rest.pc \in {"publish", "wait"} => rest.cursor \in 1 .. QueueEnd
           /\ rest.pc \in {"capture", "publish", "wait"} =>
                 /\ rest.user \in Users /\ rest.kind # "none"
                 /\ rest.kind = "new" => rest.oid = NoId
                 /\ rest.kind # "new" => rest.cl = NoClOrdId /\ OwnOrder(rest.oid, rest.user)
           /\ \A k \in 1 .. Len(rest.todo) : OwnOrder(rest.todo[k], rest.user)
           /\ \A i \in rest.canceled : i < nextId
  BY Zenon DEF RestOK, HandlerOK

\* A handler between two requests satisfies its invariant.
LEMMA IdleHandler ==
    /\ HandlerOK(NoHandler) /\ NoHandler \in RestHandler /\ NoHandler.pc = "idle"
    /\ NoHandler.canceled = {} /\ NoHandler.oid = NoId /\ NoHandler.cl = NoClOrdId
    /\ NoHandler.todo = <<>>
  <1>1. NoHandler \in RestHandler
    BY DEF NoHandler, RestHandler, Names, NoId, NoTime
  <1>2. /\ NoHandler.pc = "idle" /\ NoHandler.canceled = {} /\ NoHandler.oid = NoId
        /\ NoHandler.cl = NoClOrdId /\ NoHandler.todo = <<>>
    BY Zenon DEF NoHandler
  <1>3. 1 .. Len(<<>>) = {}
    OBVIOUS
  <1>4. NoHandler.pc \notin {"capture", "publish", "wait"}
    BY <1>2, Zenon
  <1>5. HandlerOK(NoHandler)
    BY <1>1, <1>2, <1>3, <1>4, Zenon DEF HandlerOK
  <1> QED
    BY <1>1, <1>2, <1>5, Zenon

\* The rest of a sequence behind k.
LEMMA RestOfSeq ==
    ASSUME NEW S, NEW s \in Seq(S), NEW k \in 1 .. Len(s)
    PROVE  /\ SubSeq(s, k + 1, Len(s)) \in Seq(S)
           /\ Len(SubSeq(s, k + 1, Len(s))) = Len(s) - k
           /\ \A m \in 1 .. Len(s) - k :
                 k + m \in 1 .. Len(s) /\ SubSeq(s, k + 1, Len(s))[m] = s[k + m]
  OBVIOUS

\* The loop head of a batch of cancels: on to the next order that is known.
LEMMA NextCancelFacts ==
    ASSUME NEW h \in RestHandler, h.kind = "cancel", h.user \in Users, h.cl = NoClOrdId,
           \A k \in 1 .. Len(h.todo) : OwnOrder(h.todo[k], h.user),
           \A i \in h.canceled : i < nextId
    PROVE  /\ HandlerOK(NextCancel(h)) /\ NextCancel(h).canceled = h.canceled
           /\ NextCancel(h).pc \in {"capture", "results"} /\ NextCancel(h).kind = "cancel"
  <1>1. CASE FirstKnown(h.todo) = {}
    <2>0. PICK e \in Seq(Ids) : e = <<>>
      BY ShortSeqs, Zenon
    <2> DEFINE n == [h EXCEPT !.pc = "results", !.todo = e]
    <2>1. NextCancel(h) = n
      BY <1>1, <2>0, Zenon DEF NextCancel
    <2>2. /\ n \in RestHandler /\ n.pc = "results" /\ n.canceled = h.canceled /\ n.kind = "cancel"
          /\ n.todo = e
      BY Zenon DEF RestHandler
    <2> HIDE DEF n
    <2>3. HandlerOK(n)
      BY <2>0, <2>2 DEF HandlerOK
    <2> QED
      BY <2>1, <2>2, <2>3, Zenon
  <1>2. CASE FirstKnown(h.todo) # {}
    <2> DEFINE k == CHOOSE k \in FirstKnown(h.todo) : TRUE
               rem == SubSeq(h.todo, k + 1, Len(h.todo))
               n == [h EXCEPT !.pc = "capture", !.oid = h.todo[k], !.todo = rem]
    <2>1. k \in 1 .. Len(h.todo) /\ h.todo \in Seq(Ids)
      <3>1. k \in FirstKnown(h.todo)
        BY <1>2, Zenon
      <3> QED
        BY <3>1, RestFields, Zenon DEF FirstKnown
    <2>2. NextCancel(h) = n
      BY <1>2, Zenon DEF NextCancel, RestHandler
    <2> HIDE DEF k
    <2>3. /\ rem \in Seq(Ids) /\ Len(rem) = Len(h.todo) - k /\ OwnOrder(h.todo[k], h.user)
          /\ \A m \in 1 .. Len(h.todo) - k : k + m \in 1 .. Len(h.todo) /\ rem[m] = h.todo[k + m]
      BY <2>1, RestOfSeq, Zenon
    <2> HIDE DEF rem
    <2>4. /\ n \in RestHandler /\ n.pc = "capture" /\ n.canceled = h.canceled /\ n.kind = "cancel"
          /\ n.todo = rem /\ n.oid = h.todo[k] /\ n.user = h.user /\ n.cl = h.cl
      BY <2>3, Zenon DEF RestHandler, OwnOrder
    <2> HIDE DEF n
    <2>5. HandlerOK(n)
      BY <2>3, <2>4, Zenon DEF HandlerOK
    <2> QED
      BY <2>2, <2>4, <2>5, Zenon
  <1> QED
    BY <1>1, <1>2, Zenon

\* A handler begins.
LEMMA RestBegins ==
    ASSUME ExchangeOK, RestOK, ForgetOK, RestRequests
    PROVE  /\ RestOK' /\ RestWaits' /\ ForgetOK' /\ UNCHANGED exchangeVars
  <1>1. /\ UNCHANGED exchangeVars /\ known' = known /\ given' = given /\ rest.pc = "idle"
    <2>1. /\ \A user, cl, price, qty : CreateOrder(user, cl, price, qty) => rest.pc = "idle" /\ \E h : Begin(h)
          /\ \A user, i, price, qty : EditOrder(user, i, price, qty) => rest.pc = "idle" /\ \E h : Begin(h)
          /\ \A user, oids : BatchCancel(user, oids) => rest.pc = "idle" /\ \E h : Begin(h)
      BY Zenon DEF CreateOrder, EditOrder, BatchCancel, RestIdle
    <2>2. ASSUME NEW h, Begin(h)
          PROVE  UNCHANGED exchangeVars /\ known' = known /\ given' = given
      BY <2>2, Zenon DEF Begin
    <2> QED
      BY <2>1, <2>2, Zenon DEF RestRequests
  <1>2. /\ known \subseteq Ids /\ given \subseteq Ids /\ \A i \in given : i < nextId
        /\ \A i \in given \ known : Going(i)
    BY RestFacts, Zenon DEF ForgetOK
  <1>3. HandlerOK(rest') /\ rest'.pc # "wait" /\ rest'.canceled = {}
    <2>1. PICK user \in Users :
            \/ \E cl \in ClOrdIds, c \in Configurations : CreateOrder(user, cl, c[1], c[2])
            \/ \E i \in given : who[i].user = user
                 /\ \/ \E p \in Prices \cup {NullPrice}, q \in Sizes \cup {0} : EditOrder(user, i, p, q)
                    \/ BatchCancel(user, <<i>>)
                    \/ \E j \in given : who[j].user = user /\ BatchCancel(user, <<i, j>>)
      BY Zenon DEF RestRequests
    <2>2. ASSUME NEW cl \in ClOrdIds, NEW c \in Configurations, CreateOrder(user, cl, c[1], c[2])
          PROVE  HandlerOK(rest') /\ rest'.pc # "wait" /\ rest'.canceled = {}
      <3>1. c[2] \in Nat
        BY SizesAssumption, Zenon DEF Configurations
      <3>2. rest' = [NoHandler EXCEPT !.pc = "capture", !.kind = "new", !.user = user,
                                      !.cl = cl, !.qty = c[2]]
        BY <2>2, Zenon DEF CreateOrder, Begin
      <3>3. /\ rest' \in RestHandler /\ rest'.pc = "capture" /\ rest'.kind = "new" /\ rest'.user = user
            /\ rest'.oid = NoId /\ rest'.todo = <<>> /\ rest'.canceled = {}
        BY <3>1, <3>2, IdleHandler, Zenon DEF RestHandler, Names
      <3> QED
        BY <3>3 DEF HandlerOK
    <2>3. ASSUME NEW i \in given, who[i].user = user, NEW p, NEW q \in Sizes \cup {0},
                 EditOrder(user, i, p, q)
          PROVE  HandlerOK(rest') /\ rest'.pc # "wait" /\ rest'.canceled = {}
      <3>1. q \in Nat /\ i \in Ids
        BY <1>2, SizesAssumption
      <3>2. rest' = [NoHandler EXCEPT !.pc = "capture", !.kind = "replace", !.user = user,
                                      !.oid = i, !.qty = q]
        BY <2>3, Zenon DEF EditOrder, Begin
      <3>3. /\ rest' \in RestHandler /\ rest'.pc = "capture" /\ rest'.kind = "replace"
            /\ rest'.user = user /\ rest'.cl = NoClOrdId
            /\ rest'.oid = i /\ rest'.todo = <<>> /\ rest'.canceled = {}
        BY <3>1, <3>2, IdleHandler, Zenon DEF RestHandler, Names
      <3> QED
        BY <1>2, <2>3, <3>1, <3>3 DEF HandlerOK, OwnOrder
    <2>4. ASSUME NEW oids \in Seq({i \in given : who[i].user = user}), BatchCancel(user, oids)
          PROVE  HandlerOK(rest') /\ rest'.pc # "wait" /\ rest'.canceled = {}
      <3> DEFINE h == [NoHandler EXCEPT !.kind = "cancel", !.user = user, !.todo = oids]
      <3>1. rest' = NextCancel(h)
        BY <2>4, Zenon DEF BatchCancel, Begin
      <3>2. oids \in Seq(Ids) /\ \A k \in 1 .. Len(oids) : OwnOrder(oids[k], user)
        <4>1. \A k \in 1 .. Len(oids) : oids[k] \in given /\ who[oids[k]].user = user
          BY <2>4
        <4> QED
          BY <1>2, <2>4, <4>1 DEF OwnOrder
      <3>3. /\ h \in RestHandler /\ h.kind = "cancel" /\ h.user = user /\ h.cl = NoClOrdId
            /\ h.todo = oids /\ h.canceled = {}
        BY <3>2, IdleHandler, Zenon DEF RestHandler, Names
      <3> HIDE DEF h
      <3> QED
        BY <3>1, <3>2, <3>3, NextCancelFacts, Zenon
    <2>5. \A i, j \in given : who[i].user = user /\ who[j].user = user =>
             /\ <<i>> \in Seq({k \in given : who[k].user = user})
             /\ <<i, j>> \in Seq({k \in given : who[k].user = user})
      BY ShortSeqs, Zenon
    <2> QED
      BY <2>1, <2>2, <2>3, <2>4, <2>5, Zenon
  <1> QED
    BY <1>1, <1>2, <1>3, RestTurns, Zenon

\* A handler takes its answer, or goes on without one.
LEMMA RestFinishes ==
    ASSUME ExchangeOK, RestOK, ForgetOK, rest.pc = "wait", NEW answered \in BOOLEAN, NEW r,
           answered => r \in Report /\ Owned(r), Finish(answered, r)
    PROVE  RestOK' /\ RestWaits' /\ ForgetOK' /\ UNCHANGED exchangeVars
  <1>1. UNCHANGED exchangeVars
    BY Zenon DEF Finish
  <1>2. /\ known' \subseteq Ids /\ given' \subseteq Ids /\ \A i \in given' : i < nextId
        /\ \A i \in given' \ known' : Going(i)
    <2>1. /\ known \subseteq Ids /\ given \subseteq Ids /\ \A i \in given : i < nextId
          /\ \A i \in given \ known : Going(i)
      BY RestFacts, Zenon DEF ForgetOK
    <2>2. CASE answered /\ r.oid # NoId /\ known' = known \cup {r.oid} /\ given' = given \cup {r.oid}
      <3>1. r.oid \in Ids /\ r.oid < nextId
        BY <2>2, ReportFields, Zenon DEF Owned
      <3> QED
        BY <2>1, <2>2, <3>1, Zenon
    <2>3. CASE known' = known /\ given' = given
      BY <2>1, <2>3, Zenon
    <2> QED
      BY <2>2, <2>3, Zenon DEF Finish
  <1>3. HandlerOK(rest') /\ rest'.pc # "wait" /\ \A i \in rest'.canceled : Going(i)
    <2>1. CASE rest.kind # "cancel"
      BY <2>1, IdleHandler, Zenon DEF Finish
    <2>2. CASE rest.kind = "cancel"
      <3> DEFINE c == IF answered /\ r.status = "REJECTED" THEN rest.canceled
                      ELSE rest.canceled \cup {rest.oid}
                 h == [rest EXCEPT !.canceled = c]
      <3>1. /\ rest \in RestHandler /\ rest.user \in Users /\ rest.cl = NoClOrdId
            /\ OwnOrder(rest.oid, rest.user) /\ rest.canceled \subseteq Ids
            /\ \A k \in 1 .. Len(rest.todo) : OwnOrder(rest.todo[k], rest.user)
            /\ \A i \in rest.canceled : i < nextId
        <4>1. rest.pc \in {"capture", "publish", "wait"} /\ rest.kind # "new"
          BY <2>2, Zenon
        <4> QED
          BY <4>1, RestFacts, RestFields, Zenon
      <3>2. /\ c \subseteq Ids /\ \A i \in c : i < nextId /\ Going(i)
        BY <2>2, <3>1, Zenon DEF ForgetOK, OwnOrder
      <3>3. rest' = NextCancel(h)
        BY <2>2, <3>1, Zenon DEF Finish, RestHandler
      <3> HIDE DEF c
      <3>4. /\ h \in RestHandler /\ h.kind = "cancel" /\ h.user = rest.user /\ h.cl = rest.cl
            /\ h.todo = rest.todo /\ h.canceled = c
        BY <2>2, <3>1, <3>2, Zenon DEF RestHandler
      <3> HIDE DEF h
      <3>5. /\ HandlerOK(rest') /\ rest'.canceled = c /\ rest'.pc \in {"capture", "results"}
        BY <3>1, <3>2, <3>3, <3>4, NextCancelFacts, Zenon
      <3> QED
        BY <3>2, <3>5, Zenon
    <2> QED
      BY <2>1, <2>2, Zenon
  <1> QED
    BY <1>1, <1>2, <1>3, RestTurns, Zenon

\* A handler captures the cursor, forgets what it cancelled, or returns; the listing
\* reads reports into its store.
LEMMA RestMoves ==
    ASSUME ExchangeOK, RestOK, ForgetOK, CaptureCursor \/ BuildResults \/ BatchFails \/ GetOrders \/ Drain
    PROVE  RestOK' /\ RestWaits' /\ ForgetOK' /\ UNCHANGED exchangeVars
  <1>1. /\ rest \in RestHandler /\ known \subseteq Ids /\ given \subseteq Ids
        /\ \A i \in given : i < nextId
        /\ \A i \in given \ known : Going(i)
        /\ \A i \in rest.canceled : Going(i)
    BY RestFacts, Zenon DEF ForgetOK
  <1>2. UNCHANGED exchangeVars
    BY Zenon DEF CaptureCursor, BuildResults, BatchFails, GetOrders, Drain, Begin
  <1>3. CASE CaptureCursor
    <2>1. /\ rest.pc = "capture" /\ rest' = [rest EXCEPT !.pc = "publish", !.cursor = QueueEnd]
          /\ known' = known /\ given' = given
      BY <1>3, Zenon DEF CaptureCursor
    <2>2. QueueEnd \in Nat \ {0}
      BY DEF QueueEnd, ExchangeOK, ExchangeType
    <2>3. /\ rest' \in RestHandler /\ rest'.pc = "publish" /\ rest'.cursor = QueueEnd
          /\ rest'.kind = rest.kind /\ rest'.user = rest.user /\ rest'.cl = rest.cl
          /\ rest'.oid = rest.oid /\ rest'.todo = rest.todo /\ rest'.canceled = rest.canceled
      BY <1>1, <2>1, <2>2, Zenon DEF RestHandler
    <2>4. HandlerOK(rest')
      BY <2>1, <2>2, <2>3, RestFacts DEF HandlerOK
    <2> QED
      BY <1>1, <1>2, <2>1, <2>3, <2>4, RestTurns, Zenon
  <1>4. CASE BuildResults
    <2>1. rest' = NoHandler /\ known' = known \ rest.canceled /\ given' = given
      BY <1>4, Zenon DEF BuildResults
    <2>2. \A i \in given' \ known' : Going(i)
      BY <1>1, <2>1, Zenon
    <2> QED
      BY <1>1, <1>2, <2>1, <2>2, RestTurns, IdleHandler, Zenon
  <1>5. CASE BatchFails
    <2>1. rest' = NoHandler /\ known' = known /\ given' = given
      BY <1>5, Zenon DEF BatchFails
    <2> QED
      BY <1>1, <1>2, <2>1, RestTurns, IdleHandler, Zenon
  <1>6. CASE GetOrders
    <2>1. rest' = [NoHandler EXCEPT !.pc = "drain"] /\ known' = known /\ given' = given
      BY <1>6, Zenon DEF GetOrders, Begin
    <2>2. /\ rest' \in RestHandler /\ rest'.pc = "drain" /\ rest'.canceled = {} /\ rest'.todo = <<>>
      BY <2>1, IdleHandler, Zenon DEF RestHandler
    <2>3. HandlerOK(rest')
      BY <2>2 DEF HandlerOK
    <2> QED
      BY <1>1, <1>2, <2>1, <2>2, <2>3, RestTurns, Zenon
  <1>7. CASE Drain
    <2>1. rest.pc = "drain" /\ (DrainOne \/ EndDrain) /\ known' = known /\ given' = given
      BY <1>7, Zenon DEF Drain
    <2>2. CASE EndDrain
      BY <1>1, <1>2, <2>1, <2>2, RestTurns, IdleHandler, Zenon DEF EndDrain
    <2>3. CASE DrainOne
      <3>1. rest' = [rest EXCEPT !.cursor = @ + 1] /\ rest.cursor \in Nat
        BY <1>1, <2>3, RestFields, Zenon DEF DrainOne
      <3>2. /\ rest' \in RestHandler /\ rest'.pc = "drain" /\ rest'.canceled = rest.canceled
            /\ rest'.todo = rest.todo /\ rest'.user = rest.user
        BY <1>1, <2>1, <3>1 DEF RestHandler
      <3>3. HandlerOK(rest')
        BY <2>1, <3>2, RestFacts, Zenon DEF HandlerOK
      <3> QED
        BY <1>1, <1>2, <2>1, <3>2, <3>3, RestTurns, Zenon
    <2> QED
      BY <2>1, <2>2, <2>3, Zenon
  <1> QED
    BY <1>3, <1>4, <1>5, <1>6, <1>7, Zenon

\* One poll.  What is read and is not the answer does not carry the request's time: the
\* first report that does is the answer.
LEMMA RestPolls ==
    ASSUME ExchangeOK, RestOK, RestWaits, ForgetOK, Poll \/ TimeOut
    PROVE  RestOK' /\ RestWaits' /\ ForgetOK' /\ UNCHANGED exchangeVars
  <1> DEFINE r == responses[rest.cursor]
  <1>1. rest.pc = "wait"
    BY Zenon DEF Poll, TimeOut
  <1>2. CASE TimeOut
    BY <1>1, <1>2, RestFinishes, Zenon DEF TimeOut
  <1>3. ASSUME rest.cursor < QueueEnd
        PROVE  rest.cursor \in 1 .. Len(responses) /\ r \in Report /\ Owned(r)
    <2>1. responses \in Seq(Report) /\ QueuesOK
      BY Zenon DEF ExchangeOK, ExchangeType
    <2>2. rest.cursor \in 1 .. Len(responses)
      BY <1>1, <1>3, <2>1, RestFacts DEF QueueEnd
    <2> QED
      BY <2>1, <2>2, ItemFacts, Zenon DEF QueuesOK
  <1>4. CASE Poll /\ IsAnswer(r)
    BY <1>1, <1>3, <1>4, RestFinishes, Zenon DEF Poll
  <1>5. CASE Poll /\ ~IsAnswer(r)
    <2>1. /\ rest.cursor < QueueEnd /\ rest' = [rest EXCEPT !.cursor = @ + 1]
          /\ known' = known /\ given' = given /\ UNCHANGED exchangeVars
      BY <1>5, Zenon DEF Poll
    <2>2. rest \in RestHandler /\ rest.cursor \in Nat \ {0} /\ Len(responses) \in Nat
          /\ rest.cursor <= Len(responses)
      BY <1>3, <2>1, RestFacts DEF ExchangeOK, ExchangeType
    <2>3. /\ rest' \in RestHandler /\ rest'.pc = "wait" /\ rest'.cursor = rest.cursor + 1
          /\ rest'.kind = rest.kind /\ rest'.user = rest.user /\ rest'.cl = rest.cl
          /\ rest'.oid = rest.oid /\ rest'.todo = rest.todo /\ rest'.canceled = rest.canceled
          /\ rest'.time = rest.time
      BY <1>1, <2>1, <2>2, SMTT(30) DEF RestHandler
    <2>4. /\ life' = life /\ who' = who /\ nextId' = nextId /\ nextTime' = nextTime
          /\ requests' = requests /\ responses' = responses /\ work' = work
      BY <2>1, Zenon DEF exchangeVars
    <2>5. RestOK'
      <3>1. rest'.cursor \in 1 .. QueueEnd
        BY <2>2, <2>3 DEF QueueEnd
      <3>2. HandlerOK(rest')
        BY <1>1, <2>3, <3>1, RestFacts, Zenon DEF HandlerOK
      <3> QED
        BY <2>1, <2>4, <3>2, RestFacts, Zenon DEF RestOK, HandlerOK, OwnOrder, QueueEnd
    <2>6. ForgetOK'
      BY <1>1, <2>1, <2>3, <2>4 DEF ForgetOK, Going
    <2>7. r.time # rest.time
      BY <1>1, <1>3, <1>5, <2>1, Zenon DEF RestWaits
    <2>8. \A k \in 1 .. rest'.cursor - 1 : responses[k].time # rest.time
      <3>1. \A k \in 1 .. rest'.cursor - 1 : k \in 1 .. rest.cursor - 1 \/ k = rest.cursor
        BY <2>2, <2>3
      <3> QED
        BY <1>1, <2>7, <3>1, Zenon DEF RestWaits
    <2>9. RestWaits'
      BY <1>1, <2>3, <2>4, <2>8 DEF RestWaits, IsAnswer
    <2> QED
      BY <2>1, <2>5, <2>6, <2>9, Zenon
  <1> QED
    BY <1>2, <1>4, <1>5, Zenon

\* A handler's own request.
LEMMA RestPublishes ==
    ASSUME ExchangeOK, RestOK, ForgetOK, PublishRequest
    PROVE  /\ ExchangeOK' /\ RestOK' /\ RestWaits' /\ ForgetOK' /\ Joins(RestRequest)
           /\ RestRequest.cl = rest.cl /\ RestRequest.kind = rest.kind
           /\ rest'.pc = "wait" /\ rest'.kind = rest.kind /\ rest'.cl = rest.cl
           /\ rest'.time = nextTime /\ rest'.cursor = rest.cursor
  <1>1. /\ rest.pc = "publish" /\ Submit(RestRequest) /\ known' = known /\ given' = given
        /\ rest' = [rest EXCEPT !.pc = "wait", !.time = nextTime]
    BY Zenon DEF PublishRequest
  <1>2. /\ rest \in RestHandler /\ rest.cursor \in 1 .. QueueEnd /\ rest.user \in Users
        /\ rest.kind # "none" /\ (rest.kind = "new" => rest.oid = NoId)
        /\ (rest.kind # "new" => rest.cl = NoClOrdId /\ OwnOrder(rest.oid, rest.user))
    BY <1>1, RestFacts, Zenon
  <1>3. /\ nextTime \in Nat \ {0} /\ QueuesOK /\ requests \in Seq(Request) /\ responses \in Seq(Report)
        /\ nextId \in Nat
    BY Zenon DEF ExchangeOK, ExchangeType
  <1> DEFINE q == RestRequest
  <1>4. /\ q \in Request /\ q.kind = rest.kind /\ q.user = rest.user /\ q.cl = rest.cl
        /\ q.oid = rest.oid /\ q.order = NoId
    BY <1>2, Zenon DEF RestRequest, NoRequest, Request, RestHandler, NoId, NoTime
  <1>5. /\ rest' \in RestHandler /\ rest'.pc = "wait" /\ rest'.cursor = rest.cursor
        /\ rest'.kind = rest.kind /\ rest'.user = rest.user /\ rest'.cl = rest.cl
        /\ rest'.oid = rest.oid /\ rest'.todo = rest.todo /\ rest'.canceled = rest.canceled
        /\ rest'.time = nextTime
    BY <1>1, <1>2, <1>3, Zenon DEF RestHandler
  <1> HIDE DEF q
  <1>6. Written(q)
    BY <1>2, <1>4, RestFields, Zenon DEF Written, Owned, OwnOrder
  <1>7. ExchangeOK' /\ Joins(q)
    BY <1>1, <1>6, SubmitStep, Zenon DEF q
  <1>8. /\ life' = life /\ who' = who /\ nextId' = nextId /\ nextTime' = nextTime + 1
        /\ responses' = responses /\ work' = work /\ Len(requests') = Len(requests) + 1
        /\ \A k \in 1 .. Len(requests) : requests'[k] = requests[k]
    BY <1>7, Zenon DEF Joins
  <1>9. RestOK'
    <2>1. HandlerOK(rest')
      BY <1>1, <1>2, <1>5, RestFacts, Zenon DEF HandlerOK
    <2> QED
      BY <1>1, <1>8, <2>1, RestFacts, Zenon DEF RestOK, HandlerOK, OwnOrder, QueueEnd
  <1>10. ForgetOK'
    <2>1. \A i \in Ids : Going(i) => Going(i)'
      BY <1>7, GoingSubmit, Zenon
    <2>2. \A i \in Ids : rest.kind = "cancel" /\ rest.oid = i => Going(i)'
      <3> SUFFICES ASSUME NEW i \in Ids, rest.kind = "cancel", rest.oid = i PROVE Going(i)'
        BY Zenon
      <3>1. q.kind = "cancel" /\ q.cl = NoClOrdId /\ q.oid = i
        BY <1>2, <1>4, Zenon
      <3> QED
        BY <1>7, <3>1, GoingSubmit, Zenon
    <2>3. \A i \in (given \ known) \cup rest.canceled : i \in Ids /\ Going(i)
      BY <1>2, RestFacts, RestFields, Zenon DEF ForgetOK
    <2>4. \A i \in (given \ known) \cup rest.canceled : Going(i)'
      BY <2>1, <2>3, Zenon
    <2>5. rest.kind = "cancel" => \E i \in Ids : rest.oid = i
      BY <1>2, Zenon DEF OwnOrder
    <2> QED
      BY <1>1, <1>5, <2>2, <2>4, <2>5 DEF ForgetOK, Going
  <1>11. RestWaits'
    <2>1. \A k \in 1 .. Len(requests) : requests[k].time # nextTime
      <3>1. \A k \in 1 .. Len(requests) : requests[k].time < nextTime /\ requests[k].time \in Nat
        BY <1>3, ItemFacts, RequestFields, Zenon DEF QueuesOK
      <3> QED
        BY <1>3, <3>1
    <2>2. \A k \in 1 .. Len(responses) : responses[k].time # nextTime
      <3>1. \A k \in 1 .. Len(responses) : responses[k].time < nextTime /\ responses[k].time \in Nat
        BY <1>3, ItemFacts, ReportFields, Zenon DEF QueuesOK
      <3> QED
        BY <1>3, <3>1
    <2>3. \A k \in 1 .. Len(requests') : requests'[k].time = nextTime =>
            /\ requests'[k].kind = rest.kind /\ requests'[k].user = rest.user
            /\ requests'[k].cl = rest.cl /\ requests'[k].oid = rest.oid
      <3>1. \A k \in 1 .. Len(requests') : k \in 1 .. Len(requests) \/ k = Len(requests) + 1
        BY <1>3, <1>8
      <3> QED
        BY <1>4, <1>7, <1>8, <2>1, <3>1, Zenon DEF Joins
    <2>4. \A k \in 1 .. rest.cursor - 1 : k \in 1 .. Len(responses)
      BY <1>2, <1>3 DEF QueueEnd
    <2>5. nextTime # NoTime /\ nextTime < nextTime'
      BY <1>3, <1>8 DEF NoTime
    <2> QED
      BY <1>5, <1>8, <2>2, <2>3, <2>4, <2>5, Zenon DEF RestWaits
  <1> QED
    BY <1>4, <1>5, <1>7, <1>9, <1>10, <1>11, Zenon DEF q

\* A request of somebody else's, for a handler that does not wait.
LEMMA RestSubmitted ==
    ASSUME ExchangeOK, RestOK, ForgetOK, rest.pc # "wait", NEW q, Joins(q),
           UNCHANGED <<rest, known, given>>
    PROVE  RestOK' /\ RestWaits' /\ ForgetOK'
  <1>1. /\ who' = who /\ nextId' = nextId /\ responses' = responses
        /\ rest' = rest /\ known' = known /\ given' = given
    BY Zenon DEF Joins
  <1>2. RestOK'
    BY <1>1, Zenon DEF RestOK, HandlerOK, OwnOrder, QueueEnd
  <1>3. RestWaits'
    BY <1>1, Zenon DEF RestWaits
  <1>4. \A i \in (given \ known) \cup rest.canceled : i \in Ids /\ Going(i)
    BY RestFacts, RestFields, Zenon DEF ForgetOK
  <1>5. \A i \in (given \ known) \cup rest.canceled : Going(i)'
    <2>1. \A i \in Ids : Going(i) => Going(i)'
      BY GoingSubmit, Zenon
    <2> QED
      BY <1>4, <2>1, Zenon
  <1>6. ForgetOK'
    BY <1>1, <1>5, Zenon DEF ForgetOK, Going
  <1> QED
    BY <1>2, <1>3, <1>6, Zenon

\* A request of another client that joins the queue leaves an idle Hyperliquid handler alone.
LEMMA HlSubmitted ==
    ASSUME HlOK, hl.pc # "wait", NEW q, Joins(q), UNCHANGED hl
    PROVE  HlOK'
  BY Zenon DEF HlOK, Joins, QueueEnd

\* A request with a known user, and an order of that user or none, is well formed.
LEMMA WrittenFacts ==
    ASSUME ExchangeOK, NEW q \in Request, q.kind \in {"new", "cancel", "replace"}, q.user \in Users,
           q.order = NoId, q.oid # NoId => who[q.oid].user = q.user, q.kind = "new" => q.oid = NoId
    PROVE  Written(q)
  <1>1. OrdersOK /\ NoUser \notin Users /\ q.oid \in Ids \cup {NoId} /\ Nobody.user = NoUser
    BY NamesAssumption, RequestFields, Zenon DEF ExchangeOK, Nobody
  <1>2. q.oid # NoId => q.oid < nextId
    BY <1>1, Zenon DEF OrdersOK
  <1> QED
    BY <1>2, Zenon DEF Written, Owned

\* What another connection sends is a well-formed request.
LEMMA OtherSubmits ==
    ASSUME ExchangeOK, OtherRequest
    PROVE  \E q : Written(q) /\ Submit(q)
  <1>1. PICK user \in Users :
          \/ \E cl \in ClOrdIds, qty \in OrderSizes :
               Submit([NoRequest EXCEPT !.kind = "new", !.user = user, !.cl = cl, !.qty = qty])
          \/ \E i \in Ids : who[i].user = user
               /\ \/ Submit([NoRequest EXCEPT !.kind = "cancel", !.user = user, !.oid = i])
                  \/ \E qty \in OrderSizes :
                       Submit([NoRequest EXCEPT !.kind = "replace", !.user = user, !.oid = i, !.qty = qty])
    BY Zenon DEF OtherRequest
  <1>2. ASSUME NEW cl \in ClOrdIds, NEW qty \in OrderSizes,
               Submit([NoRequest EXCEPT !.kind = "new", !.user = user, !.cl = cl, !.qty = qty])
        PROVE  \E q : Written(q) /\ Submit(q)
    <2> DEFINE q == [NoRequest EXCEPT !.kind = "new", !.user = user, !.cl = cl, !.qty = qty]
    <2>1. /\ q \in Request /\ q.kind = "new" /\ q.user = user /\ q.oid = NoId /\ q.order = NoId
      BY OrderSizesAssumption, Zenon DEF NoRequest, Request, Names, NoId, NoTime
    <2>2. Written(q)
      <3> HIDE DEF q
      <3> QED
        BY <1>2, <2>1, WrittenFacts, Zenon
    <2> QED
      BY <1>2, <2>2, Zenon
  <1>3. ASSUME NEW i \in Ids, who[i].user = user,
               Submit([NoRequest EXCEPT !.kind = "cancel", !.user = user, !.oid = i])
        PROVE  \E q : Written(q) /\ Submit(q)
    <2> DEFINE q == [NoRequest EXCEPT !.kind = "cancel", !.user = user, !.oid = i]
    <2>1. /\ q \in Request /\ q.kind = "cancel" /\ q.user = user /\ q.oid = i /\ q.order = NoId
      BY Zenon DEF NoRequest, Request, Names, NoId, NoTime
    <2>2. Written(q)
      <3> HIDE DEF q
      <3> QED
        BY <1>3, <2>1, WrittenFacts, Zenon
    <2> QED
      BY <1>3, <2>2, Zenon
  <1>4. ASSUME NEW i \in Ids, who[i].user = user, NEW qty \in OrderSizes,
               Submit([NoRequest EXCEPT !.kind = "replace", !.user = user, !.oid = i, !.qty = qty])
        PROVE  \E q : Written(q) /\ Submit(q)
    <2> DEFINE q == [NoRequest EXCEPT !.kind = "replace", !.user = user, !.oid = i, !.qty = qty]
    <2>1. /\ q \in Request /\ q.kind = "replace" /\ q.user = user /\ q.oid = i /\ q.order = NoId
      BY OrderSizesAssumption, Zenon DEF NoRequest, Request, Names, NoId, NoTime
    <2>2. Written(q)
      <3> HIDE DEF q
      <3> QED
        BY <1>4, <2>1, WrittenFacts, Zenon
    <2> QED
      BY <1>4, <2>2, Zenon
  <1> QED
    BY <1>1, <1>2, <1>3, <1>4, Zenon

-----------------------------------------------------------------------------
\* The steps of the Hyperliquid handler.

HlItem == [cl : ClOrdIds, qty : Nat]

\* The Hyperliquid handler between two actions.
LEMMA HlIdleFacts ==
    /\ HlIdle \in HlHandler /\ HlIdle.pc = "idle" /\ HlIdle.cl = NoClOrdId /\ HlIdle.cursor = 0
  BY DEF HlIdle, HlHandler, Names, NoTime

\* The loop head of an action's orders.
LEMMA NextOrderFacts ==
    ASSUME NEW h \in HlHandler, h.user \in Users
    PROVE  /\ NextOrder(h) \in HlHandler /\ NextOrder(h).pc \in {"idle", "capture"}
           /\ NextOrder(h).pc # "idle" => NextOrder(h).user \in Users
  <1>1. h.todo \in Seq(HlItem)
    BY Zenon DEF HlHandler, HlItem
  <1>2. CASE h.todo = <<>>
    BY <1>2, HlIdleFacts, Zenon DEF NextOrder
  <1>3. CASE h.todo # <<>>
    <2> DEFINE cl == Head(h.todo).cl
               qty == Head(h.todo).qty
               rem == Tail(h.todo)
               n == [h EXCEPT !.pc = "capture", !.cl = cl, !.qty = qty, !.todo = rem]
    <2>1. rem \in Seq(HlItem) /\ Head(h.todo) \in HlItem
      BY <1>1, <1>3, TailFacts, Zenon
    <2>2. cl \in Names /\ qty \in Nat
      BY <2>1, Zenon DEF HlItem, Names
    <2>3. NextOrder(h) = n
      BY <1>3, Zenon DEF NextOrder
    <2> HIDE DEF cl, qty, rem
    <2>4. n \in HlHandler /\ n.pc = "capture" /\ n.user = h.user
      BY <2>1, <2>2, Zenon DEF HlHandler, HlItem
    <2> HIDE DEF n
    <2> QED
      BY <2>3, <2>4, Zenon
  <1> QED
    BY <1>2, <1>3, Zenon

\* The handler goes on, with no request of its own under way.
LEMMA HlTurns ==
    ASSUME UNCHANGED exchangeVars, hl' \in HlHandler, hl'.pc # "wait",
           hl'.pc = "publish" => hl'.cursor \in 1 .. QueueEnd,
           hl'.pc # "idle" => hl'.user \in Users
    PROVE  HlOK'
  <1>1. responses' = responses
    BY Zenon DEF exchangeVars
  <1> QED
    BY <1>1, Zenon DEF HlOK, QueueEnd

\* The steps of the Hyperliquid handler that write no request (taking an order action, capturing
\* the cursor, polling, timing out) keep its invariant and leave the exchange alone.
LEMMA HlMoves ==
    ASSUME ExchangeOK, HlOK,
           \/ HlCapture \/ HlPoll \/ HlTimeOut
           \/ \E user \in Users, o \in HlOrders :
                 OrderAction(user, <<o>>) \/ \E p \in HlOrders : OrderAction(user, <<o, p>>)
    PROVE  HlOK' /\ UNCHANGED exchangeVars
  <1>1. UNCHANGED exchangeVars
    BY Zenon DEF HlCapture, HlPoll, HlTimeOut, OrderAction
  <1>2. /\ hl \in HlHandler /\ (hl.pc # "idle" => hl.user \in Users)
        /\ (hl.pc \in {"publish", "wait"} => hl.cursor \in 1 .. QueueEnd)
    BY Zenon DEF HlOK
  <1>3. Len(responses) \in Nat /\ QueueEnd \in Nat \ {0}
    BY DEF QueueEnd, ExchangeOK, ExchangeType
  <1>4. CASE HlCapture
    <2>1. hl.pc = "capture" /\ hl' = [hl EXCEPT !.pc = "publish", !.cursor = QueueEnd]
      BY <1>4, Zenon DEF HlCapture
    <2>2. hl' \in HlHandler /\ hl'.pc = "publish" /\ hl'.cursor = QueueEnd /\ hl'.user = hl.user
      BY <1>2, <1>3, <2>1, Zenon DEF HlHandler
    <2> QED
      BY <1>1, <1>2, <1>3, <2>1, <2>2, HlTurns
  <1>5. CASE HlTimeOut \/ (HlPoll /\ HlIsAnswer(responses[hl.cursor]))
    <2>1. hl.pc = "wait" /\ (hl' = NextOrder(hl) \/ hl' = HlIdle)
      BY <1>5, Zenon DEF HlTimeOut, HlPoll
    <2>2. /\ hl' \in HlHandler /\ hl'.pc \in {"idle", "capture"}
          /\ hl'.pc # "idle" => hl'.user \in Users
      BY <1>2, <2>1, NextOrderFacts, HlIdleFacts, Zenon
    <2> QED
      BY <1>1, <2>2, HlTurns, Zenon
  <1>6. CASE HlPoll /\ ~HlIsAnswer(responses[hl.cursor])
    <2>1. hl.pc = "wait" /\ hl.cursor < QueueEnd /\ hl' = [hl EXCEPT !.cursor = @ + 1]
      BY <1>6, Zenon DEF HlPoll
    <2>2. hl.cursor \in 1 .. Len(responses) /\ hl.cursor \in Nat
      BY <1>2, <1>3, <2>1 DEF QueueEnd
    <2>3. /\ hl' \in HlHandler /\ hl'.pc = "wait" /\ hl'.cursor = hl.cursor + 1 /\ hl'.user = hl.user
          /\ hl'.cl = hl.cl /\ hl'.time = hl.time
      BY <1>2, <2>1, <2>2 DEF HlHandler
    <2>4. /\ nextTime' = nextTime /\ requests' = requests /\ responses' = responses
      BY <1>1, Zenon DEF exchangeVars
    <2>5. responses[hl.cursor].time # hl.time
      BY <1>6, <2>1, <2>2, Zenon DEF HlOK
    <2>6. \A k \in 1 .. hl'.cursor - 1 : responses[k].time # hl.time
      <3>1. \A k \in 1 .. hl'.cursor - 1 : k \in 1 .. hl.cursor - 1 \/ k = hl.cursor
        BY <2>2, <2>3
      <3> QED
        BY <2>1, <2>5, <3>1, Zenon DEF HlOK
    <2>7. hl'.cursor \in 1 .. Len(responses) + 1
      BY <1>3, <2>2, <2>3
    <2> QED
      BY <1>1, <1>2, <2>1, <2>3, <2>4, <2>6, <2>7, ZenonT(40) DEF HlOK, HlIsAnswer, QueueEnd
  <1>7. ASSUME NEW user \in Users, NEW orders \in Seq(HlItem), OrderAction(user, orders)
        PROVE  HlOK'
    <2> DEFINE h == [HlIdle EXCEPT !.user = user, !.todo = orders]
    <2>1. hl' = NextOrder(h)
      BY <1>7, Zenon DEF OrderAction
    <2>2. h \in HlHandler /\ h.user = user
      BY HlIdleFacts, Zenon DEF HlHandler, HlItem
    <2> HIDE DEF h
    <2>3. /\ hl' \in HlHandler /\ hl'.pc \in {"idle", "capture"}
          /\ hl'.pc # "idle" => hl'.user \in Users
      BY <2>1, <2>2, NextOrderFacts, Zenon
    <2> QED
      BY <1>1, <2>3, HlTurns, Zenon
  <1>8. \A o, p \in HlOrders : <<o>> \in Seq(HlItem) /\ <<o, p>> \in Seq(HlItem)
    <2>1. HlOrders \subseteq HlItem
      BY OrderSizesAssumption, Zenon DEF HlOrders, HlItem
    <2> QED
      BY <2>1, ShortSeqs, Zenon
  <1> QED
    BY <1>1, <1>4, <1>5, <1>6, <1>7, <1>8, Zenon

\* Publishing the next order of a Hyperliquid action keeps both invariants.
LEMMA HlPublishes ==
    ASSUME ExchangeOK, HlOK, HlPublish
    PROVE  ExchangeOK' /\ HlOK' /\ \E q : Joins(q)
  <1> DEFINE q == [NoRequest EXCEPT !.kind = "new", !.user = hl.user, !.cl = hl.cl, !.qty = hl.qty]
  <1>1. /\ hl.pc = "publish" /\ Submit(q) /\ hl' = [hl EXCEPT !.pc = "wait", !.time = nextTime]
    BY Zenon DEF HlPublish
  <1>2. /\ hl \in HlHandler /\ hl.cursor \in 1 .. QueueEnd /\ hl.user \in Users
    BY <1>1, Zenon DEF HlOK
  <1>3. /\ nextTime \in Nat \ {0} /\ QueuesOK /\ requests \in Seq(Request) /\ responses \in Seq(Report)
    BY Zenon DEF ExchangeOK, ExchangeType
  <1>4. hl.cl \in Names /\ hl.qty \in Nat
    BY <1>2, Zenon DEF HlHandler
  <1>5. /\ q \in Request /\ q.kind = "new" /\ q.user = hl.user /\ q.cl = hl.cl /\ q.oid = NoId
        /\ q.order = NoId
    BY <1>2, <1>4, Zenon DEF NoRequest, Request, NoId, NoTime
  <1> HIDE DEF q
  <1>6. Written(q) /\ q.kind = "new" /\ q.user = hl.user /\ q.cl = hl.cl
    BY <1>2, <1>5, WrittenFacts, Zenon
  <1>7. ExchangeOK' /\ Joins(q)
    BY <1>1, <1>6, SubmitStep, Zenon
  <1>8. /\ hl' \in HlHandler /\ hl'.pc = "wait" /\ hl'.cursor = hl.cursor /\ hl'.user = hl.user
        /\ hl'.cl = hl.cl /\ hl'.time = nextTime
    BY <1>1, <1>2, <1>3, Zenon DEF HlHandler
  <1>9. /\ nextTime' = nextTime + 1 /\ responses' = responses /\ Len(requests') = Len(requests) + 1
        /\ \A k \in 1 .. Len(requests) : requests'[k] = requests[k]
    BY <1>7, Zenon DEF Joins
  <1>10. \A k \in 1 .. Len(requests) : requests[k].time # nextTime
    <2>1. \A k \in 1 .. Len(requests) : requests[k].time < nextTime /\ requests[k].time \in Nat
      BY <1>3, ItemFacts, RequestFields, Zenon DEF QueuesOK
    <2> QED
      BY <1>3, <2>1
  <1>11. \A k \in 1 .. Len(responses) : responses[k].time # nextTime
    <2>1. \A k \in 1 .. Len(responses) : responses[k].time < nextTime /\ responses[k].time \in Nat
      BY <1>3, ItemFacts, ReportFields, Zenon DEF QueuesOK
    <2> QED
      BY <1>3, <2>1
  <1>12. \A k \in 1 .. Len(requests') : requests'[k].time = nextTime =>
            requests'[k].kind = "new" /\ requests'[k].user = hl.user /\ requests'[k].cl = hl.cl
    <2>1. \A k \in 1 .. Len(requests') : k \in 1 .. Len(requests) \/ k = Len(requests) + 1
      BY <1>3, <1>9
    <2> QED
      BY <1>6, <1>7, <1>9, <1>10, <2>1, Zenon DEF Joins
  <1>13. \A k \in 1 .. hl.cursor - 1 : k \in 1 .. Len(responses)
    BY <1>2, <1>3 DEF QueueEnd
  <1>14. nextTime # NoTime /\ nextTime < nextTime'
    BY <1>3, <1>9 DEF NoTime
  <1>15. HlOK'
    BY <1>2, <1>8, <1>9, <1>11, <1>12, <1>13, <1>14, Zenon DEF HlOK, QueueEnd
  <1> QED
    BY <1>7, <1>15, Zenon

\* The Hyperliquid actions that do not wait (cancel, modify, cancel by cloid) write
\* well-formed requests and leave the handler idle.
LEMMA HlSubmits ==
    ASSUME ExchangeOK, NEW user \in Users,
           \/ \E left \in Leftover :
                CancelAction(user, left) \/ \E qty \in OrderSizes : BatchModifyAction(user, left, qty)
           \/ \E cl \in ClOrdIds : CancelByCloidAction(user, cl)
    PROVE  hl.pc = "idle" /\ hl' = hl /\ \E q : Written(q) /\ Submit(q)
  <1>1. hl.pc = "idle" /\ hl' = hl
    BY Zenon DEF CancelAction, BatchModifyAction, CancelByCloidAction
  <1>3. ASSUME NEW left \in Leftover, CancelAction(user, left)
        PROVE  \E q : Written(q) /\ Submit(q)
    <2> DEFINE q == [NoRequest EXCEPT !.kind = "cancel", !.user = user, !.cl = left]
    <2>1. /\ q \in Request /\ q.kind = "cancel" /\ q.user = user /\ q.oid = NoId /\ q.order = NoId
      BY Zenon DEF NoRequest, Request, NoId, NoTime, Names, Leftover
    <2>2. Submit(q)
      BY <1>3, Zenon DEF CancelAction
    <2> HIDE DEF q
    <2>3. Written(q)
      BY <2>1, WrittenFacts, Zenon
    <2> QED
      BY <2>2, <2>3, Zenon
  <1>4. ASSUME NEW left \in Leftover, NEW qty \in OrderSizes, BatchModifyAction(user, left, qty)
        PROVE  \E q : Written(q) /\ Submit(q)
    <2> DEFINE q == [NoRequest EXCEPT !.kind = "replace", !.user = user, !.cl = left, !.qty = qty]
    <2>1. /\ q \in Request /\ q.kind = "replace" /\ q.user = user /\ q.oid = NoId /\ q.order = NoId
      BY OrderSizesAssumption, Zenon DEF NoRequest, Request, NoId, NoTime, Names, Leftover
    <2>2. Submit(q)
      BY <1>4, Zenon DEF BatchModifyAction
    <2> HIDE DEF q
    <2>3. Written(q)
      BY <2>1, WrittenFacts, Zenon
    <2> QED
      BY <2>2, <2>3, Zenon
  <1>5. ASSUME NEW cl \in ClOrdIds, CancelByCloidAction(user, cl)
        PROVE  \E q : Written(q) /\ Submit(q)
    <2> DEFINE q == [NoRequest EXCEPT !.kind = "cancel", !.user = user, !.cl = cl]
    <2>1. /\ q \in Request /\ q.kind = "cancel" /\ q.user = user /\ q.oid = NoId /\ q.order = NoId
      BY Zenon DEF NoRequest, Request, NoId, NoTime, Names
    <2>2. Submit(q)
      BY <1>5, Zenon DEF CancelByCloidAction
    <2> HIDE DEF q
    <2>3. Written(q)
      BY <2>1, WrittenFacts, Zenon
    <2> QED
      BY <2>2, <2>3, Zenon
  <1> QED
    BY <1>1, <1>3, <1>4, <1>5, Zenon

-----------------------------------------------------------------------------
\* All the gateways together.

GatewayInv == ExchangeOK /\ HandlersOK

\* The gateways start idle with empty queues: the invariant holds.
LEMMA GatewayInit == ASSUME Init PROVE GatewayInv
  <1>1. /\ life = [i \in Ids |-> Unreported] /\ who = [i \in Ids |-> Nobody]
        /\ nextId = 1 /\ nextTime = 1 /\ requests = <<>> /\ responses = <<>> /\ work = NoRequest
        /\ rest = NoHandler /\ known = {} /\ given = {} /\ hl = HlIdle
    BY Zenon DEF Init, ExchangeInit, LifeInit, RestInit, HlInit
  <1>2. ExchangeOK
    <2>1. /\ Unreported \in Lives /\ Nobody \in Owner /\ NoRequest \in Request /\ NoRequest.kind = "none"
      BY Zenon DEF Unreported, Lives, Nobody, Owner, Names, NoRequest, Request, NoId, NoTime
    <2>2. ExchangeType
      <3>1. requests \in Seq(Request) /\ responses \in Seq(Report)
        BY <1>1, ShortSeqs, Zenon
      <3> QED
        BY <1>1, <2>1, <3>1 DEF ExchangeType
    <2>3. \A i \in Ids : ~(i < nextId)
      <3>1. nextId = 1 /\ Ids \subseteq Nat \ {0}
        BY <1>1, NamesAssumption, Zenon
      <3> QED
        BY <3>1
    <2>4. Len(requests) = 0 /\ Len(responses) = 0
      BY <1>1, Zenon
    <2>5. OrdersOK
      <3>1. \A i \in Ids : life[i] = Unreported /\ who[i] = Nobody
        BY <1>1, Zenon
      <3> QED
        BY <2>3, <3>1, Zenon DEF OrdersOK
    <2>6. WorkOK
      BY <1>1, <2>1, Zenon DEF WorkOK
    <2>7. QueuesOK
      BY <2>4 DEF QueuesOK
    <2> QED
      BY <2>2, <2>5, <2>6, <2>7, Zenon DEF ExchangeOK
  <1>3. RestOK /\ RestWaits /\ ForgetOK
    BY <1>1, IdleHandler, Zenon DEF RestOK, RestWaits, ForgetOK
  <1>4. HlOK
    BY <1>1, HlIdleFacts, Zenon DEF HlOK
  <1>5. GatewayOK
    BY <1>1, IdleHandler, HlIdleFacts, Zenon DEF GatewayOK
  <1> QED
    BY <1>2, <1>3, <1>4, <1>5, Zenon DEF GatewayInv, HandlersOK

\* Nobody moves who has to do with the handlers.
LEMMA GatewaySame ==
    ASSUME GatewayInv, UNCHANGED exchangeVars, UNCHANGED <<rest, known, given>>, UNCHANGED hl,
           UNCHANGED gateway
    PROVE  GatewayInv'
  <1>1. /\ life' = life /\ who' = who /\ nextId' = nextId /\ nextTime' = nextTime
        /\ requests' = requests /\ responses' = responses /\ work' = work
        /\ rest' = rest /\ known' = known /\ given' = given /\ hl' = hl /\ gateway' = gateway
    BY Zenon DEF exchangeVars
  <1>2. RestOK' /\ RestWaits' /\ ForgetOK'
    <2>1. RestOK /\ RestWaits /\ ForgetOK
      BY Zenon DEF GatewayInv, HandlersOK
    <2>2. RestOK'
      BY <1>1, <2>1, Zenon DEF RestOK, HandlerOK, OwnOrder, QueueEnd
    <2>3. RestWaits'
      BY <1>1, <2>1, ZenonT(40) DEF RestWaits, IsAnswer
    <2>4. ForgetOK'
      BY <1>1, <2>1, Zenon DEF ForgetOK, Going
    <2> QED
      BY <2>2, <2>3, <2>4, Zenon
  <1>3. GatewayOK'
    BY <1>1, Zenon DEF GatewayInv, HandlersOK, GatewayOK
  <1> QED
    BY <1>2, <1>3, SameExchange, Zenon DEF GatewayInv, HandlersOK

\* A request of somebody else's while no handler waits.
LEMMA GatewayOther ==
    ASSUME GatewayInv, rest.pc # "wait", hl.pc # "wait", \E q : Written(q) /\ Submit(q),
           UNCHANGED <<rest, known, given>>, UNCHANGED hl, UNCHANGED gateway
    PROVE  GatewayInv'
  <1>1. PICK q : Written(q) /\ Submit(q)
    BY Zenon
  <1>2. ExchangeOK' /\ Joins(q)
    BY <1>1, SubmitStep, Zenon DEF GatewayInv
  <1>3. RestOK' /\ RestWaits' /\ ForgetOK'
    BY <1>2, RestSubmitted, Zenon DEF GatewayInv, HandlersOK
  <1>4. HlOK'
    BY <1>2, HlSubmitted, Zenon DEF GatewayInv, HandlersOK
  <1>5. GatewayOK'
    BY Zenon DEF GatewayInv, HandlersOK, GatewayOK
  <1> QED
    BY <1>2, <1>3, <1>4, <1>5, Zenon DEF GatewayInv, HandlersOK

\* The WebSocket gateway only reads the reports: no step of it changes the exchange.
LEMMA WsLeavesExchange == ASSUME WsNext PROVE UNCHANGED exchangeVars
  <1>1. ASSUME NEW s, Open(s) \/ HandleClose(s) PROVE UNCHANGED exchangeVars
    BY <1>1, Zenon DEF Open, HandleClose
  <1>2. ASSUME NEW s, NEW u, NEW channel, Subscribe(s, u, channel) PROVE UNCHANGED exchangeVars
    BY <1>2, Zenon DEF Subscribe
  <1>3. ASSUME NEW stale, CheckHeartbeats(stale) PROVE UNCHANGED exchangeVars
    BY <1>3, Zenon DEF CheckHeartbeats
  <1>4. ASSUME ProcessResponse PROVE UNCHANGED exchangeVars
    BY <1>4, Zenon DEF ProcessResponse
  <1> QED
    BY <1>1, <1>2, <1>3, <1>4, Zenon DEF WsNext

\* Every step of the exchange and of the gateway that is configured keeps the invariant.
LEMMA GatewayStep == ASSUME GatewayInv, [Next]_vars PROVE GatewayInv'
  <1>1. /\ ExchangeOK /\ RestOK /\ RestWaits /\ HlOK /\ GatewayOK /\ ForgetOK
    BY Zenon DEF GatewayInv, HandlersOK
  <1>2. CASE UNCHANGED vars
    <2>1. /\ UNCHANGED exchangeVars /\ UNCHANGED <<rest, known, given>> /\ UNCHANGED hl /\ UNCHANGED gateway
      BY <1>2, Zenon DEF vars, restVars
    <2> QED
      BY <2>1, GatewaySame, Zenon
  <1>3. CASE ExchangeThread /\ UNCHANGED gateway
    <2>1. /\ ExchangeNext /\ UNCHANGED <<rest, known, given>> /\ UNCHANGED hl /\ UNCHANGED gateway
      BY <1>3, Zenon DEF ExchangeThread, restVars
    <2>2. StepOK
      BY <1>1, <2>1, ExchangeSteps, Zenon
    <2>3. ExchangeOK' /\ RestOK' /\ RestWaits' /\ ForgetOK' /\ HlOK'
      BY <1>1, <2>1, <2>2, RestMeanwhile, HlMeanwhile, Zenon DEF StepOK
    <2>4. GatewayOK'
      BY <1>1, <2>1, Zenon DEF GatewayOK
    <2> QED
      BY <2>3, <2>4, Zenon DEF GatewayInv, HandlersOK
  <1>4. CASE RestThread /\ UNCHANGED gateway
    <2>1. UNCHANGED hl /\ UNCHANGED gateway /\ gateway # "hyperliquid" /\ hl.pc = "idle"
      BY <1>1, <1>4, Zenon DEF RestThread, GatewayOK
    <2>2. CASE gateway = "coinbase_rest" /\ (RestRequests \/ CaptureCursor \/ Poll \/ TimeOut \/ BuildResults \/ BatchFails)
      <3>1. RestOK' /\ RestWaits' /\ ForgetOK' /\ UNCHANGED exchangeVars
        BY <1>1, <2>2, RestBegins, RestMoves, RestPolls, Zenon
      <3>2. GatewayOK'
        BY <2>1, <2>2, Zenon DEF GatewayOK
      <3> QED
        BY <1>1, <2>1, <3>1, <3>2, SameExchange, Zenon DEF GatewayInv, HandlersOK
    <2>3. CASE gateway = "coinbase_rest" /\ PublishRequest
      <3>1. ExchangeOK' /\ RestOK' /\ RestWaits' /\ ForgetOK' /\ Joins(RestRequest)
        BY <1>1, <2>3, RestPublishes, Zenon
      <3>2. HlOK'
        BY <1>1, <2>1, <3>1, HlSubmitted, Zenon
      <3>3. GatewayOK'
        BY <2>1, <2>3, Zenon DEF GatewayOK
      <3> QED
        BY <3>1, <3>2, <3>3, Zenon DEF GatewayInv, HandlersOK
    <2>4. CASE GetOrders \/ Drain
      <3>1. RestOK' /\ RestWaits' /\ ForgetOK' /\ UNCHANGED exchangeVars
        BY <1>1, <2>4, RestMoves, Zenon
      <3>2. rest'.pc \in {"idle", "drain"}
        <4>1. CASE GetOrders
          BY <4>1, IdleHandler, Zenon DEF GetOrders, Begin, RestHandler
        <4>2. CASE Drain
          <5>1. rest \in RestHandler /\ rest.pc = "drain"
            BY <1>1, <4>2, RestFacts, Zenon DEF Drain
          <5> QED
            BY <4>2, <5>1, IdleHandler, Zenon DEF Drain, DrainOne, EndDrain, RestHandler
        <4> QED
          BY <2>4, <4>1, <4>2, Zenon
      <3>3. GatewayOK'
        BY <2>1, <3>2, Zenon DEF GatewayOK
      <3> QED
        BY <1>1, <2>1, <3>1, <3>3, SameExchange, Zenon DEF GatewayInv, HandlersOK
    <2>5. CASE gateway = "coinbase_listing" /\ OtherRequest /\ UNCHANGED restVars
      <3>1. rest.pc # "wait" /\ hl.pc # "wait" /\ UNCHANGED <<rest, known, given>>
        BY <1>1, <2>1, <2>5, Zenon DEF GatewayOK, restVars
      <3> QED
        BY <1>1, <2>1, <2>5, <3>1, OtherSubmits, GatewayOther, Zenon
    <2> QED
      BY <1>4, <2>2, <2>3, <2>4, <2>5, Zenon DEF RestThread, RestNext, RestStep
  <1>5. CASE WsThread /\ UNCHANGED gateway
    <2>1. /\ UNCHANGED hl /\ UNCHANGED gateway /\ UNCHANGED <<rest, known, given>>
          /\ WsNext \/ OtherRequest
      BY <1>5, Zenon DEF WsThread, restVars
    <2>2. rest.pc # "wait" /\ hl.pc # "wait"
      BY <1>1, <1>5, Zenon DEF WsThread, GatewayOK
    <2> QED
      BY <1>1, <2>1, <2>2, WsLeavesExchange, OtherSubmits, GatewaySame, GatewayOther, Zenon
  <1>6. CASE HlThread /\ UNCHANGED gateway
    <2>1. /\ UNCHANGED gateway /\ UNCHANGED <<rest, known, given>> /\ gateway = "hyperliquid" /\ HlNext
      BY <1>6, Zenon DEF HlThread, restVars
    <2>2. rest.pc # "wait"
      BY <1>1, <2>1, Zenon DEF GatewayOK
    <2>3. GatewayOK'
      BY <1>1, <2>1, Zenon DEF GatewayOK
    <2>4. ASSUME HlOK', UNCHANGED exchangeVars PROVE GatewayInv'
      <3>1. /\ life' = life /\ who' = who /\ nextId' = nextId /\ nextTime' = nextTime
            /\ requests' = requests /\ responses' = responses /\ work' = work
            /\ rest' = rest /\ known' = known /\ given' = given
        BY <2>1, <2>4, Zenon DEF exchangeVars
      <3>2. RestOK' /\ RestWaits' /\ ForgetOK'
        BY <1>1, <3>1, Zenon DEF RestOK, HandlerOK, OwnOrder, QueueEnd, RestWaits, IsAnswer, ForgetOK, Going
      <3> QED
        BY <1>1, <2>3, <2>4, <3>2, SameExchange, Zenon DEF GatewayInv, HandlersOK
    <2>5. CASE HlPublish
      <3>1. ExchangeOK' /\ HlOK' /\ \E q : Joins(q)
        BY <1>1, <2>5, HlPublishes, Zenon
      <3>2. RestOK' /\ RestWaits' /\ ForgetOK'
        BY <1>1, <2>1, <2>2, <3>1, RestSubmitted, Zenon
      <3> QED
        BY <2>3, <3>1, <3>2, Zenon DEF GatewayInv, HandlersOK
    <2>6. CASE \/ HlCapture \/ HlPoll \/ HlTimeOut
               \/ \E user \in Users, o \in HlOrders :
                     OrderAction(user, <<o>>) \/ \E p \in HlOrders : OrderAction(user, <<o, p>>)
      BY <1>1, <2>4, <2>6, HlMoves, Zenon
    <2>7. ASSUME NEW user \in Users,
                 \/ \E left \in Leftover :
                      CancelAction(user, left) \/ \E qty \in OrderSizes : BatchModifyAction(user, left, qty)
                 \/ \E cl \in ClOrdIds : CancelByCloidAction(user, cl)
          PROVE  GatewayInv'
      <3>1. hl.pc = "idle" /\ UNCHANGED hl /\ \E q : Written(q) /\ Submit(q)
        BY <1>1, <2>7, HlSubmits, Zenon
      <3>2. hl.pc # "wait"
        BY <3>1, Zenon
      <3> QED
        BY <2>1, <2>2, <3>1, <3>2, GatewayOther, Zenon
    <2> QED
      BY <2>1, <2>5, <2>6, <2>7, Zenon DEF HlNext, HlStep
  <1> QED
    BY <1>2, <1>3, <1>4, <1>5, <1>6, Zenon DEF Next

\* The invariant of the gateways holds throughout: requests and reports are well formed and
\* speak of orders of their users, times are handed out in turn, and a waiting handler has
\* not read past its answer (the loop threads of the REST gateways).
THEOREM GatewayInvariant == Spec => []GatewayInv
  BY GatewayInit, GatewayStep, PTL DEF Spec

\* waitForReport and its Hyperliquid counterpart: the cursor is captured before the request is
\* published, so the answer of a waiting request is never at an index the handler has passed.
THEOREM AnswersAreNotSkipped == Spec => []NoAnswerSkipped
  <1>1. GatewayInv => NoAnswerSkipped
    BY Zenon DEF GatewayInv, HandlersOK, RestWaits, HlOK, NoAnswerSkipped
  <1> QED
    BY <1>1, GatewayInvariant, PTL

\* The cancel handler of the Coinbase REST gateway: an order it no longer knows, and that is still
\* live, is named by a cancel that the exchange is working on or still has in its queue.
THEOREM ForgottenOrdersAreEnding == Spec => []ForgottenOrdersEnd
  <1>1. ASSUME GatewayInv PROVE ForgottenOrdersEnd
    <2> SUFFICES ASSUME NEW i \in given \ known, IsLive(i)
                 PROVE  \/ work.kind = "cancel" /\ work.order = i
                        \/ \E k \in 1 .. Len(requests) :
                              requests[k].kind = "cancel" /\ i \in Named(requests[k])
      BY Zenon DEF ForgottenOrdersEnd
    <2>1. Going(i) /\ i \in Ids
      BY <1>1, RestFacts, Zenon DEF GatewayInv, HandlersOK, ForgetOK
    <2>2. life[i].status \notin Ended
      BY Zenon DEF IsLive, Live, Ended
    <2> QED
      BY <2>1, <2>2, Zenon DEF Going, Named
  <1> QED
    BY <1>1, GatewayInvariant, PTL

=============================================================================
