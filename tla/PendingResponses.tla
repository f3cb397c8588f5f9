-------------------------- MODULE PendingResponses --------------------------
(***************************************************************************)
(* PendingResponses: the requests of a gateway that wait for an execution  *)
(* report, each with a timer and a client that may go away.  Two requests  *)
(* may wait for the same report; a completion may add another waiter, the  *)
(* next entry of a batch.                                                  *)
(***************************************************************************)
EXTENDS Integers, Sequences

CONSTANTS
    Correlations,   \* what a report is recognised by
    MaxWaiters      \* bound: waiters added

ASSUME WaitersAssumption == MaxWaiters \in Nat

VARIABLE waits

\* add
Added(w, key) ==
    [w EXCEPT !.waiters = Append(@, [id |-> w.next, key |-> key]), !.next = @ + 1]

\* Calling a completion: it counts for its waiter, and may add the next one.
Completions(w, id, how) ==
    LET done == [w EXCEPT !.answers[id] = Append(@, how)]
    IN  {done} \cup IF w.next > MaxWaiters THEN {}
                    ELSE {Added(done, key) : key \in Correlations}

\* find, and the first waiter that a report matches.
First(S) == {k \in S : \A m \in S : k <= m}
FindWaiter(w, id) == First({k \in 1 .. Len(w.waiters) : w.waiters[k].id = id})
Matching(w, key)  == First({k \in 1 .. Len(w.waiters) : w.waiters[k].key = key})

\* erase
Erased(s, k) == SubSeq(s, 1, k - 1) \o SubSeq(s, k + 1, Len(s))
WithoutWaiter(w, k) == [w EXCEPT !.waiters = Erased(@, k)]

Waiting(w, id) == \E k \in 1 .. Len(w.waiters) : w.waiters[k].id = id

Add == /\ waits.next <= MaxWaiters
       /\ \E key \in Correlations : waits' = Added(waits, key)

\* dispatch: the waiter is erased before its completion runs.
Dispatch(key) ==
    \E k \in Matching(waits, key) :
        waits' \in Completions(WithoutWaiter(waits, k), waits.waiters[k].id, "report")

\* Defect: a timer completes its request whether or not it still waits.
ExpireAnyway(id) ==
    \/ \E k \in FindWaiter(waits, id) : waits' \in Completions(WithoutWaiter(waits, k), id, "timeout")
    \/ ~Waiting(waits, id) /\ waits' \in Completions(waits, id, "timeout")

\* expire, when a request's timer fires; the timer of one that was answered, or
\* that its client left, may still be running.
Expire(id) ==
    \/ \E k \in FindWaiter(waits, id) : waits' \in Completions(WithoutWaiter(waits, k), id, "timeout")
    \/ ~Waiting(waits, id) /\ UNCHANGED waits

\* abandon, when the client goes away.
Abandon(id) ==
    \/ \E k \in FindWaiter(waits, id) :
         waits' = [WithoutWaiter(waits, k) EXCEPT !.left = @ \cup {id}]
    \/ ~Waiting(waits, id) /\ UNCHANGED waits

PendingInit ==
    waits = [waiters |-> <<>>, next |-> 1, left |-> {},
             answers |-> [id \in 1 .. MaxWaiters |-> <<>>]]

PendingNext ==
    \/ Add
    \/ \E key \in Correlations : Dispatch(key)
    \/ \E id \in 1 .. waits.next - 1 : Expire(id) \/ Abandon(id)
=============================================================================
