--------------------------- MODULE SessionProofs ---------------------------
(***************************************************************************)
(* Machine-checked theorems about the session helpers of the order         *)
(* gateways (module BuildingBlocks): the waiters of PendingResponses, the  *)
(* RetransmitRing and the ClOrdIdIndex, for any number of requests, any    *)
(* capacity and any set of client order ids.                               *)
(***************************************************************************)
EXTENDS BuildingBlocks, FiniteSetTheorems, TLAPS

-----------------------------------------------------------------------------
\* PendingResponses.

Waiter == [id : Nat, key : Correlations]
Answers == Seq({"report", "timeout"})
Waits == [waiters : Seq(Waiter), next : Nat, left : SUBSET Nat, answers : [1 .. MaxWaiters -> Answers]]

\* The waiters have different ids, all given out; a waiter that was erased was completed
\* once, or abandoned, and none that waits or has left was completed.
WaitsOK(w) ==
    /\ w \in Waits /\ w.next \in 1 .. MaxWaiters + 1
    /\ \A k \in 1 .. Len(w.waiters) : w.waiters[k].id \in 1 .. w.next - 1 /\ w.waiters[k].id \notin w.left
    /\ \A k, m \in 1 .. Len(w.waiters) : w.waiters[k].id = w.waiters[m].id => k = m
    /\ w.left \subseteq 1 .. w.next - 1
    /\ \A id \in 1 .. w.next - 1 :
          /\ Waiting(w, id) \/ id \in w.left => Len(w.answers[id]) = 0
          /\ ~Waiting(w, id) /\ id \notin w.left => Len(w.answers[id]) = 1
    /\ \A id \in w.next .. MaxWaiters : Len(w.answers[id]) = 0

\* What concatenation does, for erasing a waiter out of the middle of the list.
LEMMA ConcatFacts ==
    ASSUME NEW S, NEW s \in Seq(S), NEW t \in Seq(S)
    PROVE  /\ s \o t \in Seq(S) /\ Len(s \o t) = Len(s) + Len(t)
           /\ \A m \in 1 .. Len(s) + Len(t) : (s \o t)[m] = IF m <= Len(s) THEN s[m] ELSE t[m - Len(s)]
  OBVIOUS

\* vector::erase.
LEMMA EraseFacts ==
    ASSUME NEW S, NEW s \in Seq(S), NEW k \in 1 .. Len(s)
    PROVE  /\ Erased(s, k) \in Seq(S) /\ Len(Erased(s, k)) = Len(s) - 1 /\ Len(s) \in Nat
           /\ \A m \in 1 .. Len(s) - 1 : Erased(s, k)[m] = IF m < k THEN s[m] ELSE s[m + 1]
  <1>1. /\ SubSeq(s, 1, k - 1) \in Seq(S) /\ Len(SubSeq(s, 1, k - 1)) = k - 1
        /\ \A m \in 1 .. k - 1 : SubSeq(s, 1, k - 1)[m] = s[m]
    OBVIOUS
  <1>2. /\ SubSeq(s, k + 1, Len(s)) \in Seq(S) /\ Len(SubSeq(s, k + 1, Len(s))) = Len(s) - k
        /\ \A m \in 1 .. Len(s) - k : SubSeq(s, k + 1, Len(s))[m] = s[k + m]
    OBVIOUS
  <1> DEFINE front == SubSeq(s, 1, k - 1)
             back  == SubSeq(s, k + 1, Len(s))
  <1> HIDE DEF front, back
  <1>3. /\ front \in Seq(S) /\ Len(front) = k - 1 /\ \A m \in 1 .. k - 1 : front[m] = s[m]
        /\ back \in Seq(S) /\ Len(back) = Len(s) - k /\ \A m \in 1 .. Len(s) - k : back[m] = s[k + m]
    BY <1>1, <1>2, Zenon DEF front, back
  <1>4. /\ front \o back \in Seq(S) /\ Len(front \o back) = Len(front) + Len(back)
        /\ \A m \in 1 .. Len(front) + Len(back) :
              (front \o back)[m] = IF m <= Len(front) THEN front[m] ELSE back[m - Len(front)]
    BY <1>3, ConcatFacts, Zenon
  <1>5. Erased(s, k) = front \o back
    BY Zenon DEF Erased, front, back
  <1> DEFINE rest == front \o back
  <1> HIDE DEF rest
  <1>6. /\ rest \in Seq(S) /\ Len(rest) = Len(s) - 1 /\ Len(s) \in Nat
        /\ \A m \in 1 .. Len(s) - 1 : rest[m] = IF m < k THEN s[m] ELSE s[m + 1]
    <2>1. /\ rest \in Seq(S) /\ Len(rest) = Len(front) + Len(back)
          /\ \A m \in 1 .. Len(front) + Len(back) :
                rest[m] = IF m <= Len(front) THEN front[m] ELSE back[m - Len(front)]
      BY <1>4, Zenon DEF rest
    <2>2. Len(s) \in Nat /\ k \in Nat
      OBVIOUS
    <2>3. ASSUME NEW m \in 1 .. Len(s) - 1 PROVE rest[m] = IF m < k THEN s[m] ELSE s[m + 1]
      <3>1. m \in 1 .. Len(front) + Len(back)
        BY <1>3, <2>2
      <3>2. CASE m < k
        <4>1. m <= Len(front) /\ m \in 1 .. k - 1
          BY <1>3, <2>2, <3>2
        <4> QED
          BY <1>3, <2>1, <3>1, <3>2, <4>1, Zenon
      <3>3. CASE ~(m < k)
        <4>1. /\ ~(m <= Len(front)) /\ m - Len(front) \in 1 .. Len(s) - k
              /\ k + (m - Len(front)) = m + 1
          BY <1>3, <2>2, <3>3
        <4>2. rest[m] = back[m - Len(front)] /\ back[m - Len(front)] = s[k + (m - Len(front))]
          BY <1>3, <2>1, <3>1, <4>1, Zenon
        <4> QED
          BY <3>3, <4>1, <4>2, Zenon
      <3> QED
        BY <3>2, <3>3, Zenon
    <2> QED
      BY <1>3, <2>1, <2>2, <2>3
  <1> QED
    BY <1>5, <1>6, Zenon DEF rest

\* What appending does, for a request that joins the waiters (PendingResponses::add).
LEMMA JoinFacts ==
    ASSUME NEW S, NEW s \in Seq(S), NEW e \in S
    PROVE  /\ Append(s, e) \in Seq(S) /\ Len(Append(s, e)) = Len(s) + 1 /\ Len(s) \in Nat
           /\ \A k \in 1 .. Len(s) : Append(s, e)[k] = s[k]
           /\ Append(s, e)[Len(s) + 1] = e
  OBVIOUS

\* add: the new waiter's id is new.
LEMMA AddedOK ==
    ASSUME NEW w, WaitsOK(w), w.next <= MaxWaiters, NEW key \in Correlations
    PROVE  WaitsOK(Added(w, key))
  <1> DEFINE v == Added(w, key)
             e == [id |-> w.next, key |-> key]
             n == Len(w.waiters)
  <1>1. /\ w \in Waits /\ w.next \in 1 .. MaxWaiters + 1 /\ MaxWaiters \in Nat /\ w.next \in Nat
        /\ w.waiters \in Seq(Waiter) /\ n \in Nat
    BY WaitersAssumption DEF WaitsOK, Waits
  <1>2. e \in Waiter /\ e.id = w.next
    BY <1>1, Zenon DEF Waiter
  <1> HIDE DEF e
  <1>3. /\ v.waiters = Append(w.waiters, e) /\ v.next = w.next + 1 /\ v.left = w.left
        /\ v.answers = w.answers /\ v \in Waits
    <2>1. v = [w EXCEPT !.waiters = Append(@, e), !.next = @ + 1]
      BY Zenon DEF Added, e
    <2>2. Append(w.waiters, e) \in Seq(Waiter)
      BY <1>1, <1>2, JoinFacts, Zenon
    <2>3. /\ v.waiters = Append(w.waiters, e) /\ v.next = w.next + 1 /\ v.left = w.left
          /\ v.answers = w.answers
      BY <1>1, <2>1, Zenon DEF Waits
    <2>4. w.next + 1 \in Nat
      BY <1>1
    <2> QED
      BY <1>1, <2>1, <2>2, <2>3, <2>4, Zenon DEF Waits
  <1> HIDE DEF v
  <1>4. /\ Len(v.waiters) = n + 1 /\ v.waiters[n + 1].id = w.next
        /\ \A k \in 1 .. n : v.waiters[k] = w.waiters[k]
    BY <1>1, <1>2, <1>3, JoinFacts
  <1>5. \A k \in 1 .. Len(v.waiters) : k \in 1 .. n \/ k = n + 1
    BY <1>1, <1>4
  <1>6. \A k \in 1 .. n : w.waiters[k].id \in 1 .. w.next - 1 /\ w.waiters[k].id \notin w.left
    BY Zenon DEF WaitsOK
  <1>7. w.left \subseteq 1 .. w.next - 1
    BY Zenon DEF WaitsOK
  <1>8. \A k \in 1 .. Len(v.waiters) : v.waiters[k].id \in 1 .. v.next - 1 /\ v.waiters[k].id \notin v.left
    <2>1. /\ v.left = w.left /\ v.next - 1 = w.next
          /\ \A i \in 1 .. w.next - 1 : i \in 1 .. w.next
          /\ w.next \in 1 .. w.next /\ w.next \notin 1 .. w.next - 1
      BY <1>1, <1>3
    <2>2. w.next \notin w.left
      BY <1>7, <2>1, Zenon
    <2>3. \A k \in 1 .. n : v.waiters[k].id \in 1 .. w.next /\ v.waiters[k].id \notin w.left
      BY <1>4, <1>6, <2>1, Zenon
    <2> QED
      BY <1>4, <1>5, <2>1, <2>2, <2>3, Zenon
  <1>9. \A k, m \in 1 .. Len(v.waiters) : v.waiters[k].id = v.waiters[m].id => k = m
    <2>1. \A k, m \in 1 .. n : w.waiters[k].id = w.waiters[m].id => k = m
      BY Zenon DEF WaitsOK
    <2>2. \A k \in 1 .. n : v.waiters[k].id # w.next
      <3>1. w.next \notin 1 .. w.next - 1
        BY <1>1
      <3> QED
        BY <1>4, <1>6, <3>1, Zenon
    <2> QED
      BY <1>4, <1>5, <2>1, <2>2, Zenon
  <1>10. /\ \A id \in 1 .. w.next - 1 : Waiting(v, id) <=> Waiting(w, id)
         /\ Waiting(v, w.next)
    <2>1. \A id : Waiting(w, id) => Waiting(v, id)
      <3>1. \A k \in 1 .. n : k \in 1 .. Len(v.waiters)
        BY <1>1, <1>4
      <3> QED
        BY <1>4, <3>1, Zenon DEF Waiting
    <2>2. \A id \in 1 .. w.next - 1 : Waiting(v, id) => Waiting(w, id)
      <3>1. \A id \in 1 .. w.next - 1 : id # w.next
        BY <1>1
      <3> QED
        BY <1>4, <1>5, <3>1, Zenon DEF Waiting
    <2>3. Waiting(v, w.next)
      <3>1. n + 1 \in 1 .. Len(v.waiters)
        BY <1>1, <1>4
      <3> QED
        BY <1>4, <3>1, Zenon DEF Waiting
    <2> QED
      BY <2>1, <2>2, <2>3, Zenon
  <1>11. /\ \A id \in 1 .. w.next - 1 :
              /\ Waiting(w, id) \/ id \in w.left => Len(w.answers[id]) = 0
              /\ ~Waiting(w, id) /\ id \notin w.left => Len(w.answers[id]) = 1
         /\ \A id \in w.next .. MaxWaiters : Len(w.answers[id]) = 0
    BY Zenon DEF WaitsOK
  <1>12. \A id \in 1 .. v.next - 1 :
              /\ Waiting(v, id) \/ id \in v.left => Len(v.answers[id]) = 0
              /\ ~Waiting(v, id) /\ id \notin v.left => Len(v.answers[id]) = 1
    <2> TAKE id \in 1 .. v.next - 1
    <2>1. CASE id = w.next
      <3>1. w.next \in w.next .. MaxWaiters
        BY <1>1
      <3> QED
        BY <1>3, <1>10, <1>11, <2>1, <3>1, Zenon
    <2>2. CASE id \in 1 .. w.next - 1
      BY <1>3, <1>10, <1>11, <2>2, Zenon
    <2> QED
      BY <1>1, <1>3, <2>1, <2>2
  <1>13. /\ \A id \in v.next .. MaxWaiters : Len(v.answers[id]) = 0
         /\ v.left \subseteq 1 .. v.next - 1 /\ v.next \in 1 .. MaxWaiters + 1
    BY <1>1, <1>3, <1>7, <1>11
  <1> QED
    BY <1>3, <1>8, <1>9, <1>12, <1>13, Zenon DEF WaitsOK, v

\* find and erase: the waiter that is erased no longer waits, and every other one does.
LEMMA ErasedWaiter ==
    ASSUME NEW w, WaitsOK(w), NEW k \in 1 .. Len(w.waiters),
           NEW v, v.waiters = Erased(w.waiters, k)
    PROVE  /\ v.waiters \in Seq(Waiter)
           /\ \A m \in 1 .. Len(v.waiters) :
                 \E n \in 1 .. Len(w.waiters) : n # k /\ v.waiters[m] = w.waiters[n]
           /\ \A m, n \in 1 .. Len(v.waiters) : v.waiters[m].id = v.waiters[n].id => m = n
           /\ \A id : Waiting(v, id) <=> Waiting(w, id) /\ id # w.waiters[k].id
  <1> DEFINE len   == Len(w.waiters)
             at(m) == IF m < k THEN m ELSE m + 1
  <1>1. w.waiters \in Seq(Waiter)
    BY Zenon DEF WaitsOK, Waits
  <1>2. /\ v.waiters \in Seq(Waiter) /\ Len(v.waiters) = len - 1 /\ len \in Nat
        /\ \A m \in 1 .. len - 1 : v.waiters[m] = IF m < k THEN w.waiters[m] ELSE w.waiters[m + 1]
    BY <1>1, EraseFacts, Zenon
  <1>3. \A m \in 1 .. len - 1 : v.waiters[m] = w.waiters[at(m)]
    BY <1>2, Zenon
  <1>4. k \in 1 .. len
    BY Zenon
  <1> HIDE DEF len
  <1>5. \A m \in 1 .. len - 1 : at(m) \in 1 .. len /\ at(m) # k
    BY <1>2, <1>4
  <1>6. \A m, n \in 1 .. len - 1 : at(m) = at(n) => m = n
    BY <1>2, <1>4
  <1>7. \A n \in 1 .. len : n # k => \E m \in 1 .. len - 1 : at(m) = n
    <2> TAKE n \in 1 .. len
    <2> HAVE n # k
    <2>1. CASE n < k
      <3>1. n \in 1 .. len - 1 /\ at(n) = n
        BY <1>2, <1>4, <2>1
      <3> QED
        BY <3>1, Zenon
    <2>2. CASE n > k
      <3>1. n - 1 \in 1 .. len - 1 /\ at(n - 1) = n
        BY <1>2, <1>4, <2>2
      <3> QED
        BY <3>1, Zenon
    <2> QED
      BY <1>2, <1>4, <2>1, <2>2
  <1> HIDE DEF at
  <1>8. \A m, n \in 1 .. len : w.waiters[m].id = w.waiters[n].id => m = n
    BY Zenon DEF WaitsOK, len
  <1>9. \A m \in 1 .. Len(v.waiters) : \E n \in 1 .. len : n # k /\ v.waiters[m] = w.waiters[n]
    BY <1>2, <1>3, <1>5, Zenon
  <1>10. \A m, n \in 1 .. Len(v.waiters) : v.waiters[m].id = v.waiters[n].id => m = n
    <2>1. \A m \in 1 .. len - 1 : v.waiters[m].id = w.waiters[at(m)].id
      BY <1>3, Zenon
    <2> SUFFICES ASSUME NEW m \in 1 .. len - 1, NEW n \in 1 .. len - 1, v.waiters[m].id = v.waiters[n].id
                 PROVE  m = n
      BY <1>2, Zenon
    <2>2. w.waiters[at(m)].id = w.waiters[at(n)].id
      BY <2>1, Zenon
    <2>3. at(m) = at(n)
      BY <1>5, <1>8, <2>2, Zenon
    <2> QED
      BY <1>6, <2>3, Zenon
  <1>11. ASSUME NEW id PROVE Waiting(v, id) <=> Waiting(w, id) /\ id # w.waiters[k].id
    <2>1. ASSUME Waiting(v, id) PROVE Waiting(w, id) /\ id # w.waiters[k].id
      <3>1. PICK m \in 1 .. Len(v.waiters) : v.waiters[m].id = id
        BY <2>1, Zenon DEF Waiting
      <3>2. PICK n \in 1 .. len : n # k /\ v.waiters[m] = w.waiters[n]
        BY <1>9, <3>1, Zenon
      <3>3. w.waiters[n].id = id
        BY <3>1, <3>2, Zenon
      <3>4. id # w.waiters[k].id
        BY <1>4, <1>8, <3>2, <3>3, Zenon
      <3> QED
        BY <3>3, <3>4, Zenon DEF Waiting, len
    <2>2. ASSUME Waiting(w, id), id # w.waiters[k].id PROVE Waiting(v, id)
      <3>1. PICK n \in 1 .. len : w.waiters[n].id = id
        BY <2>2, Zenon DEF Waiting, len
      <3>2. PICK m \in 1 .. len - 1 : at(m) = n
        BY <1>7, <2>2, <3>1, Zenon
      <3>3. v.waiters[m].id = id
        BY <1>3, <3>1, <3>2, Zenon
      <3> QED
        BY <1>2, <3>2, <3>3, Zenon DEF Waiting
    <2> QED
      BY <2>1, <2>2, Zenon
  <1> QED
    BY <1>2, <1>9, <1>10, <1>11, Zenon DEF len

\* What erasing waiter k leaves to show: how its id is accounted for.
LEMMA GoneOK ==
    ASSUME NEW w, WaitsOK(w), NEW k \in 1 .. Len(w.waiters),
           NEW v \in Waits, v.waiters = Erased(w.waiters, k), v.next = w.next,
           NEW one, one = w.waiters[k].id,
           \A id \in 1 .. MaxWaiters : id # one => v.answers[id] = w.answers[id],
           \/ v.left = w.left /\ Len(v.answers[one]) = Len(w.answers[one]) + 1
           \/ v.left = w.left \cup {one} /\ v.answers = w.answers
    PROVE  WaitsOK(v)
  <1>1. /\ w.next \in 1 .. MaxWaiters + 1 /\ MaxWaiters \in Nat /\ w.left \subseteq 1 .. w.next - 1
        /\ \A m \in 1 .. Len(w.waiters) : w.waiters[m].id \in 1 .. w.next - 1 /\ w.waiters[m].id \notin w.left
    BY WaitersAssumption, Zenon DEF WaitsOK
  <1>2. \A m, n \in 1 .. Len(w.waiters) : w.waiters[m].id = w.waiters[n].id => m = n
    BY Zenon DEF WaitsOK
  <1>3. /\ \A id \in 1 .. w.next - 1 :
              /\ Waiting(w, id) \/ id \in w.left => Len(w.answers[id]) = 0
              /\ ~Waiting(w, id) /\ id \notin w.left => Len(w.answers[id]) = 1
        /\ \A id \in w.next .. MaxWaiters : Len(w.answers[id]) = 0
    BY Zenon DEF WaitsOK
  <1>4. /\ \A m \in 1 .. Len(v.waiters) :
              \E n \in 1 .. Len(w.waiters) : n # k /\ v.waiters[m] = w.waiters[n]
        /\ \A m, n \in 1 .. Len(v.waiters) : v.waiters[m].id = v.waiters[n].id => m = n
        /\ \A id : Waiting(v, id) <=> Waiting(w, id) /\ id # w.waiters[k].id
    <2>1. \A m \in 1 .. Len(v.waiters) :
             \E n \in 1 .. Len(w.waiters) : n # k /\ v.waiters[m] = w.waiters[n]
      BY ErasedWaiter, SMTT(30)
    <2>2. \A m, n \in 1 .. Len(v.waiters) : v.waiters[m].id = v.waiters[n].id => m = n
      BY ErasedWaiter, SMTT(30)
    <2>3. \A id : Waiting(v, id) <=> Waiting(w, id) /\ id # w.waiters[k].id
      BY ErasedWaiter, SMTT(30)
    <2> QED
      BY <2>1, <2>2, <2>3, Zenon
  <1>5. one \in 1 .. w.next - 1 /\ one \notin w.left /\ Waiting(w, one)
    BY <1>1, Zenon DEF Waiting
  <1>6. \A m \in 1 .. Len(v.waiters) : v.waiters[m].id \in 1 .. v.next - 1 /\ v.waiters[m].id \notin v.left
    <2> TAKE m \in 1 .. Len(v.waiters)
    <2>1. PICK n \in 1 .. Len(w.waiters) : n # k /\ v.waiters[m] = w.waiters[n]
      BY <1>4, Zenon
    <2>2. w.waiters[n].id # one
      BY <1>2, <2>1, Zenon
    <2> QED
      BY <1>1, <2>1, <2>2, Zenon
  <1>7. v.left \subseteq 1 .. v.next - 1
    BY <1>1, <1>5, Zenon
  <1>8. /\ \A id \in 1 .. w.next - 1 : id \in 1 .. MaxWaiters
        /\ \A id \in w.next .. MaxWaiters : id \in 1 .. MaxWaiters /\ id \notin 1 .. w.next - 1
    BY <1>1
  <1>9. \A id \in v.next .. MaxWaiters : Len(v.answers[id]) = 0
    BY <1>3, <1>5, <1>8, Zenon
  <1>10. Len(w.answers[one]) = 0
    BY <1>3, <1>5, Zenon
  <1>11. \A id \in 1 .. v.next - 1 :
              /\ Waiting(v, id) \/ id \in v.left => Len(v.answers[id]) = 0
              /\ ~Waiting(v, id) /\ id \notin v.left => Len(v.answers[id]) = 1
    <2> TAKE id \in 1 .. v.next - 1
    <2>1. CASE id = one
      <3>1. ~Waiting(v, id)
        BY <1>4, <2>1, Zenon
      <3>2. CASE v.left = w.left /\ Len(v.answers[one]) = Len(w.answers[one]) + 1
        <4>1. Len(v.answers[id]) = 1
          BY <1>10, <2>1, <3>2
        <4> QED
          BY <1>5, <2>1, <3>1, <3>2, <4>1, Zenon
      <3>3. CASE v.left = w.left \cup {one} /\ v.answers = w.answers
        BY <1>10, <2>1, <3>3, Zenon
      <3> QED
        BY <3>2, <3>3, Zenon
    <2>2. CASE id # one
      <3>1. v.answers[id] = w.answers[id] /\ id \in 1 .. w.next - 1
        BY <1>8, <2>2, Zenon
      <3>2. Waiting(v, id) <=> Waiting(w, id)
        BY <1>4, <2>2, Zenon
      <3>3. id \in v.left <=> id \in w.left
        BY <2>2, Zenon
      <3> QED
        BY <1>3, <3>1, <3>2, <3>3, Zenon
    <2> QED
      BY <2>1, <2>2, Zenon
  <1> QED
    BY <1>1, <1>4, <1>6, <1>7, <1>9, <1>11, Zenon DEF WaitsOK

\* erase leaves everything but the waiters alone.
LEMMA WithoutFacts ==
    ASSUME NEW w, WaitsOK(w), NEW k \in 1 .. Len(w.waiters)
    PROVE  /\ WithoutWaiter(w, k) \in Waits
           /\ WithoutWaiter(w, k).waiters = Erased(w.waiters, k)
           /\ WithoutWaiter(w, k).next = w.next
           /\ WithoutWaiter(w, k).left = w.left
           /\ WithoutWaiter(w, k).answers = w.answers
  <1>1. w \in Waits /\ w.waiters \in Seq(Waiter)
    BY Zenon DEF WaitsOK, Waits
  <1>2. Erased(w.waiters, k) \in Seq(Waiter)
    BY <1>1, EraseFacts, Zenon
  <1> DEFINE rest == Erased(w.waiters, k)
  <1>3. WithoutWaiter(w, k) = [w EXCEPT !.waiters = rest]
    BY Zenon DEF WithoutWaiter
  <1> HIDE DEF rest
  <1>4. [w EXCEPT !.waiters = rest] \in Waits
    BY <1>1, <1>2, Zenon DEF Waits, rest
  <1>5. /\ [w EXCEPT !.waiters = rest].waiters = rest /\ [w EXCEPT !.waiters = rest].next = w.next
        /\ [w EXCEPT !.waiters = rest].left = w.left /\ [w EXCEPT !.waiters = rest].answers = w.answers
    BY <1>1, Zenon DEF Waits
  <1> QED
    BY <1>3, <1>4, <1>5, Zenon DEF rest

\* dispatch and expire: the completion counts for the waiter that was erased, and what
\* it adds is another one.
LEMMA CompletedOK ==
    ASSUME NEW w, WaitsOK(w), NEW k \in 1 .. Len(w.waiters), NEW how \in {"report", "timeout"},
           NEW x \in Completions(WithoutWaiter(w, k), w.waiters[k].id, how)
    PROVE  WaitsOK(x)
  <1> DEFINE one == w.waiters[k].id
             u   == WithoutWaiter(w, k)
             v   == [u EXCEPT !.answers[one] = Append(@, how)]
  <1>1. /\ u \in Waits /\ u.waiters = Erased(w.waiters, k) /\ u.next = w.next
        /\ u.left = w.left /\ u.answers = w.answers
    BY WithoutFacts, Zenon
  <1>2. one \in 1 .. MaxWaiters
    <2>1. one \in 1 .. w.next - 1 /\ w.next \in 1 .. MaxWaiters + 1 /\ MaxWaiters \in Nat
      BY WaitersAssumption, Zenon DEF WaitsOK
    <2> QED
      BY <2>1
  <1> HIDE DEF u, v
  <1>3. x = v \/ (u.next <= MaxWaiters /\ \E key \in Correlations : x = Added(v, key))
    <2>1. u.next \in Nat /\ MaxWaiters \in Nat
      BY <1>1, WaitersAssumption, Zenon DEF Waits
    <2>2. ~(u.next > MaxWaiters) => u.next <= MaxWaiters
      BY <2>1
    <2>3. x \in {v} \cup IF u.next > MaxWaiters THEN {} ELSE {Added(v, key) : key \in Correlations}
      BY Zenon DEF Completions, u, v
    <2>4. CASE x # v
      <3>1. ~(u.next > MaxWaiters) /\ x \in {Added(v, key) : key \in Correlations}
        BY <2>3, <2>4, Zenon
      <3> QED
        BY <2>2, <3>1, Zenon
    <2> QED
      BY <2>4, Zenon
  <1>4. w.answers \in [1 .. MaxWaiters -> Answers]
    BY Zenon DEF WaitsOK, Waits
  <1>5. w.answers[one] \in Answers
    BY <1>2, <1>4, Zenon
  <1>6. /\ Append(w.answers[one], how) \in Answers
        /\ Len(Append(w.answers[one], how)) = Len(w.answers[one]) + 1
    <2> DEFINE S == {"report", "timeout"}
               a == w.answers[one]
    <2>1. a \in Seq(S) /\ how \in S
      BY <1>5, Zenon DEF Answers
    <2> HIDE DEF S, a
    <2>2. Append(a, how) \in Seq(S) /\ Len(Append(a, how)) = Len(a) + 1
      BY <2>1, JoinFacts, Zenon
    <2> QED
      BY <2>2, Zenon DEF Answers, S, a
  <1> DEFINE more == [w.answers EXCEPT ![one] = Append(w.answers[one], how)]
  <1>7. /\ more \in [1 .. MaxWaiters -> Answers]
        /\ \A id \in 1 .. MaxWaiters : id # one => more[id] = w.answers[id]
        /\ more[one] = Append(w.answers[one], how)
    BY <1>2, <1>4, <1>6, Zenon
  <1>8. v = [u EXCEPT !.answers = more]
    BY <1>1, Zenon DEF v
  <1> HIDE DEF one, more
  <1>9. v \in Waits /\ v.answers = more /\ v.waiters = u.waiters /\ v.next = u.next /\ v.left = u.left
    <2>1. [u EXCEPT !.answers = more] \in Waits
      BY <1>1, <1>7, Zenon DEF Waits
    <2>2. /\ [u EXCEPT !.answers = more].answers = more /\ [u EXCEPT !.answers = more].waiters = u.waiters
          /\ [u EXCEPT !.answers = more].next = u.next /\ [u EXCEPT !.answers = more].left = u.left
      BY <1>1, Zenon DEF Waits
    <2> QED
      BY <1>8, <2>1, <2>2, Zenon
  <1>10. /\ v.waiters = Erased(w.waiters, k) /\ v.next = w.next /\ v.left = w.left
         /\ \A id \in 1 .. MaxWaiters : id # one => v.answers[id] = w.answers[id]
         /\ Len(v.answers[one]) = Len(w.answers[one]) + 1
    BY <1>1, <1>6, <1>7, <1>9, Zenon
  <1>11. one = w.waiters[k].id
    BY Zenon DEF one
  <1>12. WaitsOK(v)
    BY <1>9, <1>10, <1>11, GoneOK, Zenon
  <1> QED
    BY <1>1, <1>3, <1>9, <1>12, AddedOK, Zenon

\* abandon: the waiter leaves without an answer.
LEMMA AbandonedOK ==
    ASSUME NEW w, WaitsOK(w), NEW k \in 1 .. Len(w.waiters), NEW one, one = w.waiters[k].id
    PROVE  WaitsOK([WithoutWaiter(w, k) EXCEPT !.left = @ \cup {one}])
  <1> DEFINE u == WithoutWaiter(w, k)
             v == [u EXCEPT !.left = @ \cup {one}]
             gone == w.left \cup {one}
  <1>1. /\ u \in Waits /\ u.waiters = Erased(w.waiters, k) /\ u.next = w.next
        /\ u.left = w.left /\ u.answers = w.answers
    BY WithoutFacts, Zenon
  <1>2. v = [u EXCEPT !.left = gone]
    BY <1>1, Zenon
  <1>3. gone \in SUBSET Nat
    <2>1. one \in 1 .. w.next - 1 /\ w.left \subseteq 1 .. w.next - 1 /\ w.next \in 1 .. MaxWaiters + 1
          /\ MaxWaiters \in Nat
      BY WaitersAssumption, Zenon DEF WaitsOK
    <2> QED
      BY <2>1
  <1> HIDE DEF u, v, gone
  <1>4. v \in Waits /\ v.answers = u.answers /\ v.waiters = u.waiters /\ v.next = u.next /\ v.left = gone
    <2>1. [u EXCEPT !.left = gone] \in Waits
      BY <1>1, <1>3, Zenon DEF Waits
    <2>2. /\ [u EXCEPT !.left = gone].answers = u.answers /\ [u EXCEPT !.left = gone].waiters = u.waiters
          /\ [u EXCEPT !.left = gone].next = u.next /\ [u EXCEPT !.left = gone].left = gone
      BY <1>1, Zenon DEF Waits
    <2> QED
      BY <1>2, <2>1, <2>2, Zenon
  <1>5. /\ v.waiters = Erased(w.waiters, k) /\ v.next = w.next /\ v.left = w.left \cup {one}
        /\ v.answers = w.answers
    BY <1>1, <1>4, Zenon DEF gone
  <1>6. WaitsOK(v)
    BY <1>4, <1>5, GoneOK, Zenon
  <1> QED
    BY <1>6, Zenon DEF v, u

PendingOK == part = "pending" => WaitsOK(waits)

\* A session starts with nobody waiting.
LEMMA PendingStart == Init => PendingOK
  <1> SUFFICES ASSUME Init, part = "pending" PROVE WaitsOK(waits)
    BY Zenon DEF PendingOK
  <1>1. PendingInit
    BY Zenon DEF Init
  <1>2. <<>> \in Seq(Waiter) /\ Len(<<>>) = 0 /\ <<>> \in Answers
    BY DEF Answers
  <1>3. [id \in 1 .. MaxWaiters |-> <<>>] \in [1 .. MaxWaiters -> Answers]
    BY <1>2, Zenon
  <1>4. MaxWaiters \in Nat
    BY WaitersAssumption, Zenon
  <1>5. waits \in Waits
    BY <1>1, <1>2, <1>3, Zenon DEF PendingInit, Waits
  <1>6. /\ waits.waiters = <<>> /\ waits.next = 1 /\ waits.left = {}
        /\ waits.answers = [id \in 1 .. MaxWaiters |-> <<>>]
    BY <1>1, Zenon DEF PendingInit
  <1>7. \A id \in 1 .. MaxWaiters : Len(waits.answers[id]) = 0
    BY <1>2, <1>6, Zenon
  <1>8. 1 .. Len(waits.waiters) = {} /\ 1 .. waits.next - 1 = {} /\ waits.next \in 1 .. MaxWaiters + 1
    BY <1>2, <1>4, <1>6
  <1> QED
    BY <1>5, <1>6, <1>7, <1>8, Zenon DEF WaitsOK

\* Whatever a session or its timers do, the waiters stay accounted for.
LEMMA PendingStep == PendingOK /\ [Next]_blockVars => PendingOK'
  <1> SUFFICES ASSUME PendingOK, [Next]_blockVars, part' = "pending"
               PROVE  WaitsOK(waits')
    BY Zenon DEF PendingOK, WaitsOK, Waiting, Waits
  <1>1. part' = part
    BY Zenon DEF Next, blockVars
  <1>2. WaitsOK(waits)
    BY <1>1, Zenon DEF PendingOK
  <1>3. CASE UNCHANGED waits
    BY <1>2, <1>3, Zenon
  <1>4. CASE PendingNext
    <2>1. CASE Add
      BY <1>2, <2>1, AddedOK, Zenon DEF Add
    <2>2. ASSUME NEW key \in Correlations, Dispatch(key) PROVE WaitsOK(waits')
      <3>1. PICK k \in Matching(waits, key) :
               waits' \in Completions(WithoutWaiter(waits, k), waits.waiters[k].id, "report")
        BY <2>2, Zenon DEF Dispatch
      <3>2. k \in 1 .. Len(waits.waiters)
        BY <3>1, Zenon DEF Matching, First
      <3> QED
        BY <1>2, <3>1, <3>2, CompletedOK, Zenon
    <2>3. ASSUME NEW id, NEW k \in FindWaiter(waits, id)
          PROVE  k \in 1 .. Len(waits.waiters) /\ id = waits.waiters[k].id
      BY <2>3, Zenon DEF FindWaiter, First
    <2>4. ASSUME NEW id, Expire(id) PROVE WaitsOK(waits')
      <3>1. ASSUME NEW k \in FindWaiter(waits, id),
                   waits' \in Completions(WithoutWaiter(waits, k), id, "timeout")
            PROVE  WaitsOK(waits')
        <4>1. k \in 1 .. Len(waits.waiters) /\ id = waits.waiters[k].id
          BY <2>3, Zenon
        <4>2. waits' \in Completions(WithoutWaiter(waits, k), waits.waiters[k].id, "timeout")
          BY <3>1, <4>1, Zenon
        <4>3. "timeout" \in {"report", "timeout"}
          BY Zenon
        <4> QED
          BY <1>2, <4>1, <4>2, <4>3, CompletedOK, Zenon
      <3> QED
        BY <1>3, <2>4, <3>1, Zenon DEF Expire
    <2>5. ASSUME NEW id, Abandon(id) PROVE WaitsOK(waits')
      <3>1. ASSUME NEW k \in FindWaiter(waits, id),
                   waits' = [WithoutWaiter(waits, k) EXCEPT !.left = @ \cup {id}]
            PROVE  WaitsOK(waits')
        <4>1. k \in 1 .. Len(waits.waiters) /\ id = waits.waiters[k].id
          BY <2>3, Zenon
        <4>2. WaitsOK([WithoutWaiter(waits, k) EXCEPT !.left = @ \cup {id}])
          BY <1>2, <4>1, AbandonedOK, Zenon
        <4> QED
          BY <3>1, <4>2, Zenon
      <3> QED
        BY <1>3, <2>5, <3>1, Zenon DEF Abandon
    <2> QED
      BY <1>4, <2>1, <2>2, <2>4, <2>5, Zenon DEF PendingNext
  <1> QED
    BY <1>1, <1>3, <1>4, Zenon DEF Next, blockVars

\* PendingResponses calls a completion exactly once per waiter unless the waiter is
\* abandoned (CompletedOnce): for any number of waiters that share a correlation, and
\* reports, timers and departures in any order.
THEOREM WaitersCompleteOnce == Spec => []CompletedOnce
  <1>1. PendingOK => CompletedOnce
    BY Zenon DEF PendingOK, WaitsOK, CompletedOnce
  <1> QED
    BY <1>1, PendingStart, PendingStep, PTL DEF Spec

-----------------------------------------------------------------------------
\* RetransmitRing.

\* Quotient and remainder, for the slot of a sequence number.
LEMMA Division ==
    ASSUME NEW a \in Int, NEW c \in Int, c > 0
    PROVE  a = c * (a \div c) + (a % c)
  BY Z3

\* Two multiples of the capacity that are closer than the capacity are one.
LEMMA Multiples ==
    ASSUME NEW c \in Nat \ {0}, NEW p \in Int, NEW q \in Int, c * p - c * q < c, c * p >= c * q
    PROVE  p = q
  OBVIOUS

\* Sequence numbers closer than the capacity have slots of their own.
LEMMA Residues ==
    ASSUME NEW a \in Nat, NEW b \in Nat, NEW c \in Nat \ {0}, a % c = b % c, a <= b, b - a < c
    PROVE  a = b
  <1> DEFINE p == a \div c
             q == b \div c
             r == a % c
  <1>1. p \in Int /\ q \in Int /\ r \in Int /\ c \in Int /\ c > 0
    OBVIOUS
  <1>2. a = c * p + r /\ b = c * q + r
    <2>1. a \in Int /\ b \in Int /\ b % c = r
      OBVIOUS
    <2>2. a = c * (a \div c) + (a % c) /\ b = c * (b \div c) + (b % c)
      BY <1>1, <2>1, Division, Zenon
    <2> QED
      BY <2>1, <2>2, Zenon
  <1> HIDE DEF p, q, r
  <1> DEFINE cp == c * p
             cq == c * q
  <1>3. cp \in Int /\ cq \in Int
    BY <1>1
  <1>4. a = cp + r /\ b = cq + r
    BY <1>2, Zenon
  <1> HIDE DEF cp, cq
  <1>5. cq - cp < c /\ cq >= cp
    BY <1>1, <1>3, <1>4
  <1>6. q = p
    BY <1>1, <1>5, Multiples, Zenon DEF cp, cq
  <1> QED
    BY <1>2, <1>6, Zenon

\* A sequence number shares its slot with the one a capacity later.
LEMMA Wraps ==
    ASSUME NEW a \in Int, NEW c \in Int, c > 0
    PROVE  (a + c) % c = a % c
  <1> DEFINE p == a \div c
             q == (a + c) \div c
             r == a % c
             s == (a + c) % c
  <1>1. p \in Int /\ q \in Int /\ r \in 0 .. c - 1 /\ s \in 0 .. c - 1 /\ a + c \in Int
    OBVIOUS
  <1>2. a = c * p + r /\ a + c = c * q + s
    BY <1>1, Division, Zenon
  <1> HIDE DEF p, q, r, s
  <1>3. q = p + 1
    BY <1>1, <1>2
  <1> QED
    BY <1>1, <1>2, <1>3

\* A slot that is not empty holds one of the last messages that fit, in its place; and
\* each of those is in its slot.
RingOK(r) ==
    /\ r.capacity \in Nat \ {0} /\ r.slots \in [0 .. r.capacity - 1 -> Nat]
    /\ r.since \in Nat \ {0} /\ r.next \in Nat /\ r.since <= r.next /\ r.next <= SeqSpace
    /\ r.next - r.since <= r.capacity
    /\ \A j \in 0 .. r.capacity - 1 :
          r.slots[j] # 0 => r.slots[j] \in r.since .. r.next - 1 /\ r.slots[j] % r.capacity = j
    /\ \A seq \in r.since .. r.next - 1 : r.slots[seq % r.capacity] = seq

\* clear, and a new ring.
LEMMA EmptyRing ==
    ASSUME NEW capacity \in Nat \ {0}
    PROVE  RingOK(EmptySlots(capacity))
  <1> DEFINE r == EmptySlots(capacity)
             S == SeqSpace
  <1>1. S \in Nat \ {0}
    BY RingAssumption, Zenon
  <1> HIDE DEF S
  <1>2. /\ r.capacity = capacity /\ r.next = 1 /\ r.since = 1
        /\ r.slots = [i \in 0 .. capacity - 1 |-> 0]
    BY Zenon DEF EmptySlots
  <1> HIDE DEF r
  <1>3. r.slots \in [0 .. capacity - 1 -> Nat] /\ \A j \in 0 .. capacity - 1 : r.slots[j] = 0
    BY <1>2
  <1>4. /\ r.since \in Nat \ {0} /\ r.next \in Nat /\ r.since <= r.next /\ r.next <= S
        /\ r.next - r.since <= r.capacity
        /\ \A seq \in r.since .. r.next - 1 : r.slots[seq % r.capacity] = seq
    BY <1>1, <1>2
  <1>5. /\ r.capacity \in Nat \ {0} /\ r.slots \in [0 .. r.capacity - 1 -> Nat]
        /\ \A j \in 0 .. r.capacity - 1 : r.slots[j] = 0
    BY <1>2, <1>3, Zenon
  <1> QED
    BY <1>4, <1>5, Zenon DEF RingOK, S, r

\* claim: the message sent takes the slot of the oldest one, which is no longer to be held.
LEMMA SentRing ==
    ASSUME NEW r, RingOK(r), r.next < SeqSpace, NEW t,
           t.capacity = r.capacity, t.slots = Encoded(r.slots, r.capacity, r.next), t.next = r.next + 1,
           t.since = IF r.next - r.since >= r.capacity THEN r.since + 1 ELSE r.since
    PROVE  RingOK(t)
  <1> DEFINE c == r.capacity
             n == r.next
             from == r.since
             S == SeqSpace
             here == n % c
             old == r.slots
             new == t.slots
             to == t.since
  <1>1. S \in Nat \ {0}
    BY RingAssumption, Zenon
  <1>2. /\ c \in Nat \ {0} /\ old \in [0 .. c - 1 -> Nat]
        /\ from \in Nat \ {0} /\ n \in Nat /\ from <= n /\ n <= S /\ n - from <= c
    BY Zenon DEF RingOK
  <1>3. \A j \in 0 .. c - 1 : old[j] # 0 => old[j] \in from .. n - 1 /\ old[j] % c = j
    BY Zenon DEF RingOK
  <1>4. \A seq \in from .. n - 1 : old[seq % c] = seq
    BY Zenon DEF RingOK
  <1>5. new = [old EXCEPT ![here] = n]
    BY Zenon DEF Encoded
  <1>6. n < S /\ to = IF n - from >= c THEN from + 1 ELSE from
    BY Zenon
  <1> HIDE DEF c, n, from, S, old, new, to
  <1>7. here \in 0 .. c - 1
    BY <1>2
  <1>8. \A seq \in Nat : seq % c \in 0 .. c - 1
    BY <1>2
  <1>9. n - from >= c => from % c = here
    <2>1. c \in Int /\ c > 0 /\ from \in Int
      BY <1>2
    <2>2. (from + c) % c = from % c
      BY <2>1, Wraps, Zenon
    <2>3. n - from >= c => from + c = n
      BY <1>2
    <2> QED
      BY <2>2, <2>3, Zenon
  <1> HIDE DEF here
  <1>10. new \in [0 .. c - 1 -> Nat] /\ new[here] = n /\ \A j \in 0 .. c - 1 : j # here => new[j] = old[j]
    BY <1>2, <1>5, <1>7, Zenon
  <1>11. to \in Nat \ {0} /\ n + 1 \in Nat /\ to <= n + 1 /\ n + 1 <= S /\ n + 1 - to <= c /\ n - to < c
    BY <1>1, <1>2, <1>6
  <1>12. n \in to .. n + 1 - 1 /\ n # 0
    BY <1>2, <1>6
  <1>13. ASSUME NEW j \in 0 .. c - 1, new[j] # 0
         PROVE  new[j] \in to .. n + 1 - 1 /\ new[j] % c = j
    <2>1. CASE j = here
      BY <1>10, <1>12, <2>1, Zenon DEF here
    <2>2. CASE j # here
      <3>1. new[j] = old[j] /\ old[j] \in from .. n - 1 /\ old[j] % c = j
        BY <1>3, <1>10, <1>13, <2>2, Zenon
      <3>2. n - from >= c => old[j] # from
        BY <1>9, <2>2, <3>1, Zenon
      <3>3. \A x \in from .. n - 1 : (n - from >= c => x # from) => x \in to .. n + 1 - 1
        BY <1>2, <1>6
      <3> QED
        BY <3>1, <3>2, <3>3, Zenon
    <2> QED
      BY <2>1, <2>2, Zenon
  <1>14. ASSUME NEW seq \in to .. n + 1 - 1
         PROVE  new[seq % c] = seq
    <2>1. CASE seq = n
      BY <1>10, <2>1, Zenon DEF here
    <2>2. CASE seq # n
      <3>1. seq \in from .. n - 1 /\ seq \in Nat /\ seq <= n /\ n - seq < c
        BY <1>2, <1>6, <1>11, <2>2
      <3>2. seq % c # here
        BY <1>2, <2>2, <3>1, Residues, Zenon DEF here
      <3> QED
        BY <1>4, <1>8, <1>10, <3>1, <3>2, Zenon
    <2> QED
      BY <2>1, <2>2, Zenon
  <1>15. t.capacity = c /\ t.next = n + 1 /\ t.slots = new /\ t.since = to
    BY Zenon DEF c, n, new, to
  <1>16. /\ t.capacity \in Nat \ {0} /\ t.slots \in [0 .. t.capacity - 1 -> Nat]
         /\ t.since \in Nat \ {0} /\ t.next \in Nat /\ t.since <= t.next /\ t.next <= SeqSpace
         /\ t.next - t.since <= t.capacity
    BY <1>2, <1>10, <1>11, <1>15, SMTT(30) DEF S
  <1>17. t.since .. t.next - 1 = to .. n + 1 - 1
    <2>1. n \in Nat
      BY <1>2, Zenon
    <2>2. t.since = to /\ t.next - 1 = n + 1 - 1
      BY <1>15, <2>1
    <2> QED
      BY <2>2, Zenon
  <1>18. ASSUME NEW j \in 0 .. t.capacity - 1, t.slots[j] # 0
         PROVE  t.slots[j] \in t.since .. t.next - 1 /\ t.slots[j] % t.capacity = j
    <2>1. j \in 0 .. c - 1 /\ new[j] # 0
      BY <1>15, <1>18, Zenon
    <2>2. new[j] \in to .. n + 1 - 1 /\ new[j] % c = j
      BY <1>13, <2>1, Zenon
    <2>3. t.slots[j] = new[j] /\ t.slots[j] % t.capacity = new[j] % c
      BY <1>15, Zenon
    <2> QED
      BY <1>17, <2>2, <2>3, Zenon
  <1>19. ASSUME NEW seq \in t.since .. t.next - 1
         PROVE  t.slots[seq % t.capacity] = seq
    <2>1. seq \in to .. n + 1 - 1
      BY <1>17, <1>19, Zenon
    <2>2. new[seq % c] = seq
      BY <1>14, <2>1, Zenon
    <2> QED
      BY <1>15, <2>2, Zenon
  <1> QED
    BY <1>16, <1>18, <1>19, Zenon DEF RingOK

RetransmitOK == part = "retransmit" => RingOK(ring)

\* A session's ring starts empty.
LEMMA RetransmitStart == Init => RetransmitOK
  <1> SUFFICES ASSUME Init, part = "retransmit" PROVE RingOK(ring)
    BY Zenon DEF RetransmitOK
  <1>1. PICK capacity \in 1 .. MaxCapacity : ring = EmptySlots(capacity)
    BY Zenon DEF Init, RingInit
  <1>2. capacity \in Nat \ {0}
    BY RingAssumption
  <1> QED
    BY <1>1, <1>2, EmptyRing, Zenon

\* Messages sent, and sessions that start anew, keep it.
LEMMA RetransmitStep == RetransmitOK /\ [Next]_blockVars => RetransmitOK'
  <1> SUFFICES ASSUME RetransmitOK, [Next]_blockVars, part' = "retransmit"
               PROVE  RingOK(ring')
    BY Zenon DEF RetransmitOK, RingOK
  <1>1. part' = part
    BY Zenon DEF Next, blockVars
  <1>2. RingOK(ring)
    BY <1>1, Zenon DEF RetransmitOK
  <1>3. CASE UNCHANGED ring
    BY <1>2, <1>3, Zenon
  <1>4. CASE SendMessage
    <2>1. /\ ring'.capacity = ring.capacity
          /\ ring'.slots = Encoded(ring.slots, ring.capacity, ring.next)
          /\ ring'.next = ring.next + 1 /\ ring.next < SeqSpace
          /\ ring'.since = IF ring.next - ring.since >= ring.capacity THEN ring.since + 1 ELSE ring.since
      BY <1>4, Zenon DEF SendMessage
    <2> QED
      BY <1>2, <2>1, SentRing, Zenon
  <1>5. CASE ClearRing
    BY <1>2, <1>5, EmptyRing, Zenon DEF ClearRing, RingOK
  <1> QED
    BY <1>1, <1>3, <1>4, <1>5, Zenon DEF Next, blockVars, RingNext

\* RetransmitRing::holds answers for every range, for a ring of any capacity and
\* sequence numbers of any width, whether the messages are among the last that fit
\* (ReplaysAreExact).
THEOREM ReplaysHoldExactly == Spec => []ReplaysAreExact
  <1>1. ASSUME RetransmitOK PROVE ReplaysAreExact
    <2> SUFFICES ASSUME RingOK(ring), NEW from \in 0 .. SeqSpace - 1, NEW count \in 1 .. SeqSpace - 1
                 PROVE  Holds(ring, from, count) <=>
                          \A i \in 0 .. count - 1 :
                              (from + i) % SeqSpace \in ring.since .. ring.next - 1
      BY <1>1, Zenon DEF RetransmitOK, ReplaysAreExact
    <2>1. ASSUME NEW seq \in Nat PROVE FindSeq(ring, seq) <=> seq \in ring.since .. ring.next - 1
      <3>1. ring.capacity \in Nat \ {0} /\ ring.since \in Nat \ {0} /\ ring.next \in Nat
        BY Zenon DEF RingOK
      <3>2. seq % ring.capacity \in 0 .. ring.capacity - 1
        BY <3>1
      <3>3. seq \in ring.since .. ring.next - 1 => seq # 0
        BY <3>1
      <3> QED
        BY <3>2, <3>3, Zenon DEF FindSeq, RingOK
    <2>2. \A i \in 0 .. count - 1 : (from + i) % SeqSpace \in Nat
      <3> DEFINE S == SeqSpace
      <3>1. S \in Nat \ {0} /\ from \in 0 .. S - 1 /\ count \in 1 .. S - 1
        BY RingAssumption, Zenon
      <3> HIDE DEF S
      <3>2. \A i \in 0 .. count - 1 : (from + i) % S \in Nat
        BY <3>1
      <3> QED
        BY <3>2, Zenon DEF S
    <2> QED
      BY <2>1, <2>2, Zenon DEF Holds
  <1> QED
    BY <1>1, RetransmitStart, RetransmitStep, PTL DEF Spec

-----------------------------------------------------------------------------
\* ClOrdIdIndex.

Entry == [order : Nat, claims : Nat, held : BOOLEAN]
Index == [SessionIds -> Entry]
Request == [serial : Nat, id : SessionIds, num : Nat]
Sessions == [ids : Index, requests : SUBSET Request, serial : Nat,
             working : SUBSET OrderNums, numbers : SUBSET OrderNums, name : [OrderNums -> SessionIds]]

\* The requests in flight that named an id.
Naming(requests, id) == {r \in requests : r.id = id}

\* The claims on an id are the requests that named it; they all mean its order, and a new
\* order is alone with its name; an id is held exactly by the working order it names; and
\* an id without claims that no order holds is gone.
IndexOK(s) ==
    /\ s \in Sessions /\ IsFiniteSet(s.requests) /\ s.working \subseteq s.numbers
    /\ \A r \in s.requests : r.serial < s.serial
    /\ \A id \in SessionIds :
          /\ s.ids[id].claims = Cardinality(Naming(s.requests, id))
          /\ s.ids[id].claims = 0 /\ ~s.ids[id].held => s.ids[id] = NoEntry
          /\ s.ids[id].held => s.ids[id].order \in s.working /\ s.name[s.ids[id].order] = id
    /\ \A num \in s.working : s.ids[s.name[num]].held /\ s.ids[s.name[num]].order = num
    /\ \A r \in s.requests :
          /\ s.ids[r.id].order = r.num
          /\ r.num = 0 => \A q \in s.requests : q.id = r.id => q = r

\* NoEntry is what an id that is not in the map has.
LEMMA NoEntryFacts ==
    /\ NoEntry \in Entry /\ NoEntry.order = 0 /\ NoEntry.claims = 0 /\ NoEntry.held = FALSE
  BY Zenon DEF NoEntry, Entry

\* erase_if_unused
LEMMA UnusedFacts ==
    ASSUME NEW e \in Entry
    PROVE  /\ EraseIfUnused(e) \in Entry
           /\ EraseIfUnused(e).claims = e.claims /\ EraseIfUnused(e).held = e.held
           /\ e.held \/ e.claims # 0 => EraseIfUnused(e).order = e.order
           /\ e.claims = 0 /\ ~e.held => EraseIfUnused(e) = NoEntry
  <1>1. e.held \in BOOLEAN
    BY Zenon DEF Entry
  <1>2. CASE e.claims = 0 /\ ~e.held
    <2>1. EraseIfUnused(e) = NoEntry /\ e.held = FALSE
      BY <1>1, <1>2, Zenon DEF EraseIfUnused
    <2> QED
      BY <1>2, <2>1, NoEntryFacts, Zenon
  <1>3. CASE ~(e.claims = 0 /\ ~e.held)
    BY <1>3, Zenon DEF EraseIfUnused
  <1> QED
    BY <1>2, <1>3, Zenon

\* claim
LEMMA ClaimFacts ==
    ASSUME NEW ids \in Index, NEW id \in SessionIds, NEW num \in Nat, CanClaim(ids, id, num)
    PROVE  /\ Claim(ids, id, num) \in Index
           /\ Claim(ids, id, num)[id].order = num
           /\ Claim(ids, id, num)[id].claims = ids[id].claims + 1
           /\ Claim(ids, id, num)[id].held = ids[id].held
           /\ \A j \in SessionIds : j # id => Claim(ids, id, num)[j] = ids[j]
  <1> DEFINE d == ids[id]
             e == Claimed(d, num)
  <1>1. Claim(ids, id, num) = [ids EXCEPT ![id] = e]
    BY Zenon DEF Claim
  <1>2. d \in Entry /\ (d = NoEntry \/ d.order = num)
    BY Zenon DEF Index, CanClaim
  <1> HIDE DEF d
  <1>3. e \in Entry /\ e.order = num /\ e.claims = d.claims + 1 /\ e.held = d.held
    <2>1. CASE d = NoEntry
      <3>1. e = [order |-> num, claims |-> 1, held |-> FALSE]
        BY <2>1, Zenon DEF Claimed
      <3>2. e \in Entry /\ e.order = num /\ e.claims = 1 /\ e.held = FALSE
        BY <3>1 DEF Entry
      <3>3. d.claims + 1 = 1 /\ d.held = FALSE
        BY <2>1, NoEntryFacts
      <3> QED
        BY <3>2, <3>3, Zenon
    <2>2. CASE d # NoEntry
      <3>1. e = [d EXCEPT !.claims = @ + 1]
        BY <2>2, Zenon DEF Claimed
      <3> HIDE DEF e
      <3>2. e \in Entry /\ e.order = d.order /\ e.claims = d.claims + 1 /\ e.held = d.held
        BY <1>2, <3>1 DEF Entry
      <3> QED
        BY <1>2, <2>2, <3>2, Zenon
    <2> QED
      BY <2>1, <2>2, Zenon
  <1> HIDE DEF e
  <1>4. /\ Claim(ids, id, num) \in Index /\ Claim(ids, id, num)[id] = e
        /\ \A j \in SessionIds : j # id => Claim(ids, id, num)[j] = ids[j]
    BY <1>1, <1>3, Zenon DEF Index
  <1> QED
    BY <1>3, <1>4, Zenon DEF d

\* release
LEMMA ReleaseFacts ==
    ASSUME NEW ids \in Index, NEW id \in SessionIds, ids[id].claims # 0
    PROVE  /\ Release(ids, id) \in Index
           /\ Release(ids, id)[id].claims = ids[id].claims - 1
           /\ Release(ids, id)[id].held <=> ids[id].held
           /\ ids[id].held \/ ids[id].claims - 1 # 0 => Release(ids, id)[id].order = ids[id].order
           /\ ids[id].claims - 1 = 0 /\ ~ids[id].held => Release(ids, id)[id] = NoEntry
           /\ \A j \in SessionIds : j # id => Release(ids, id)[j] = ids[j]
  <1> DEFINE d == ids[id]
             e == Released(d)
             f == EraseIfUnused(e)
  <1>1. d \in Entry
    BY Zenon DEF Index
  <1>2. Release(ids, id) = [ids EXCEPT ![id] = f]
    BY Zenon DEF Release
  <1>3. d.claims # 0
    BY Zenon
  <1> HIDE DEF d
  <1>4. e \in Entry /\ e.claims = d.claims - 1 /\ e.held = d.held /\ e.order = d.order
    BY <1>1, <1>3 DEF Entry, Released
  <1> HIDE DEF e
  <1>5. /\ f \in Entry /\ f.claims = e.claims /\ f.held = e.held
        /\ e.held \/ e.claims # 0 => f.order = e.order
        /\ e.claims = 0 /\ ~e.held => f = NoEntry
    BY <1>4, UnusedFacts, Zenon
  <1> HIDE DEF f
  <1>6. /\ Release(ids, id) \in Index /\ Release(ids, id)[id] = f
        /\ \A j \in SessionIds : j # id => Release(ids, id)[j] = ids[j]
    BY <1>2, <1>5, Zenon DEF Index
  <1> QED
    BY <1>4, <1>5, <1>6, Zenon DEF d

\* assign
LEMMA AssignFacts ==
    ASSUME NEW ids \in Index, NEW id \in SessionIds, NEW num \in Nat
    PROVE  /\ Assign(ids, id, num) \in Index
           /\ Assign(ids, id, num)[id].order = num
           /\ Assign(ids, id, num)[id].claims = ids[id].claims
           /\ Assign(ids, id, num)[id].held
           /\ \A j \in SessionIds : j # id => Assign(ids, id, num)[j] = ids[j]
  <1> DEFINE d == ids[id]
             e == [d EXCEPT !.order = num, !.held = TRUE]
  <1>1. d \in Entry
    BY Zenon DEF Index
  <1>2. Assign(ids, id, num) = [ids EXCEPT ![id] = e]
    BY Zenon DEF Assign
  <1> HIDE DEF d
  <1>3. e \in Entry /\ e.claims = d.claims /\ e.held /\ e.order = num
    BY <1>1, Zenon DEF Entry
  <1> HIDE DEF e
  <1>4. /\ Assign(ids, id, num) \in Index /\ Assign(ids, id, num)[id] = e
        /\ \A j \in SessionIds : j # id => Assign(ids, id, num)[j] = ids[j]
    BY <1>2, <1>3, Zenon DEF Index
  <1> QED
    BY <1>3, <1>4, Zenon DEF d

\* forget, by the order that has the id.
LEMMA ForgetFacts ==
    ASSUME NEW ids \in Index, NEW id \in SessionIds, NEW num, ids[id].order = num, ids[id].held
    PROVE  /\ Forget(ids, id, num) \in Index
           /\ Forget(ids, id, num)[id].claims = ids[id].claims
           /\ ~Forget(ids, id, num)[id].held
           /\ ids[id].claims # 0 => Forget(ids, id, num)[id].order = num
           /\ ids[id].claims = 0 => Forget(ids, id, num)[id] = NoEntry
           /\ \A j \in SessionIds : j # id => Forget(ids, id, num)[j] = ids[j]
  <1> DEFINE d == ids[id]
             e == [d EXCEPT !.held = FALSE]
             f == EraseIfUnused(e)
  <1>1. d \in Entry
    BY Zenon DEF Index
  <1>2. Forget(ids, id, num) = [ids EXCEPT ![id] = f]
    <2>1. ids[id] # NoEntry
      BY NoEntryFacts, Zenon
    <2> QED
      BY <2>1, Zenon DEF Forget
  <1>3. d.order = num
    BY Zenon
  <1> HIDE DEF d
  <1>4. e \in Entry /\ e.claims = d.claims /\ ~e.held /\ e.order = d.order
    BY <1>1, Zenon DEF Entry
  <1> HIDE DEF e
  <1>5. /\ f \in Entry /\ f.claims = e.claims /\ f.held = e.held
        /\ e.held \/ e.claims # 0 => f.order = e.order
        /\ e.claims = 0 /\ ~e.held => f = NoEntry
    BY <1>4, UnusedFacts, Zenon
  <1> HIDE DEF f
  <1>6. /\ Forget(ids, id, num) \in Index /\ Forget(ids, id, num)[id] = f
        /\ \A j \in SessionIds : j # id => Forget(ids, id, num)[j] = ids[j]
    BY <1>2, <1>5, Zenon DEF Index
  <1> QED
    BY <1>3, <1>4, <1>5, <1>6, Zenon DEF d

\* The count of the requests that named an id, when one comes or goes.
LEMMA NamingFacts ==
    ASSUME NEW R, IsFiniteSet(R), NEW id
    PROVE  /\ IsFiniteSet(Naming(R, id)) /\ Cardinality(Naming(R, id)) \in Nat
           /\ Cardinality(Naming(R, id)) = 0 <=> \A r \in R : r.id # id
  <1>1. Naming(R, id) \subseteq R
    BY Zenon DEF Naming
  <1>2. IsFiniteSet(Naming(R, id))
    BY <1>1, FS_Subset, Zenon
  <1>3. Cardinality(Naming(R, id)) \in Nat /\ (Cardinality(Naming(R, id)) = 0 <=> Naming(R, id) = {})
    BY <1>2, FS_CardinalityType, FS_EmptySet, Zenon
  <1>4. Naming(R, id) = {} <=> \A r \in R : r.id # id
    BY Zenon DEF Naming
  <1> QED
    BY <1>2, <1>3, <1>4, Zenon

\* A request that joins the outstanding ones adds one claim on its id and none on others.
LEMMA NamingAdds ==
    ASSUME NEW R, IsFiniteSet(R), NEW q, q \notin R, NEW T, T = R \cup {q}
    PROVE  /\ Cardinality(Naming(T, q.id)) = Cardinality(Naming(R, q.id)) + 1
           /\ \A id : id # q.id => Naming(T, id) = Naming(R, id)
  <1>1. Naming(T, q.id) = Naming(R, q.id) \cup {q} /\ q \notin Naming(R, q.id)
    BY Zenon DEF Naming
  <1>2. IsFiniteSet(Naming(R, q.id))
    BY NamingFacts, Zenon
  <1>3. Cardinality(Naming(R, q.id) \cup {q}) = Cardinality(Naming(R, q.id)) + 1
    BY <1>1, <1>2, FS_AddElement, Zenon
  <1>4. \A id : id # q.id => Naming(T, id) = Naming(R, id)
    BY Zenon DEF Naming
  <1> QED
    BY <1>1, <1>3, <1>4, Zenon

\* A request that is answered takes one claim off its id and none off others.
LEMMA NamingRemoves ==
    ASSUME NEW R, IsFiniteSet(R), NEW q \in R, NEW T, T = R \ {q}
    PROVE  /\ IsFiniteSet(T)
           /\ Cardinality(Naming(T, q.id)) = Cardinality(Naming(R, q.id)) - 1
           /\ Cardinality(Naming(R, q.id)) # 0
           /\ \A id : id # q.id => Naming(T, id) = Naming(R, id)
  <1>1. IsFiniteSet(T)
    <2>1. T \subseteq R
      BY Zenon
    <2> QED
      BY <2>1, FS_Subset, Zenon
  <1>2. Naming(T, q.id) = Naming(R, q.id) \ {q} /\ q \in Naming(R, q.id)
    BY Zenon DEF Naming
  <1>3. IsFiniteSet(Naming(R, q.id)) /\ Cardinality(Naming(R, q.id)) \in Nat
    BY NamingFacts, Zenon
  <1>4. Cardinality(Naming(R, q.id) \ {q}) = Cardinality(Naming(R, q.id)) - 1
    BY <1>2, <1>3, FS_RemoveElement, Zenon
  <1>5. Cardinality(Naming(R, q.id)) # 0
    BY NamingFacts, Zenon
  <1>6. \A id : id # q.id => Naming(T, id) = Naming(R, id)
    BY Zenon DEF Naming
  <1> QED
    BY <1>1, <1>2, <1>4, <1>5, <1>6, Zenon

\* The facts of IndexOK, by name.
LEMMA IndexFacts ==
    ASSUME NEW s, IndexOK(s)
    PROVE  /\ s.ids \in Index /\ s.requests \subseteq Request /\ s.serial \in Nat
           /\ s.working \subseteq OrderNums /\ s.numbers \subseteq OrderNums
           /\ s.name \in [OrderNums -> SessionIds]
           /\ \A id \in SessionIds : s.ids[id].claims \in Nat
           /\ \A r \in s.requests : r.id \in SessionIds /\ r.num \in Nat
           /\ \A num \in s.working : num # 0 /\ num \in Nat /\ s.name[num] \in SessionIds
  <1>1. /\ s.ids \in Index /\ s.requests \subseteq Request /\ s.serial \in Nat
        /\ s.working \subseteq OrderNums /\ s.numbers \subseteq OrderNums
        /\ s.name \in [OrderNums -> SessionIds]
    <2>1. s \in Sessions
      BY Zenon DEF IndexOK
    <2> QED
      BY <2>1, Zenon DEF Sessions
  <1>2. \A e \in Entry : e.claims \in Nat
    BY Zenon DEF Entry
  <1>3. \A id \in SessionIds : s.ids[id] \in Entry
    BY <1>1, Zenon DEF Index
  <1>4. \A r \in Request : r.id \in SessionIds /\ r.num \in Nat
    BY Zenon DEF Request
  <1>5. \A num \in OrderNums : num # 0 /\ num \in Nat
    BY SessionAssumption, Zenon
  <1>6. \A num \in OrderNums : s.name[num] \in SessionIds
    BY <1>1, Zenon
  <1> QED
    BY <1>1, <1>2, <1>3, <1>4, <1>5, <1>6, Zenon

\* A request claims its id: free, or its order's.
LEMMA AskedOK ==
    ASSUME NEW s, IndexOK(s), NEW id \in SessionIds, NEW num \in {0} \cup s.working,
           CanClaim(s.ids, id, num), NEW t \in Sessions, NEW q,
           q = [serial |-> s.serial, id |-> id, num |-> num],
           t.ids = Claim(s.ids, id, num), t.requests = s.requests \cup {q}, t.serial = s.serial + 1,
           t.working = s.working, t.numbers = s.numbers, t.name = s.name
    PROVE  IndexOK(t)
  <1>1. /\ s.ids \in Index /\ s.serial \in Nat /\ IsFiniteSet(s.requests) /\ num \in Nat
        /\ \A r \in s.requests : r.serial < s.serial /\ r.serial \in Nat
        /\ s.working \subseteq s.numbers
    <2>1. s.ids \in Index /\ s.serial \in Nat /\ s.requests \subseteq Request
      BY IndexFacts, Zenon
    <2>2. 0 \in Nat /\ \A r \in Request : r.serial \in Nat
      BY Zenon DEF Request
    <2>3. num \in Nat
      BY <2>2, IndexFacts, Zenon
    <2> QED
      BY <2>1, <2>2, <2>3, Zenon DEF IndexOK
  <1>2. q.serial = s.serial /\ q.id = id /\ q.num = num
    BY Zenon
  <1>3. q \notin s.requests /\ \A r \in t.requests : r.serial < t.serial
    <2>1. s.serial < s.serial + 1 /\ ~(s.serial < s.serial)
      BY <1>1
    <2>2. \A r \in s.requests : r.serial < s.serial + 1
      BY <1>1
    <2> QED
      BY <1>1, <1>2, <2>1, <2>2, Zenon
  <1>4. IsFiniteSet(t.requests)
    <2>1. IsFiniteSet(s.requests \cup {q})
      BY <1>1, FS_AddElement, Zenon
    <2> QED
      BY <2>1, Zenon
  <1>5. /\ Cardinality(Naming(t.requests, id)) = Cardinality(Naming(s.requests, id)) + 1
        /\ \A j : j # id => Naming(t.requests, j) = Naming(s.requests, j)
    <2>1. /\ Cardinality(Naming(t.requests, q.id)) = Cardinality(Naming(s.requests, q.id)) + 1
          /\ \A j : j # q.id => Naming(t.requests, j) = Naming(s.requests, j)
      BY <1>1, <1>3, NamingAdds
    <2> QED
      BY <1>2, <2>1, Zenon
  <1>6. /\ t.ids[id].order = num /\ t.ids[id].claims = s.ids[id].claims + 1
        /\ t.ids[id].held = s.ids[id].held
        /\ \A j \in SessionIds : j # id => t.ids[j] = s.ids[j]
    <2>1. /\ Claim(s.ids, id, num)[id].order = num
          /\ Claim(s.ids, id, num)[id].claims = s.ids[id].claims + 1
          /\ Claim(s.ids, id, num)[id].held = s.ids[id].held
          /\ \A j \in SessionIds : j # id => Claim(s.ids, id, num)[j] = s.ids[j]
      BY <1>1, ClaimFacts
    <2>2. \A j : t.ids[j] = Claim(s.ids, id, num)[j]
      BY Zenon
    <2> QED
      BY <2>1, <2>2, Zenon
  <1>7. \A j \in SessionIds :
          /\ s.ids[j].claims = Cardinality(Naming(s.requests, j))
          /\ s.ids[j].claims = 0 /\ ~s.ids[j].held => s.ids[j] = NoEntry
          /\ s.ids[j].held => s.ids[j].order \in s.working /\ s.name[s.ids[j].order] = j
    BY Zenon DEF IndexOK
  <1>8. t.ids[id].claims # 0 /\ s.ids[id].claims \in Nat
    <2>1. s.ids[id].claims \in Nat
      BY IndexFacts, Zenon
    <2> QED
      BY <1>6, <2>1
  <1>9. s.ids[id].held => num = s.ids[id].order
    BY NoEntryFacts, Zenon DEF CanClaim
  <1>10. \A j \in SessionIds :
          /\ t.ids[j].claims = Cardinality(Naming(t.requests, j))
          /\ t.ids[j].claims = 0 /\ ~t.ids[j].held => t.ids[j] = NoEntry
          /\ t.ids[j].held => t.ids[j].order \in t.working /\ t.name[t.ids[j].order] = j
    <2> TAKE j \in SessionIds
    <2>1. CASE j = id
      BY <1>5, <1>6, <1>7, <1>8, <1>9, <2>1, ZenonT(40)
    <2>2. CASE j # id
      BY <1>5, <1>6, <1>7, <2>2, ZenonT(40)
    <2> QED
      BY <2>1, <2>2, Zenon
  <1>11. \A n \in t.working : t.ids[t.name[n]].held /\ t.ids[t.name[n]].order = n
    <2> TAKE n \in t.working
    <2>1. s.ids[s.name[n]].held /\ s.ids[s.name[n]].order = n /\ s.name[n] \in SessionIds
      BY IndexFacts, Zenon DEF IndexOK
    <2>2. CASE s.name[n] = id
      BY <1>6, <1>9, <2>1, <2>2, Zenon
    <2>3. CASE s.name[n] # id
      BY <1>6, <2>1, <2>3, ZenonT(40)
    <2> QED
      BY <2>2, <2>3, Zenon
  <1>12. ASSUME NEW r \in s.requests, r.id = id
         PROVE  r.num = num /\ num # 0
    <2>1. s.ids[id].claims # 0
      <3>1. Cardinality(Naming(s.requests, id)) # 0
        BY <1>1, <1>12, NamingFacts, Zenon
      <3> QED
        BY <1>7, <3>1, Zenon
    <2>2. s.ids[id] # NoEntry
      BY <2>1, NoEntryFacts, Zenon
    <2> QED
      BY <1>12, <2>2, Zenon DEF CanClaim, IndexOK
  <1>13. ASSUME NEW r \in t.requests
         PROVE  /\ t.ids[r.id].order = r.num
                /\ r.num = 0 => \A p \in t.requests : p.id = r.id => p = r
    <2>1. CASE r = q
      BY <1>2, <1>6, <1>12, <2>1, Zenon
    <2>2. CASE r \in s.requests
      <3>1. /\ s.ids[r.id].order = r.num /\ r.id \in SessionIds
            /\ r.num = 0 => \A p \in s.requests : p.id = r.id => p = r
        BY <2>2, IndexFacts, Zenon DEF IndexOK
      <3>2. CASE r.id = id
        BY <1>6, <1>12, <2>2, <3>2, Zenon
      <3>3. CASE r.id # id
        BY <1>2, <1>6, <3>1, <3>3, Zenon
      <3> QED
        BY <3>2, <3>3, Zenon
    <2> QED
      BY <2>1, <2>2, Zenon
  <1> QED
    BY <1>1, <1>3, <1>4, <1>10, <1>11, <1>13, Zenon DEF IndexOK

\* The request r is answered: the entry of its id has one claim less, and the orders and
\* holders that the answer leaves are those of the working orders and the other requests.
AnswerFits(s, r, t) ==
    /\ t.requests = s.requests \ {r} /\ t.serial = s.serial /\ t.working \subseteq t.numbers
    /\ t.ids[r.id].claims = s.ids[r.id].claims - 1
    /\ \A j \in SessionIds : t.ids[j].claims # s.ids[j].claims => j = r.id
    /\ \A j \in SessionIds :
          /\ t.ids[j].claims = 0 /\ ~t.ids[j].held => t.ids[j] = NoEntry
          /\ t.ids[j].held => t.ids[j].order \in t.working /\ t.name[t.ids[j].order] = j
    /\ \A n \in t.working : t.ids[t.name[n]].held /\ t.ids[t.name[n]].order = n
    /\ \A q \in s.requests : q # r => t.ids[q.id].order = q.num

\* Such an answer keeps the index.
LEMMA AnsweredOK ==
    ASSUME NEW s, IndexOK(s), NEW r \in s.requests, NEW t \in Sessions, AnswerFits(s, r, t)
    PROVE  IndexOK(t)
  <1> USE DEF AnswerFits
  <1>1. IsFiniteSet(s.requests) /\ r.id \in SessionIds
    BY IndexFacts, Zenon DEF IndexOK
  <1>2. /\ IsFiniteSet(t.requests)
        /\ Cardinality(Naming(t.requests, r.id)) = Cardinality(Naming(s.requests, r.id)) - 1
        /\ \A j : j # r.id => Naming(t.requests, j) = Naming(s.requests, j)
    <2> DEFINE R == s.requests
               T == t.requests
    <2>1. IsFiniteSet(R) /\ r \in R /\ T = R \ {r}
      BY <1>1, Zenon
    <2> HIDE DEF R, T
    <2>2. /\ IsFiniteSet(T)
          /\ Cardinality(Naming(T, r.id)) = Cardinality(Naming(R, r.id)) - 1
          /\ \A j : j # r.id => Naming(T, j) = Naming(R, j)
      BY <2>1, NamingRemoves
    <2> QED
      BY <2>2, Zenon DEF R, T
  <1>3. \A j \in SessionIds : s.ids[j].claims = Cardinality(Naming(s.requests, j))
    BY Zenon DEF IndexOK
  <1>4. ASSUME NEW j \in SessionIds PROVE t.ids[j].claims = Cardinality(Naming(t.requests, j))
    <2>1. CASE j = r.id
      <3>1. t.ids[r.id].claims = s.ids[r.id].claims - 1
        BY Zenon
      <3> QED
        BY <1>1, <1>2, <1>3, <2>1, <3>1, Zenon
    <2>2. CASE j # r.id
      BY <1>2, <1>3, <2>2, Zenon
    <2> QED
      BY <2>1, <2>2, Zenon
  <1>5. \A q \in t.requests :
          /\ q.serial < t.serial
          /\ t.ids[q.id].order = q.num
          /\ q.num = 0 => \A p \in t.requests : p.id = q.id => p = q
    BY Zenon DEF IndexOK
  <1> QED
    BY <1>2, <1>4, <1>5, Zenon DEF IndexOK

\* The request of an id that is answered counts among its claims.
LEMMA ClaimCounts ==
    ASSUME NEW s, IndexOK(s), NEW r \in s.requests
    PROVE  s.ids[r.id].claims # 0 /\ s.ids[r.id].claims \in Nat /\ r.id \in SessionIds
  <1>1. IsFiniteSet(s.requests) /\ r.id \in SessionIds
    BY IndexFacts, Zenon DEF IndexOK
  <1>2. Cardinality(Naming(s.requests, r.id)) # 0
    BY <1>1, NamingFacts, Zenon
  <1>3. s.ids[r.id].claims = Cardinality(Naming(s.requests, r.id))
    BY <1>1, Zenon DEF IndexOK
  <1>4. s.ids[r.id].claims \in Nat
    BY <1>1, IndexFacts, Zenon
  <1> QED
    BY <1>1, <1>2, <1>3, <1>4, Zenon

\* While a request of an id is in flight, another one leaves its claim there.
LEMMA ClaimRemains ==
    ASSUME NEW s, IndexOK(s), NEW r \in s.requests, NEW q \in s.requests, q # r, q.id = r.id
    PROVE  s.ids[r.id].claims - 1 # 0
  <1> DEFINE R == s.requests
             T == R \ {r}
  <1>1. IsFiniteSet(R) /\ r.id \in SessionIds /\ q \in T /\ r \in R
    BY IndexFacts, Zenon DEF IndexOK
  <1>2. s.ids[r.id].claims = Cardinality(Naming(R, r.id))
    BY <1>1, Zenon DEF IndexOK
  <1>3. T = R \ {r}
    BY Zenon
  <1> HIDE DEF R, T
  <1>4. IsFiniteSet(T) /\ Cardinality(Naming(T, r.id)) = Cardinality(Naming(R, r.id)) - 1
    BY <1>1, <1>3, NamingRemoves, Zenon
  <1>5. Cardinality(Naming(T, r.id)) # 0
    BY <1>1, <1>4, NamingFacts, Zenon
  <1> QED
    BY <1>2, <1>4, <1>5, Zenon

\* The exchange rejects a request: its claim goes, and with it a name nobody else has.
LEMMA RejectedOK ==
    ASSUME NEW s, IndexOK(s), NEW r \in s.requests, NEW t \in Sessions,
           t.requests = s.requests \ {r}, t.serial = s.serial, t.ids = Release(s.ids, r.id),
           t.working = s.working, t.numbers = s.numbers, t.name = s.name
    PROVE  IndexOK(t)
  <1> DEFINE id == r.id
             old == s.ids
             new == t.ids
  <1>1. old[id].claims # 0 /\ old[id].claims \in Nat /\ id \in SessionIds /\ old \in Index
    BY ClaimCounts, IndexFacts, Zenon
  <1>2. new = Release(old, id)
    BY Zenon
  <1> HIDE DEF id, old, new
  <1>3. /\ new[id].claims = old[id].claims - 1 /\ (new[id].held <=> old[id].held)
        /\ old[id].held \/ old[id].claims - 1 # 0 => new[id].order = old[id].order
        /\ old[id].claims - 1 = 0 /\ ~old[id].held => new[id] = NoEntry
        /\ \A j \in SessionIds : j # id => new[j] = old[j]
    BY <1>1, <1>2, ReleaseFacts, Zenon
  <1>4. \A j \in SessionIds :
          /\ old[j].claims = 0 /\ ~old[j].held => old[j] = NoEntry
          /\ old[j].held => old[j].order \in s.working /\ s.name[old[j].order] = j
    BY Zenon DEF IndexOK, old
  <1>5. ASSUME NEW j \in SessionIds
        PROVE  /\ new[j].claims # old[j].claims => j = id
               /\ new[j].claims = 0 /\ ~new[j].held => new[j] = NoEntry
               /\ new[j].held => new[j].order \in s.working /\ s.name[new[j].order] = j
    <2>1. CASE j = id
      BY <1>3, <1>4, <2>1, Zenon
    <2>2. CASE j # id
      BY <1>3, <1>4, <2>2, Zenon
    <2> QED
      BY <2>1, <2>2, Zenon
  <1>6. ASSUME NEW n \in s.working PROVE new[s.name[n]].held /\ new[s.name[n]].order = n
    <2>1. old[s.name[n]].held /\ old[s.name[n]].order = n /\ s.name[n] \in SessionIds
      BY IndexFacts, Zenon DEF IndexOK, old
    <2>2. CASE s.name[n] = id
      BY <1>3, <2>1, <2>2, Zenon
    <2>3. CASE s.name[n] # id
      BY <1>3, <2>1, <2>3, Zenon
    <2> QED
      BY <2>2, <2>3, Zenon
  <1>7. ASSUME NEW q \in s.requests, q # r PROVE new[q.id].order = q.num
    <2>1. old[q.id].order = q.num /\ q.id \in SessionIds
      BY IndexFacts, Zenon DEF IndexOK, old
    <2>2. CASE q.id = id
      <3>1. old[id].claims - 1 # 0
        BY <1>7, <2>2, ClaimRemains, Zenon DEF id, old
      <3> QED
        BY <1>3, <2>1, <2>2, <3>1, Zenon
    <2>3. CASE q.id # id
      BY <1>3, <2>1, <2>3, Zenon
    <2> QED
      BY <2>2, <2>3, Zenon
  <1>8. t.working \subseteq t.numbers
    BY Zenon DEF IndexOK
  <1>9. /\ t.ids[r.id].claims = s.ids[r.id].claims - 1
        /\ \A j \in SessionIds : t.ids[j].claims # s.ids[j].claims => j = r.id
        /\ \A j \in SessionIds :
              /\ t.ids[j].claims = 0 /\ ~t.ids[j].held => t.ids[j] = NoEntry
              /\ t.ids[j].held => t.ids[j].order \in t.working /\ t.name[t.ids[j].order] = j
        /\ \A n \in t.working : t.ids[t.name[n]].held /\ t.ids[t.name[n]].order = n
        /\ \A q \in s.requests : q # r => t.ids[q.id].order = q.num
    <2>1. /\ t.ids[r.id].claims = s.ids[r.id].claims - 1
          /\ \A j \in SessionIds : t.ids[j].claims # s.ids[j].claims => j = r.id
          /\ \A q \in s.requests : q # r => t.ids[q.id].order = q.num
      BY <1>3, <1>5, <1>7, Zenon DEF id, old, new
    <2>2. \A n : n \in t.working <=> n \in s.working
      BY Zenon
    <2>3. \A n : t.name[n] = s.name[n]
      BY Zenon
    <2>4. ASSUME NEW j \in SessionIds
          PROVE  /\ t.ids[j].claims = 0 /\ ~t.ids[j].held => t.ids[j] = NoEntry
                 /\ t.ids[j].held => t.ids[j].order \in t.working /\ t.name[t.ids[j].order] = j
      BY <1>5, <2>2, <2>3, Zenon DEF new
    <2>5. ASSUME NEW n \in t.working
          PROVE  t.ids[t.name[n]].held /\ t.ids[t.name[n]].order = n
      <3>1. new[s.name[n]].held /\ new[s.name[n]].order = n
        BY <1>6, <2>2, Zenon
      <3> QED
        BY <2>3, <3>1, Zenon DEF new
    <2> QED
      BY <2>1, <2>4, <2>5, Zenon
  <1> QED
    <2>1. AnswerFits(s, r, t)
      BY <1>8, <1>9, Zenon DEF AnswerFits
    <2> QED
      BY <2>1, AnsweredOK, Zenon

\* The exchange accepts a new order: the order that its number is given to holds its name.
LEMMA AcceptedNewOK ==
    ASSUME NEW s, IndexOK(s), NEW r \in s.requests, r.num = 0, NEW num \in OrderNums, num \notin s.numbers,
           NEW t \in Sessions,
           t.requests = s.requests \ {r}, t.serial = s.serial,
           t.ids = Release(Assign(s.ids, r.id, num), r.id),
           t.working = s.working \cup {num}, t.numbers = s.numbers \cup {num},
           t.name = [s.name EXCEPT ![num] = r.id]
    PROVE  IndexOK(t)
  <1> DEFINE id == r.id
             old == s.ids
             mid == Assign(old, id, num)
             new == t.ids
             W == t.working
             N == t.name
  <1>1. old[id].claims # 0 /\ old[id].claims \in Nat /\ id \in SessionIds /\ old \in Index /\ num \in Nat
    BY ClaimCounts, IndexFacts, SessionAssumption, ZenonT(40)
  <1>2. new = Release(mid, id)
    BY Zenon
  <1>3. \A n : n \in W <=> n \in s.working \/ n = num
    BY Zenon
  <1>4. N[num] = id /\ \A n \in s.working : n # num /\ N[n] = s.name[n]
    <2>1. s.name \in [OrderNums -> SessionIds] /\ s.working \subseteq OrderNums /\ s.working \subseteq s.numbers
      BY IndexFacts, Zenon DEF IndexOK
    <2> QED
      BY <2>1, Zenon
  <1>5. t.working \subseteq t.numbers
    BY Zenon DEF IndexOK
  <1> HIDE DEF id, old, mid, new, W, N
  <1>6. /\ mid \in Index /\ mid[id].order = num /\ mid[id].claims = old[id].claims /\ mid[id].held
        /\ \A j \in SessionIds : j # id => mid[j] = old[j]
    <2> DEFINE a == Assign(old, id, num)
    <2>1. /\ a \in Index /\ a[id].order = num /\ a[id].claims = old[id].claims /\ a[id].held
          /\ \A j \in SessionIds : j # id => a[j] = old[j]
      BY <1>1, AssignFacts
    <2>2. mid = a
      BY Zenon DEF mid
    <2> HIDE DEF a
    <2> QED
      BY <2>1, <2>2, Zenon
  <1>7. /\ new[id].claims = mid[id].claims - 1 /\ (new[id].held <=> mid[id].held)
        /\ mid[id].held \/ mid[id].claims - 1 # 0 => new[id].order = mid[id].order
        /\ \A j \in SessionIds : j # id => new[j] = mid[j]
    <2>1. mid[id].claims # 0
      BY <1>1, <1>6, Zenon
    <2>2. mid \in Index
      BY <1>6, Zenon
    <2> QED
      BY <1>1, <1>2, <2>1, <2>2, ReleaseFacts
  <1>8. /\ new[id].claims = old[id].claims - 1 /\ new[id].held /\ new[id].order = num
        /\ \A j \in SessionIds : j # id => new[j] = old[j]
    BY <1>6, <1>7, Zenon
  <1>9. \A j \in SessionIds :
          /\ old[j].claims = 0 /\ ~old[j].held => old[j] = NoEntry
          /\ old[j].held => old[j].order \in s.working /\ s.name[old[j].order] = j
    BY Zenon DEF IndexOK, old
  <1>10. ~old[id].held
    <2>1. old[id].order = 0
      BY Zenon DEF IndexOK, old, id
    <2>2. 0 \notin s.working
      BY IndexFacts, Zenon
    <2> QED
      BY <1>1, <1>9, <2>1, <2>2, ZenonT(40)
  <1>11. ASSUME NEW j \in SessionIds
         PROVE  /\ new[j].claims # old[j].claims => j = id
                /\ new[j].claims = 0 /\ ~new[j].held => new[j] = NoEntry
                /\ new[j].held => new[j].order \in W /\ N[new[j].order] = j
    <2>1. CASE j = id
      BY <1>3, <1>4, <1>8, <2>1, Zenon
    <2>2. CASE j # id
      <3>1. new[j] = old[j]
        BY <1>8, <2>2, Zenon
      <3>2. old[j].held => old[j].order \in W /\ N[old[j].order] = j
        BY <1>3, <1>4, <1>9, Zenon
      <3> QED
        BY <1>9, <3>1, <3>2, Zenon
    <2> QED
      BY <2>1, <2>2, Zenon
  <1>12. ASSUME NEW n \in W PROVE new[N[n]].held /\ new[N[n]].order = n
    <2>1. CASE n = num
      BY <1>4, <1>8, <2>1, Zenon
    <2>2. CASE n \in s.working
      <3>1. old[s.name[n]].held /\ old[s.name[n]].order = n /\ s.name[n] \in SessionIds
        <4>1. s.name[n] \in SessionIds
          BY <2>2, IndexFacts, Zenon
        <4> QED
          BY <2>2, <4>1, Zenon DEF IndexOK, old
      <3>2. s.name[n] # id
        BY <1>10, <3>1, Zenon
      <3>3. new[s.name[n]] = old[s.name[n]] /\ N[n] = s.name[n]
        BY <1>4, <1>8, <2>2, <3>1, <3>2, Zenon
      <3> QED
        BY <3>1, <3>3, Zenon
    <2> QED
      BY <1>3, <2>1, <2>2, Zenon
  <1>13. ASSUME NEW q \in s.requests, q # r PROVE new[q.id].order = q.num
    <2>1. old[q.id].order = q.num /\ q.id \in SessionIds
      BY IndexFacts, Zenon DEF IndexOK, old
    <2>2. q.id # id
      BY <1>13, Zenon DEF IndexOK, id
    <2> QED
      BY <1>8, <2>1, <2>2, Zenon
  <1>14. /\ t.ids[r.id].claims = s.ids[r.id].claims - 1
         /\ \A j \in SessionIds : t.ids[j].claims # s.ids[j].claims => j = r.id
         /\ \A j \in SessionIds :
               /\ t.ids[j].claims = 0 /\ ~t.ids[j].held => t.ids[j] = NoEntry
               /\ t.ids[j].held => t.ids[j].order \in t.working /\ t.name[t.ids[j].order] = j
         /\ \A n \in t.working : t.ids[t.name[n]].held /\ t.ids[t.name[n]].order = n
         /\ \A q \in s.requests : q # r => t.ids[q.id].order = q.num
    <2>1. /\ t.ids[r.id].claims = s.ids[r.id].claims - 1
          /\ \A q \in s.requests : q # r => t.ids[q.id].order = q.num
      BY <1>8, <1>13, Zenon DEF id, old, new
    <2>2. \A j \in SessionIds : t.ids[j].claims # s.ids[j].claims => j = r.id
      BY <1>11, Zenon DEF id, old, new
    <2>3. \A j \in SessionIds :
             /\ t.ids[j].claims = 0 /\ ~t.ids[j].held => t.ids[j] = NoEntry
             /\ t.ids[j].held => t.ids[j].order \in t.working /\ t.name[t.ids[j].order] = j
      BY <1>11, Zenon DEF new, W, N
    <2>4. \A n \in t.working : t.ids[t.name[n]].held /\ t.ids[t.name[n]].order = n
      BY <1>12, Zenon DEF new, W, N
    <2> QED
      BY <2>1, <2>2, <2>3, <2>4, Zenon
  <1> QED
    <2>1. AnswerFits(s, r, t)
      BY <1>5, <1>14, Zenon DEF AnswerFits
    <2> QED
      BY <2>1, AnsweredOK, Zenon

\* The exchange accepts a replace: the order gives up the name it had and holds the new one.
LEMMA ReplacedOK ==
    ASSUME NEW s, IndexOK(s), NEW r \in s.requests, r.num \in s.working, NEW t \in Sessions,
           t.requests = s.requests \ {r}, t.serial = s.serial,
           t.ids = Release(Rename(s.ids, s.name[r.num], r.id, r.num), r.id),
           t.working = s.working, t.numbers = s.numbers,
           t.name = [s.name EXCEPT ![r.num] = r.id]
    PROVE  IndexOK(t)
  <1> DEFINE id == r.id
             num == r.num
             from == s.name[num]
             old == s.ids
             gone == Forget(old, from, num)
             mid == Assign(gone, id, num)
             new == t.ids
             W == t.working
             N == t.name
  <1>1. /\ old[id].claims # 0 /\ old[id].claims \in Nat /\ id \in SessionIds /\ old \in Index
        /\ num \in Nat /\ num \in s.working /\ from \in SessionIds
    BY ClaimCounts, IndexFacts, ZenonT(40)
  <1>2. old[from].held /\ old[from].order = num /\ old[id].order = num
    BY Zenon DEF IndexOK
  <1>3. new = Release(mid, id)
    BY Zenon DEF Rename
  <1>4. \A n : n \in W <=> n \in s.working
    BY Zenon
  <1>5. N[num] = id /\ \A n \in s.working : n # num => N[n] = s.name[n]
    <2>1. s.name \in [OrderNums -> SessionIds] /\ s.working \subseteq OrderNums
      BY IndexFacts, Zenon
    <2> QED
      BY <1>1, <2>1, Zenon
  <1>6. t.working \subseteq t.numbers
    BY Zenon DEF IndexOK
  <1> HIDE DEF id, num, from, old, gone, mid, new, W, N
  <1>7. /\ gone \in Index /\ gone[from].claims = old[from].claims /\ ~gone[from].held
        /\ old[from].claims # 0 => gone[from].order = num
        /\ old[from].claims = 0 => gone[from] = NoEntry
        /\ \A j \in SessionIds : j # from => gone[j] = old[j]
    <2> DEFINE f == Forget(old, from, num)
    <2>1. /\ f \in Index /\ f[from].claims = old[from].claims /\ ~f[from].held
          /\ old[from].claims # 0 => f[from].order = num
          /\ old[from].claims = 0 => f[from] = NoEntry
          /\ \A j \in SessionIds : j # from => f[j] = old[j]
      BY <1>1, <1>2, ForgetFacts
    <2>2. gone = f
      BY Zenon DEF gone
    <2> HIDE DEF f
    <2> QED
      BY <2>1, <2>2, Zenon
  <1>8. gone[id].claims = old[id].claims
    BY <1>1, <1>7, Zenon
  <1>9. /\ mid \in Index /\ mid[id].order = num /\ mid[id].claims = gone[id].claims /\ mid[id].held
        /\ \A j \in SessionIds : j # id => mid[j] = gone[j]
    <2> DEFINE a == Assign(gone, id, num)
    <2>1. /\ a \in Index /\ a[id].order = num /\ a[id].claims = gone[id].claims /\ a[id].held
          /\ \A j \in SessionIds : j # id => a[j] = gone[j]
      <3>1. gone \in Index
        BY <1>7, Zenon
      <3>2. id \in SessionIds /\ num \in Nat
        BY <1>1, Zenon
      <3> QED
        BY <3>1, <3>2, AssignFacts
    <2>2. mid = a
      BY Zenon DEF mid
    <2> HIDE DEF a
    <2> QED
      BY <2>1, <2>2, Zenon
  <1>10. /\ new[id].claims = mid[id].claims - 1 /\ (new[id].held <=> mid[id].held)
         /\ mid[id].held \/ mid[id].claims - 1 # 0 => new[id].order = mid[id].order
         /\ \A j \in SessionIds : j # id => new[j] = mid[j]
    <2>1. mid[id].claims # 0
      BY <1>1, <1>8, <1>9, Zenon
    <2>2. mid \in Index
      BY <1>9, Zenon
    <2> QED
      BY <1>1, <1>3, <2>1, <2>2, ReleaseFacts, ZenonT(40)
  <1>11. /\ new[id].claims = old[id].claims - 1 /\ new[id].held /\ new[id].order = num
         /\ from # id => new[from] = gone[from]
         /\ \A j \in SessionIds : j # id /\ j # from => new[j] = old[j]
    BY <1>1, <1>7, <1>8, <1>9, <1>10, ZenonT(40)
  <1>12. \A j \in SessionIds :
          /\ old[j].claims = 0 /\ ~old[j].held => old[j] = NoEntry
          /\ old[j].held => old[j].order \in s.working /\ s.name[old[j].order] = j
    BY Zenon DEF IndexOK, old
  <1>13. ASSUME NEW j \in SessionIds
         PROVE  /\ new[j].claims # old[j].claims => j = id
                /\ new[j].claims = 0 /\ ~new[j].held => new[j] = NoEntry
                /\ new[j].held => new[j].order \in W /\ N[new[j].order] = j
    <2>1. CASE j = id
      BY <1>1, <1>4, <1>5, <1>11, <2>1, Zenon
    <2>2. CASE j # id /\ j = from
      BY <1>7, <1>11, <2>2, Zenon
    <2>3. CASE j # id /\ j # from
      <3>1. new[j] = old[j]
        BY <1>11, <2>3, Zenon
      <3>2. old[j].held => old[j].order # num
        BY <1>12, <2>3, Zenon DEF from
      <3>3. old[j].held => old[j].order \in W /\ N[old[j].order] = j
        BY <1>4, <1>5, <1>12, <3>2, Zenon
      <3> QED
        BY <1>12, <3>1, <3>3, Zenon
    <2> QED
      BY <2>1, <2>2, <2>3, Zenon
  <1>14. ASSUME NEW n \in W PROVE new[N[n]].held /\ new[N[n]].order = n
    <2>1. CASE n = num
      BY <1>5, <1>11, <2>1, Zenon
    <2>2. CASE n # num
      <3>1. n \in s.working
        BY <1>4, Zenon
      <3>2. old[s.name[n]].held /\ old[s.name[n]].order = n /\ s.name[n] \in SessionIds
        BY <3>1, IndexFacts, Zenon DEF IndexOK, old
      <3>3. s.name[n] # id /\ s.name[n] # from
        BY <1>2, <2>2, <3>2, Zenon
      <3> QED
        BY <1>5, <1>11, <2>2, <3>1, <3>2, <3>3, ZenonT(40)
    <2> QED
      BY <2>1, <2>2, Zenon
  <1>15. ASSUME NEW q \in s.requests, q # r PROVE new[q.id].order = q.num
    <2>1. old[q.id].order = q.num /\ q.id \in SessionIds /\ old[q.id].claims # 0
      <3>1. old[q.id].order = q.num
        BY Zenon DEF IndexOK, old
      <3>2. q.id \in SessionIds /\ old[q.id].claims # 0
        BY ClaimCounts, Zenon DEF old
      <3> QED
        BY <3>1, <3>2, Zenon
    <2>2. CASE q.id = id
      BY <1>2, <1>11, <2>1, <2>2, Zenon
    <2>3. CASE q.id # id /\ q.id = from
      BY <1>2, <1>7, <1>11, <2>1, <2>3, Zenon
    <2>4. CASE q.id # id /\ q.id # from
      BY <1>11, <2>1, <2>4, Zenon
    <2> QED
      BY <2>2, <2>3, <2>4, Zenon
  <1>16. /\ t.ids[r.id].claims = s.ids[r.id].claims - 1
         /\ \A j \in SessionIds : t.ids[j].claims # s.ids[j].claims => j = r.id
         /\ \A j \in SessionIds :
               /\ t.ids[j].claims = 0 /\ ~t.ids[j].held => t.ids[j] = NoEntry
               /\ t.ids[j].held => t.ids[j].order \in t.working /\ t.name[t.ids[j].order] = j
         /\ \A n \in t.working : t.ids[t.name[n]].held /\ t.ids[t.name[n]].order = n
         /\ \A q \in s.requests : q # r => t.ids[q.id].order = q.num
    <2>1. /\ t.ids[r.id].claims = s.ids[r.id].claims - 1
          /\ \A q \in s.requests : q # r => t.ids[q.id].order = q.num
      BY <1>11, <1>15, Zenon DEF id, old, new
    <2>2. \A j \in SessionIds : t.ids[j].claims # s.ids[j].claims => j = r.id
      BY <1>13, Zenon DEF id, old, new
    <2>3. \A j \in SessionIds :
             /\ t.ids[j].claims = 0 /\ ~t.ids[j].held => t.ids[j] = NoEntry
             /\ t.ids[j].held => t.ids[j].order \in t.working /\ t.name[t.ids[j].order] = j
      BY <1>13, Zenon DEF new, W, N
    <2>4. \A n \in t.working : t.ids[t.name[n]].held /\ t.ids[t.name[n]].order = n
      BY <1>14, Zenon DEF new, W, N
    <2> QED
      BY <2>1, <2>2, <2>3, <2>4, Zenon
  <1> QED
    <2>1. AnswerFits(s, r, t)
      BY <1>6, <1>16, Zenon DEF AnswerFits
    <2> QED
      BY <2>1, AnsweredOK, Zenon

\* An order is done: its name goes, unless a request in flight has named it.
LEMMA DoneOK ==
    ASSUME NEW s, IndexOK(s), NEW num \in s.working, NEW t \in Sessions,
           t.requests = s.requests, t.serial = s.serial, t.ids = Forget(s.ids, s.name[num], num),
           t.working = s.working \ {num}, t.numbers = s.numbers, t.name = s.name
    PROVE  IndexOK(t)
  <1> DEFINE from == s.name[num]
             old == s.ids
             new == t.ids
  <1>1. old \in Index /\ from \in SessionIds /\ old[from].held /\ old[from].order = num
    BY IndexFacts, Zenon DEF IndexOK
  <1>2. new = Forget(old, from, num)
    BY Zenon
  <1> HIDE DEF from, old, new
  <1>3. /\ new[from].claims = old[from].claims /\ ~new[from].held
        /\ old[from].claims # 0 => new[from].order = num
        /\ old[from].claims = 0 => new[from] = NoEntry
        /\ \A j \in SessionIds : j # from => new[j] = old[j]
    BY <1>1, <1>2, ForgetFacts
  <1>4. \A j \in SessionIds :
          /\ old[j].claims = Cardinality(Naming(s.requests, j))
          /\ old[j].claims = 0 /\ ~old[j].held => old[j] = NoEntry
          /\ old[j].held => old[j].order \in s.working /\ s.name[old[j].order] = j
    BY Zenon DEF IndexOK, old
  <1>5. ASSUME NEW j \in SessionIds
        PROVE  /\ new[j].claims = Cardinality(Naming(s.requests, j))
               /\ new[j].claims = 0 /\ ~new[j].held => new[j] = NoEntry
               /\ new[j].held => /\ new[j].order \in s.working /\ new[j].order # num
                                 /\ s.name[new[j].order] = j
    <2>1. CASE j = from
      BY <1>3, <1>4, <2>1, Zenon
    <2>2. CASE j # from
      <3>1. new[j] = old[j]
        BY <1>3, <2>2, Zenon
      <3>2. old[j].held => old[j].order # num
        BY <1>4, <2>2, Zenon DEF from
      <3> QED
        BY <1>4, <3>1, <3>2, Zenon
    <2> QED
      BY <2>1, <2>2, Zenon
  <1>6. ASSUME NEW n \in s.working, n # num PROVE new[s.name[n]].held /\ new[s.name[n]].order = n
    <2>1. s.name[n] \in SessionIds
      BY IndexFacts, Zenon
    <2>2. old[s.name[n]].held /\ old[s.name[n]].order = n
      BY Zenon DEF IndexOK, old
    <2>3. s.name[n] # from
      BY <1>1, <1>6, <2>2, Zenon
    <2>4. new[s.name[n]] = old[s.name[n]]
      BY <1>3, <2>1, <2>3, Zenon
    <2> QED
      BY <2>2, <2>4, Zenon
  <1>7. ASSUME NEW r \in s.requests PROVE new[r.id].order = r.num
    <2>1. old[r.id].order = r.num
      BY Zenon DEF IndexOK, old
    <2>2. r.id \in SessionIds /\ old[r.id].claims # 0
      BY ClaimCounts, Zenon DEF old
    <2>3. CASE r.id = from
      BY <1>1, <1>3, <2>1, <2>2, <2>3, Zenon
    <2>4. CASE r.id # from
      BY <1>3, <2>1, <2>2, <2>4, Zenon
    <2> QED
      BY <2>3, <2>4, Zenon
  <1>8. /\ IsFiniteSet(t.requests) /\ t.working \subseteq t.numbers
        /\ \A r \in t.requests : r.serial < t.serial
        /\ \A r \in t.requests : r.num = 0 => \A q \in t.requests : q.id = r.id => q = r
    BY Zenon DEF IndexOK
  <1>9. \A r \in t.requests : t.ids[r.id].order = r.num
    BY <1>7, Zenon DEF new
  <1>10. \A n : n \in t.working <=> n \in s.working /\ n # num
    BY Zenon
  <1>11. \A n : t.name[n] = s.name[n]
    BY Zenon
  <1>12. ASSUME NEW j \in SessionIds
         PROVE  /\ t.ids[j].claims = Cardinality(Naming(t.requests, j))
                /\ t.ids[j].claims = 0 /\ ~t.ids[j].held => t.ids[j] = NoEntry
                /\ t.ids[j].held => t.ids[j].order \in t.working /\ t.name[t.ids[j].order] = j
    <2>1. t.ids[j].claims = Cardinality(Naming(t.requests, j))
      BY <1>5, Zenon DEF new
    <2> QED
      BY <1>5, <1>10, <1>11, <2>1, Zenon DEF new
  <1>13. ASSUME NEW n \in t.working PROVE t.ids[t.name[n]].held /\ t.ids[t.name[n]].order = n
    <2>1. new[s.name[n]].held /\ new[s.name[n]].order = n
      BY <1>6, <1>10, Zenon
    <2> QED
      BY <1>11, <2>1, Zenon DEF new
  <1> QED
    BY <1>8, <1>9, <1>12, <1>13, Zenon DEF IndexOK

NamesOK == part = "cl_ord_ids" => IndexOK(session)

\* A session starts with no names.
LEMMA NamesStart == Init => NamesOK
  <1> SUFFICES ASSUME Init, part = "cl_ord_ids" PROVE IndexOK(session)
    BY Zenon DEF NamesOK
  <1>1. SessionInit
    BY Zenon DEF Init
  <1> DEFINE ids == [id \in SessionIds |-> NoEntry]
             name == [num \in OrderNums |-> CHOOSE id \in SessionIds : TRUE]
  <1>2. ids \in Index /\ \A id \in SessionIds : ids[id] = NoEntry
    BY NoEntryFacts, Zenon DEF Index
  <1>3. name \in [OrderNums -> SessionIds]
    <2>1. (CHOOSE id \in SessionIds : TRUE) \in SessionIds
      BY SessionAssumption, Zenon
    <2> QED
      BY <2>1, Zenon
  <1>4. session = [ids |-> ids, requests |-> {}, serial |-> 0, working |-> {}, numbers |-> {}, name |-> name]
    BY <1>1, Zenon DEF SessionInit
  <1> HIDE DEF ids, name
  <1>5. /\ session \in Sessions /\ session.ids = ids /\ session.requests = {} /\ session.working = {}
        /\ session.numbers = {}
    BY <1>2, <1>3, <1>4, Zenon DEF Sessions
  <1>6. IsFiniteSet(session.requests)
    BY <1>5, FS_EmptySet, Zenon
  <1>7. ASSUME NEW id \in SessionIds PROVE Cardinality(Naming(session.requests, id)) = 0
    <2>1. \A r \in session.requests : r.id # id
      BY <1>5, Zenon
    <2> QED
      BY <1>6, <2>1, NamingFacts, Zenon
  <1>8. \A id \in SessionIds :
          /\ session.ids[id] = NoEntry /\ session.ids[id].claims = 0 /\ ~session.ids[id].held
    BY <1>2, <1>5, NoEntryFacts, Zenon
  <1> QED
    BY <1>5, <1>6, <1>7, <1>8, Zenon DEF IndexOK

\* Whatever the session asks and the exchange answers, the index stays exact.
LEMMA NamesStep == NamesOK /\ [Next]_blockVars => NamesOK'
  <1> SUFFICES ASSUME NamesOK, [Next]_blockVars, part' = "cl_ord_ids"
               PROVE  IndexOK(session')
    BY Zenon DEF NamesOK, IndexOK, Sessions, Naming
  <1>1. part' = part
    BY Zenon DEF Next, blockVars
  <1>2. IndexOK(session)
    BY <1>1, Zenon DEF NamesOK
  <1>3. CASE UNCHANGED session
    BY <1>2, <1>3, Zenon
  <1>4. /\ session \in Sessions /\ session.ids \in Index /\ session.requests \subseteq Request
        /\ session.serial \in Nat /\ session.name \in [OrderNums -> SessionIds]
        /\ session.working \subseteq OrderNums /\ session.numbers \subseteq OrderNums
    BY <1>2, IndexFacts, Zenon DEF IndexOK
  <1>5. ASSUME NEW id \in SessionIds, NEW num \in {0} \cup session.working, Ask(id, num)
        PROVE  IndexOK(session')
    <2> DEFINE q == [serial |-> session.serial, id |-> id, num |-> num]
               ids == Claim(session.ids, id, num)
               R == session.requests \cup {q}
    <2>1. CanClaim(session.ids, id, num)
      BY <1>5, Zenon DEF Ask
    <2>2. session' = [session EXCEPT !.ids = ids, !.serial = session.serial + 1, !.requests = R]
      BY <1>5, Zenon DEF Ask
    <2>3. num \in Nat /\ 0 \in Nat
      BY <1>2, IndexFacts
    <2>4. ids \in Index
      BY <1>4, <2>1, <2>3, ClaimFacts, Zenon
    <2>5. R \subseteq Request
      <3>1. q \in Request
        BY <1>4, <2>3, Zenon DEF Request
      <3> HIDE DEF q
      <3> QED
        BY <1>4, <3>1, Zenon
    <2>6. q = [serial |-> session.serial, id |-> id, num |-> num]
      BY Zenon
    <2>7. R = session.requests \cup {q} /\ ids = Claim(session.ids, id, num) /\ session.serial + 1 \in Nat
      BY <1>4
    <2> HIDE DEF q, ids, R
    <2>8. /\ session' \in Sessions
          /\ session'.ids = ids /\ session'.requests = R /\ session'.serial = session.serial + 1
          /\ session'.working = session.working /\ session'.numbers = session.numbers
          /\ session'.name = session.name
      BY <1>4, <2>2, <2>4, <2>5, <2>7, Zenon DEF Sessions
    <2> QED
      BY <1>2, <2>1, <2>6, <2>7, <2>8, AskedOK, Zenon
  <1>6. ASSUME NEW r \in session.requests, Reject(r)
        PROVE  IndexOK(session')
    <2> DEFINE ids == Release(session.ids, r.id)
               R == session.requests \ {r}
    <2>1. session' = [session EXCEPT !.requests = R, !.ids = ids]
      BY <1>6, Zenon DEF Reject, Answered
    <2>2. ids \in Index
      <3>1. session.ids[r.id].claims # 0 /\ r.id \in SessionIds
        BY <1>2, ClaimCounts, Zenon
      <3> QED
        BY <1>4, <3>1, ReleaseFacts, Zenon
    <2>3. R \subseteq Request
      BY <1>4, Zenon
    <2>4. R = session.requests \ {r} /\ ids = Release(session.ids, r.id)
      BY Zenon
    <2> HIDE DEF ids, R
    <2>5. /\ session' \in Sessions
          /\ session'.ids = ids /\ session'.requests = R /\ session'.serial = session.serial
          /\ session'.working = session.working /\ session'.numbers = session.numbers
          /\ session'.name = session.name
      BY <1>4, <2>1, <2>2, <2>3, Zenon DEF Sessions
    <2> QED
      BY <1>2, <2>4, <2>5, RejectedOK, Zenon
  <1>7. ASSUME NEW r \in session.requests, NEW num \in OrderNums, AcceptNew(r, num)
        PROVE  IndexOK(session')
    <2> DEFINE mid == Assign(session.ids, r.id, num)
               ids == Release(mid, r.id)
               R == session.requests \ {r}
               W == session.working \cup {num}
               M == session.numbers \cup {num}
               N == [session.name EXCEPT ![num] = r.id]
    <2>1. r.num = 0 /\ num \notin session.numbers
      BY <1>7, Zenon DEF AcceptNew
    <2>2. session' = [session EXCEPT !.requests = R, !.ids = ids, !.name = N, !.working = W, !.numbers = M]
      BY <1>4, <1>7, Zenon DEF AcceptNew, Answered, Sessions
    <2>3. r.id \in SessionIds /\ session.ids[r.id].claims # 0 /\ num \in Nat
      BY <1>2, ClaimCounts, SessionAssumption, Zenon
    <2>4. mid \in Index /\ mid[r.id].claims = session.ids[r.id].claims
      <3> DEFINE old == session.ids
                 id == r.id
      <3>1. old \in Index /\ id \in SessionIds /\ num \in Nat
        BY <1>4, <2>3, Zenon
      <3>2. mid = Assign(old, id, num)
        BY Zenon
      <3> HIDE DEF old, id, mid
      <3>3. mid \in Index /\ mid[id].claims = old[id].claims
        BY <3>1, <3>2, AssignFacts
      <3> QED
        BY <3>3, Zenon DEF old, id
    <2>5. R = session.requests \ {r} /\ ids = Release(Assign(session.ids, r.id, num), r.id)
          /\ W = session.working \cup {num} /\ M = session.numbers \cup {num}
          /\ N = [session.name EXCEPT ![num] = r.id]
      BY Zenon
    <2>6. R \subseteq Request /\ W \subseteq OrderNums /\ M \subseteq OrderNums
      BY <1>4, Zenon
    <2>7. N \in [OrderNums -> SessionIds]
      BY <1>4, <2>3, Zenon
    <2> HIDE DEF mid, R, W, M, N
    <2>8. ids \in Index
      BY <2>3, <2>4, ReleaseFacts, Zenon
    <2> HIDE DEF ids
    <2>9. /\ session' \in Sessions
          /\ session'.ids = ids /\ session'.requests = R /\ session'.serial = session.serial
          /\ session'.working = W /\ session'.numbers = M /\ session'.name = N
      BY <1>4, <2>2, <2>6, <2>7, <2>8, Zenon DEF Sessions
    <2> QED
      BY <1>2, <2>1, <2>5, <2>9, AcceptedNewOK, ZenonT(40)
  <1>8. ASSUME NEW r \in session.requests, AcceptReplace(r)
        PROVE  IndexOK(session')
    <2> DEFINE gone == Forget(session.ids, session.name[r.num], r.num)
               mid == Assign(gone, r.id, r.num)
               ids == Release(mid, r.id)
               R == session.requests \ {r}
               N == [session.name EXCEPT ![r.num] = r.id]
    <2>1. r.num \in session.working
      BY <1>8, Zenon DEF AcceptReplace
    <2>2. session' = [session EXCEPT !.requests = R, !.ids = ids, !.name = N]
      BY <1>4, <1>8, Zenon DEF AcceptReplace, Answered, Rename, Sessions
    <2>3. /\ r.id \in SessionIds /\ session.ids[r.id].claims # 0 /\ r.num \in Nat
          /\ session.name[r.num] \in SessionIds
      BY <1>2, <2>1, ClaimCounts, IndexFacts, Zenon
    <2>4. session.ids[session.name[r.num]].held /\ session.ids[session.name[r.num]].order = r.num
      BY <1>2, <2>1, Zenon DEF IndexOK
    <2>5. gone \in Index /\ gone[r.id].claims = session.ids[r.id].claims
      <3> DEFINE from == session.name[r.num]
      <3>1. /\ gone \in Index /\ gone[from].claims = session.ids[from].claims
            /\ \A j \in SessionIds : j # from => gone[j] = session.ids[j]
        <4>1. gone = Forget(session.ids, from, r.num)
          BY Zenon
        <4>2. /\ session.ids \in Index /\ from \in SessionIds
              /\ session.ids[from].order = r.num /\ session.ids[from].held
          BY <1>4, <2>3, <2>4, Zenon
        <4> HIDE DEF gone, from
        <4> QED
          BY <4>1, <4>2, ForgetFacts
      <3> HIDE DEF gone, from
      <3>2. r.id = from \/ r.id # from
        BY Zenon
      <3> QED
        BY <2>3, <3>1, <3>2, Zenon
    <2>6. R = session.requests \ {r} /\ N = [session.name EXCEPT ![r.num] = r.id]
          /\ ids = Release(Rename(session.ids, session.name[r.num], r.id, r.num), r.id)
      BY Zenon DEF Rename
    <2>7. R \subseteq Request /\ N \in [OrderNums -> SessionIds]
      BY <1>4, <2>3, Zenon
    <2> HIDE DEF gone, R, N
    <2>8. mid \in Index /\ mid[r.id].claims = gone[r.id].claims
      BY <2>3, <2>5, AssignFacts, Zenon
    <2> HIDE DEF mid
    <2>9. ids \in Index
      BY <2>3, <2>5, <2>8, ReleaseFacts, Zenon
    <2> HIDE DEF ids
    <2>10. /\ session' \in Sessions
           /\ session'.ids = ids /\ session'.requests = R /\ session'.serial = session.serial
           /\ session'.working = session.working /\ session'.numbers = session.numbers
           /\ session'.name = N
      BY <1>4, <2>2, <2>7, <2>9, Zenon DEF Sessions
    <2> QED
      BY <1>2, <2>1, <2>6, <2>10, ReplacedOK, Zenon
  <1>9. ASSUME NEW num \in session.working, Done(num)
        PROVE  IndexOK(session')
    <2> DEFINE ids == Forget(session.ids, session.name[num], num)
               W == session.working \ {num}
    <2>1. session' = [session EXCEPT !.working = W, !.ids = ids]
      BY <1>9, Zenon DEF Done
    <2>2. session.name[num] \in SessionIds
      BY <1>2, IndexFacts, Zenon
    <2>3. session.ids[session.name[num]].held /\ session.ids[session.name[num]].order = num
      BY <1>2, Zenon DEF IndexOK
    <2>4. ids \in Index
      BY <1>4, <2>2, <2>3, ForgetFacts, Zenon
    <2>5. W = session.working \ {num} /\ ids = Forget(session.ids, session.name[num], num)
          /\ W \subseteq OrderNums
      BY <1>4, Zenon
    <2> HIDE DEF ids, W
    <2>6. /\ session' \in Sessions
          /\ session'.ids = ids /\ session'.requests = session.requests /\ session'.serial = session.serial
          /\ session'.working = W /\ session'.numbers = session.numbers /\ session'.name = session.name
      BY <1>4, <2>1, <2>4, <2>5, Zenon DEF Sessions
    <2> QED
      BY <1>2, <2>5, <2>6, DoneOK, Zenon
  <1>10. CASE SessionNext
    BY <1>5, <1>6, <1>7, <1>8, <1>9, <1>10, Zenon DEF SessionNext
  <1> QED
    BY <1>1, <1>3, <1>10, Zenon DEF Next, blockVars

\* ClOrdIdIndex finds a working order by its name, through replaces that share and swap
\* names in flight, and exactly the names of working orders and of unanswered requests are
\* taken (NamesAreExact): for any ids, any orders and any number of requests in flight.
THEOREM NamesStayExact == Spec => []NamesAreExact
  <1>1. ASSUME NamesOK PROVE NamesAreExact
    <2> SUFFICES ASSUME IndexOK(session)
                 PROVE  /\ \A num \in session.working : Find(session.ids, session.name[num]) = num
                        /\ Taken(session.ids) = {session.name[num] : num \in session.working}
                                                  \cup {r.id : r \in session.requests}
      BY <1>1, Zenon DEF NamesOK, NamesAreExact
    <2>1. \A num \in session.working :
             /\ session.name[num] \in SessionIds /\ session.ids[session.name[num]].held
             /\ session.ids[session.name[num]].order = num
      BY IndexFacts, Zenon DEF IndexOK
    <2>2. \A num \in session.working : Find(session.ids, session.name[num]) = num
      BY <2>1, Zenon DEF Find
    <2>3. ASSUME NEW id \in SessionIds, session.ids[id] # NoEntry
          PROVE  \/ \E num \in session.working : id = session.name[num]
                 \/ \E r \in session.requests : id = r.id
      <3>1. CASE session.ids[id].held
        BY <3>1, Zenon DEF IndexOK
      <3>2. CASE session.ids[id].claims # 0
        <4>1. Cardinality(Naming(session.requests, id)) # 0 /\ IsFiniteSet(session.requests)
          BY <3>2, Zenon DEF IndexOK
        <4> QED
          BY <4>1, NamingFacts, Zenon
      <3> QED
        BY <2>3, <3>1, <3>2, Zenon DEF IndexOK
    <2>4. \A num \in session.working : session.ids[session.name[num]] # NoEntry
      BY <2>1, NoEntryFacts, Zenon
    <2>5. \A r \in session.requests : r.id \in SessionIds /\ session.ids[r.id] # NoEntry
      BY ClaimCounts, NoEntryFacts, Zenon
    <2>6. Taken(session.ids) = {session.name[num] : num \in session.working}
                                 \cup {r.id : r \in session.requests}
      <3> SUFFICES ASSUME NEW id
                   PROVE  id \in Taken(session.ids) <=>
                             \/ \E num \in session.working : id = session.name[num]
                             \/ \E r \in session.requests : id = r.id
        BY Zenon
      <3> QED
        BY <2>1, <2>3, <2>4, <2>5, Zenon DEF Taken
    <2> QED
      BY <2>2, <2>6, Zenon
  <1> QED
    BY <1>1, NamesStart, NamesStep, PTL DEF Spec

=============================================================================
