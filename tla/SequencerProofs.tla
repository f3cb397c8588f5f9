-------------------------- MODULE SequencerProofs --------------------------
(***************************************************************************)
(* Machine-checked theorems about the sequencer of the Coinbase adapter    *)
(* (module VenueMirrors), for any venue, any number of events, messages,   *)
(* reconnects and client orders, and any delay below the hold time.        *)
(***************************************************************************)
EXTENDS VenueMirrors, TLAPS

-----------------------------------------------------------------------------
\* The invariant.  What a message says is of no concern, only its time.

Types == {"TRADE", "LEVEL_UPDATE"}

\* No message is delayed for as long as the sequencer holds an event.
Timely == MaxDelay < Hold

\* Messages under way in a channel: younger than the last snapshot and, in time,
\* than the last event dispatched, and not delayed beyond the limit.
UnderWay(channel, dispatched, reset, clock) ==
    /\ \E S : channel \in Seq(S)
    /\ \A i \in 1 .. Len(channel) :
          /\ channel[i].time \in Nat
          /\ (Timely => channel[i].time > dispatched) /\ channel[i].time > reset
          /\ channel[i].time <= clock /\ channel[i].time + MaxDelay >= clock

ChannelsOK ==
    /\ UnderWay(diffs, latest.time, resetTime, now) /\ UnderWay(prints, latest.time, resetTime, now)
    /\ feed = "down" => diffs = <<>> /\ prints = <<>>

ClockOK ==
    /\ now \in Nat /\ lastTime \in Nat /\ resetTime \in Nat /\ latest.time \in Nat
    /\ lastTime <= now /\ resetTime <= now /\ latest.time <= now
    /\ latest.type \in Types

\* Events that wait: older than what was received, and in the venue's order behind the
\* last one dispatched.
PendingOK ==
    \A e \in pending :
        /\ e.time \in Nat /\ e.received \in Nat /\ e.type \in Types
        /\ e.time <= e.received /\ e.received <= now
        /\ e.time > resetTime
        /\ Timely => e.time > latest.time
             \/ (e.time = latest.time /\ (latest.type = "TRADE" \/ e.type = "LEVEL_UPDATE"))

\* Rows that wait in the level batch: of events newer than the last snapshot.
BatchOK == \A l \in DOMAIN buffer : buffer[l].time > resetTime

SequencerInv ==
    /\ adapter = "coinbase" => ClockOK /\ PendingOK /\ ChannelsOK /\ BatchOK
    /\ adapter # "coinbase" => pending = {} /\ buffer = NoRows

-----------------------------------------------------------------------------
\* Channels.

\* A message leaves the front of its channel, or joins the back.
LEMMA TailIsSeq ==
    ASSUME NEW S, NEW s \in Seq(S), s # <<>>
    PROVE  /\ Tail(s) \in Seq(S) /\ Len(Tail(s)) = Len(s) - 1 /\ Len(s) \in Nat \ {0}
           /\ \A k \in 1 .. Len(s) - 1 : Tail(s)[k] = s[k + 1]
           /\ Head(s) = s[1]
  OBVIOUS

\* What appending to a sequence keeps: a message joins its channel behind the older ones.
LEMMA AppendIsSeq ==
    ASSUME NEW S, NEW s \in Seq(S), NEW e
    PROVE  /\ Append(s, e) \in Seq(S \cup {e}) /\ Len(Append(s, e)) = Len(s) + 1 /\ Len(s) \in Nat
           /\ \A k \in 1 .. Len(s) : Append(s, e)[k] = s[k]
           /\ Append(s, e)[Len(s) + 1] = e
  OBVIOUS

\* An empty channel is a sequence.
LEMMA EmptyIsSeq == \A S : <<>> \in Seq(S) /\ Len(<<>>) = 0
  OBVIOUS

\* The later of two times.
LEMMA LatestTime == ASSUME NEW a \in Nat, NEW b \in Nat PROVE Max({a, b}) = IF a >= b THEN a ELSE b
  <1>1. \E x \in {a, b} : \A y \in {a, b} : x >= y
    OBVIOUS
  <1> QED
    BY <1>1 DEF Max

\* A channel that has lost its first message.
LEMMA UnderWayTail ==
    ASSUME NEW c, NEW d \in Nat, NEW r \in Nat, NEW t \in Nat, UnderWay(c, d, r, t), c # <<>>
    PROVE  /\ UnderWay(Tail(c), d, r, t)
           /\ Head(c).time \in Nat /\ (Timely => Head(c).time > d) /\ Head(c).time > r /\ Head(c).time <= t
  <1>1. PICK S : c \in Seq(S)
    BY Zenon DEF UnderWay
  <1>2. /\ Tail(c) \in Seq(S) /\ Len(Tail(c)) = Len(c) - 1 /\ Len(c) \in Nat \ {0}
        /\ \A k \in 1 .. Len(c) - 1 : Tail(c)[k] = c[k + 1]
        /\ Head(c) = c[1]
    BY <1>1, TailIsSeq, Zenon
  <1>3. 1 \in 1 .. Len(c) /\ \A k \in 1 .. Len(c) - 1 : k + 1 \in 1 .. Len(c)
    BY <1>2
  <1>4. \A i \in 1 .. Len(c) :
          /\ c[i].time \in Nat
          /\ (Timely => c[i].time > d) /\ c[i].time > r
          /\ c[i].time <= t /\ c[i].time + MaxDelay >= t
    BY Zenon DEF UnderWay
  <1>5. \A k \in 1 .. Len(Tail(c)) :
          /\ Tail(c)[k].time \in Nat
          /\ (Timely => Tail(c)[k].time > d) /\ Tail(c)[k].time > r
          /\ Tail(c)[k].time <= t /\ Tail(c)[k].time + MaxDelay >= t
    BY <1>2, <1>3, <1>4
  <1> QED
    BY <1>2, <1>3, <1>4, <1>5, Zenon DEF UnderWay

\* The clock moves on by a tick, and no message is overdue.
LEMMA UnderWayTick ==
    ASSUME NEW c, NEW d \in Nat, NEW r \in Nat, NEW t \in Nat, UnderWay(c, d, r, t),
           \A i \in DOMAIN c : c[i].time + MaxDelay > t
    PROVE  UnderWay(c, d, r, t + 1)
  <1>1. PICK S : c \in Seq(S)
    BY Zenon DEF UnderWay
  <1>2. DOMAIN c = 1 .. Len(c) /\ MaxDelay \in Nat
    <2>1. MaxDelay \in Nat
      BY MirrorAssumption, Zenon
    <2> QED
      BY <1>1, <2>1
  <1>3. \A i \in 1 .. Len(c) :
          /\ c[i].time \in Nat
          /\ (Timely => c[i].time > d) /\ c[i].time > r
          /\ c[i].time <= t + 1 /\ c[i].time + MaxDelay >= t + 1
    <2> TAKE i \in 1 .. Len(c)
    <2>1. /\ c[i].time \in Nat /\ (Timely => c[i].time > d) /\ c[i].time > r /\ c[i].time <= t
          /\ c[i].time + MaxDelay > t
      BY <1>2, Zenon DEF UnderWay
    <2> QED
      BY <1>2, <2>1
  <1> QED
    BY <1>1, <1>3, Zenon DEF UnderWay

\* A message is sent.
LEMMA UnderWayAppend ==
    ASSUME NEW c, NEW d \in Nat, NEW r \in Nat, NEW t \in Nat, UnderWay(c, d, r, t), NEW m,
           m.time = t, t > d, t > r
    PROVE  UnderWay(Append(c, m), d, r, t)
  <1>1. PICK S : c \in Seq(S)
    BY Zenon DEF UnderWay
  <1>2. /\ Append(c, m) \in Seq(S \cup {m}) /\ Len(Append(c, m)) = Len(c) + 1 /\ Len(c) \in Nat
        /\ \A k \in 1 .. Len(c) : Append(c, m)[k] = c[k]
        /\ Append(c, m)[Len(c) + 1] = m
    BY <1>1, AppendIsSeq, Zenon
  <1>3. \A i \in 1 .. Len(c) :
          /\ c[i].time \in Nat
          /\ (Timely => c[i].time > d) /\ c[i].time > r
          /\ c[i].time <= t /\ c[i].time + MaxDelay >= t
    BY Zenon DEF UnderWay
  <1>4. \A k \in 1 .. Len(Append(c, m)) : k \in 1 .. Len(c) \/ k = Len(c) + 1
    BY <1>2
  <1>5. \A k \in 1 .. Len(Append(c, m)) :
          /\ Append(c, m)[k].time \in Nat
          /\ (Timely => Append(c, m)[k].time > d) /\ Append(c, m)[k].time > r
          /\ Append(c, m)[k].time <= t /\ Append(c, m)[k].time + MaxDelay >= t
    <2> TAKE k \in 1 .. Len(Append(c, m))
    <2>1. CASE k \in 1 .. Len(c)
      BY <1>2, <1>3, <2>1
    <2>2. CASE k = Len(c) + 1
      BY <1>2, <2>2, MirrorAssumption
    <2> QED
      BY <1>4, <2>1, <2>2
  <1> QED
    BY <1>2, <1>5, Zenon DEF UnderWay

\* An event is dispatched, or the book rebuilt, that is older than every message.
LEMMA UnderWayMoves ==
    ASSUME NEW c, NEW d, NEW r, NEW t, UnderWay(c, d, r, t), NEW e,
           Timely => \A i \in 1 .. Len(c) : c[i].time > e
    PROVE  UnderWay(c, e, r, t)
  BY DEF UnderWay

\* A channel with no message in it satisfies what is said of the messages under way.
LEMMA NothingUnderWay == ASSUME NEW d, NEW r, NEW t PROVE UnderWay(<<>>, d, r, t)
  BY EmptyIsSeq DEF UnderWay

-----------------------------------------------------------------------------
\* The steps of the sequencer.

\* The clock ticks, and the venue may send messages.
LEMMA TickStep ==
    ASSUME ClockOK, PendingOK, ChannelsOK, Tick, UNCHANGED coinbaseVars
    PROVE  ClockOK' /\ PendingOK' /\ ChannelsOK'
  <1>1. /\ pending' = pending /\ lastTime' = lastTime /\ latest' = latest /\ resetTime' = resetTime
    BY Zenon DEF coinbaseVars, sequencer
  <1>2. /\ now' = now + 1 /\ feed' = feed
        /\ \A i \in DOMAIN diffs : diffs[i].time + MaxDelay > now
        /\ \A i \in DOMAIN prints : prints[i].time + MaxDelay > now
    BY Zenon DEF Tick
  <1>3. /\ now \in Nat /\ lastTime \in Nat /\ resetTime \in Nat /\ latest.time \in Nat
        /\ lastTime <= now /\ resetTime <= now /\ latest.time <= now /\ latest.type \in Types
    BY Zenon DEF ClockOK
  <1>4. ClockOK'
    BY <1>1, <1>2, <1>3 DEF ClockOK
  <1>5. PendingOK'
    BY <1>1, <1>2, <1>3 DEF PendingOK
  <1>6. /\ UnderWay(diffs, latest.time, resetTime, now + 1)
        /\ UnderWay(prints, latest.time, resetTime, now + 1)
    BY <1>2, <1>3, UnderWayTick, Zenon DEF ChannelsOK
  <1>7. now + 1 \in Nat /\ now + 1 > latest.time /\ now + 1 > resetTime
    BY <1>3
  <1>8. \/ diffs' = diffs /\ prints' = prints
        \/ feed # "down" /\ \E after, fills :
             /\ diffs' = Append(diffs, [time |-> now', before |-> venue, after |-> after])
             /\ prints' = IF fills = <<>> THEN prints ELSE Append(prints, [time |-> now', fills |-> fills])
    <2>1. \A after, fills : Send(after, fills) =>
            \/ diffs' = diffs /\ prints' = prints
            \/ feed # "down"
                 /\ diffs' = Append(diffs, [time |-> now', before |-> venue, after |-> after])
                 /\ prints' = IF fills = <<>> THEN prints ELSE Append(prints, [time |-> now', fills |-> fills])
      BY Zenon DEF Send
    <2>2. Quote => \E after, fills : Send(after, fills)
      BY Zenon DEF Quote
    <2>3. VenueTrade => \E after, fills : Send(after, fills)
      <3>1. \A side, taken : Sweep(side, taken) => \E after, fills : Send(after, fills)
        BY Zenon DEF Sweep
      <3> QED
        BY <3>1, Zenon DEF VenueTrade
    <2>4. Quote \/ VenueTrade \/ (diffs' = diffs /\ prints' = prints)
      BY Zenon DEF Tick
    <2> QED
      BY <2>1, <2>2, <2>3, <2>4, Zenon
  <1>9. /\ UnderWay(diffs', latest.time, resetTime, now + 1)
        /\ UnderWay(prints', latest.time, resetTime, now + 1)
        /\ feed' = "down" => diffs' = <<>> /\ prints' = <<>>
    <2>1. CASE diffs' = diffs /\ prints' = prints
      BY <1>2, <1>6, <2>1 DEF ChannelsOK
    <2>2. ASSUME feed # "down", NEW after, NEW fills,
                 diffs' = Append(diffs, [time |-> now', before |-> venue, after |-> after]),
                 prints' = IF fills = <<>> THEN prints ELSE Append(prints, [time |-> now', fills |-> fills])
          PROVE  /\ UnderWay(diffs', latest.time, resetTime, now + 1)
                 /\ UnderWay(prints', latest.time, resetTime, now + 1)
      <3> DEFINE m == [time |-> now', before |-> venue, after |-> after]
                 p == [time |-> now', fills |-> fills]
      <3>1. m.time = now + 1 /\ p.time = now + 1
        BY <1>2
      <3> HIDE DEF m, p
      <3>2. UnderWay(Append(diffs, m), latest.time, resetTime, now + 1)
        BY <1>3, <1>6, <1>7, <3>1, UnderWayAppend, Zenon
      <3>3. UnderWay(Append(prints, p), latest.time, resetTime, now + 1)
        BY <1>3, <1>6, <1>7, <3>1, UnderWayAppend, Zenon
      <3>4. diffs' = Append(diffs, m) /\ (prints' = prints \/ prints' = Append(prints, p))
        BY <2>2, Zenon DEF m, p
      <3> QED
        BY <1>6, <3>2, <3>3, <3>4
    <2> QED
      BY <1>2, <1>8, <2>1, <2>2, Zenon
  <1>10. ChannelsOK'
    BY <1>1, <1>2, <1>9 DEF ChannelsOK, UnderWay
  <1> QED
    BY <1>4, <1>5, <1>10

\* A message's events join the queue, with the time of the message.
LEMMA EnqueueStep ==
    ASSUME ClockOK, PendingOK, NEW type \in Types, NEW batch, NEW time \in Nat,
           Timely => time > latest.time, time > resetTime, time <= now,
           Enqueue(type, batch, time), UNCHANGED <<now, latest, resetTime>>
    PROVE  ClockOK' /\ PendingOK'
  <1>1. now' = now /\ latest' = latest /\ resetTime' = resetTime /\ lastTime' = Max({lastTime, time})
    BY Zenon DEF Enqueue
  <1>2. /\ now \in Nat /\ lastTime \in Nat /\ resetTime \in Nat /\ latest.time \in Nat
        /\ lastTime <= now /\ resetTime <= now /\ latest.time <= now /\ latest.type \in Types
    BY Zenon DEF ClockOK
  <1>3. lastTime' \in Nat /\ lastTime' <= now
    BY <1>1, <1>2, LatestTime
  <1>4. ClockOK'
    BY <1>1, <1>2, <1>3 DEF ClockOK
  <1>5. ASSUME NEW e \in pending', e \notin pending
        PROVE  e.type = type /\ e.time = time /\ e.received = now
    <2>1. PICK i \in DOMAIN batch :
             e = [type |-> type, time |-> time, received |-> now, seq |-> nextSeq,
                  sid |-> nextSid + Len(batch) - i, side |-> batch[i].side,
                  price |-> batch[i].price, qty |-> batch[i].qty]
      BY <1>5, Zenon DEF Enqueue
    <2> QED
      BY <2>1
  <1>6. PendingOK'
    <2> SUFFICES ASSUME NEW e \in pending'
                 PROVE  /\ e.time \in Nat /\ e.received \in Nat /\ e.type \in Types
                        /\ e.time <= e.received /\ e.received <= now
                        /\ e.time > resetTime
                        /\ Timely => e.time > latest.time
                             \/ (e.time = latest.time /\ (latest.type = "TRADE" \/ e.type = "LEVEL_UPDATE"))
      BY <1>1 DEF PendingOK
    <2>1. CASE e \in pending
      BY <2>1, Zenon DEF PendingOK
    <2>2. CASE e \notin pending
      BY <1>2, <1>5, <2>2
    <2> QED
      BY <2>1, <2>2
  <1> QED
    BY <1>4, <1>6

\* onLevel2Updates and onMarketTrades: the first message of a channel is queued.
LEMMA CallbackStep ==
    ASSUME ClockOK, PendingOK, ChannelsOK, OnLevel2Updates \/ OnMarketTrades,
           UNCHANGED <<now, latest, resetTime, feed>>
    PROVE  ClockOK' /\ PendingOK' /\ ChannelsOK'
  <1>1. /\ now \in Nat /\ resetTime \in Nat /\ latest.time \in Nat
    BY Zenon DEF ClockOK
  <1>2. /\ UnderWay(diffs, latest.time, resetTime, now) /\ UnderWay(prints, latest.time, resetTime, now)
        /\ feed = "down" => diffs = <<>> /\ prints = <<>>
    BY Zenon DEF ChannelsOK
  <1>3. CASE OnLevel2Updates
    <2>1. /\ diffs # <<>> /\ diffs' = Tail(diffs) /\ prints' = prints
          /\ \E batch : Enqueue("LEVEL_UPDATE", batch, Head(diffs).time)
      BY <1>3, Zenon DEF OnLevel2Updates
    <2>2. /\ UnderWay(Tail(diffs), latest.time, resetTime, now)
          /\ Head(diffs).time \in Nat /\ (Timely => Head(diffs).time > latest.time)
          /\ Head(diffs).time > resetTime /\ Head(diffs).time <= now
      BY <1>1, <1>2, <2>1, UnderWayTail, Zenon
    <2>3. ClockOK' /\ PendingOK'
      <3>1. "LEVEL_UPDATE" \in Types
        BY DEF Types
      <3> QED
        BY <2>1, <2>2, <3>1, EnqueueStep, Zenon
    <2>4. /\ UnderWay(diffs', latest.time, resetTime, now) /\ UnderWay(prints', latest.time, resetTime, now)
          /\ feed # "down"
      BY <1>2, <2>1, <2>2
    <2>5. ChannelsOK'
      BY <2>4 DEF ChannelsOK, UnderWay
    <2> QED
      BY <2>3, <2>5
  <1>4. CASE OnMarketTrades
    <2>1. /\ prints # <<>> /\ prints' = Tail(prints) /\ diffs' = diffs
          /\ Enqueue("TRADE", Head(prints).fills, Head(prints).time)
      BY <1>4, Zenon DEF OnMarketTrades
    <2>2. /\ UnderWay(Tail(prints), latest.time, resetTime, now)
          /\ Head(prints).time \in Nat /\ (Timely => Head(prints).time > latest.time)
          /\ Head(prints).time > resetTime /\ Head(prints).time <= now
      BY <1>1, <1>2, <2>1, UnderWayTail, Zenon
    <2>3. ClockOK' /\ PendingOK'
      <3>1. "TRADE" \in Types
        BY DEF Types
      <3> QED
        BY <2>1, <2>2, <3>1, EnqueueStep, Zenon
    <2>4. /\ UnderWay(diffs', latest.time, resetTime, now) /\ UnderWay(prints', latest.time, resetTime, now)
          /\ feed # "down"
      BY <1>2, <2>1, <2>2
    <2>5. ChannelsOK'
      BY <2>4 DEF ChannelsOK, UnderWay
    <2> QED
      BY <2>3, <2>5
  <1> QED
    BY <1>3, <1>4

\* onLevel2Snapshot: the queue is discarded and nothing is under way; the book is as of now.
LEMMA SnapshotStep ==
    ASSUME ClockOK, PendingOK, ChannelsOK, OnLevel2Snapshot
    PROVE  ClockOK' /\ PendingOK' /\ ChannelsOK'
  <1>1. /\ feed = "down" /\ feed' = "up" /\ pending' = {} /\ resetTime' = now
        /\ now' = now /\ diffs' = diffs /\ prints' = prints /\ lastTime' = lastTime /\ latest' = latest
    BY Zenon DEF OnLevel2Snapshot, DiscardEvents
  <1>2. diffs = <<>> /\ prints = <<>>
    BY <1>1, Zenon DEF ChannelsOK
  <1>3. ClockOK'
    BY <1>1 DEF ClockOK
  <1>4. PendingOK'
    BY <1>1, Zenon DEF PendingOK
  <1>5. UnderWay(diffs', latest'.time, resetTime', now') /\ UnderWay(prints', latest'.time, resetTime', now')
    BY <1>1, <1>2, NothingUnderWay
  <1>6. ChannelsOK'
    BY <1>1, <1>5 DEF ChannelsOK, UnderWay
  <1> QED
    BY <1>3, <1>4, <1>6

\* onMarketDataDisconnected: what was under way is lost, what has arrived stays queued.
LEMMA DisconnectStep ==
    ASSUME ClockOK, PendingOK, ChannelsOK, OnMarketDataDisconnected
    PROVE  ClockOK' /\ PendingOK' /\ ChannelsOK'
  <1>1. /\ diffs' = <<>> /\ prints' = <<>> /\ now' = now
        /\ pending' = pending /\ lastTime' = lastTime /\ latest' = latest /\ resetTime' = resetTime
    BY Zenon DEF OnMarketDataDisconnected, LoseConnection, sequencer
  <1>2. ClockOK' /\ PendingOK'
    BY <1>1 DEF ClockOK, PendingOK
  <1>3. UnderWay(diffs', latest'.time, resetTime', now') /\ UnderWay(prints', latest'.time, resetTime', now')
    BY <1>1, NothingUnderWay
  <1>4. ChannelsOK'
    BY <1>1, <1>3 DEF ChannelsOK, UnderWay
  <1> QED
    BY <1>2, <1>4

\* processSequencedEvents: an event that is ready has been held, by the clock or by the
\* venue's own time, for longer than any message can be delayed; so it is older than
\* everything under way, and EventCompare puts it before everything that waits.
LEMMA ReleaseStep ==
    ASSUME ClockOK, PendingOK, ChannelsOK, ProcessSequencedEvents
    PROVE  ClockOK' /\ PendingOK' /\ ChannelsOK'
  <1>1. PICK e \in pending :
          /\ \A f \in pending : f = e \/ Before(e, f)
          /\ Ready(e)
          /\ pending' = pending \ {e}
          /\ latest' = [time |-> e.time, type |-> e.type]
    BY Zenon DEF ProcessSequencedEvents, Releasable, IsTop
  <1>2. /\ now' = now /\ diffs' = diffs /\ prints' = prints /\ feed' = feed
        /\ lastTime' = lastTime /\ resetTime' = resetTime
    BY Zenon DEF ProcessSequencedEvents, wireVars
  <1>3. /\ now \in Nat /\ lastTime \in Nat /\ resetTime \in Nat /\ latest.time \in Nat
        /\ lastTime <= now /\ resetTime <= now /\ latest.time <= now /\ latest.type \in Types
    BY Zenon DEF ClockOK
  <1>4. /\ e.time \in Nat /\ e.received \in Nat /\ e.type \in Types
        /\ e.time <= e.received /\ e.received <= now
    BY Zenon DEF PendingOK
  <1>5. latest'.time = e.time /\ latest'.type = e.type
    BY <1>1
  <1>6. Hold \in Nat /\ MaxDelay \in Nat
    BY HoldAssumption, MirrorAssumption, Zenon
  <1>7. e.time + Hold <= now
    <2>1. \/ e.time + Hold <= lastTime
          \/ now - e.received >= Hold
      BY <1>1, Zenon DEF Ready
    <2> QED
      BY <1>3, <1>4, <1>6, <2>1
  <1>8. ClockOK'
    BY <1>2, <1>3, <1>4, <1>5 DEF ClockOK
  <1>9. PendingOK'
    <2> SUFFICES ASSUME NEW f \in pending'
                 PROVE  /\ f.time \in Nat /\ f.received \in Nat /\ f.type \in Types
                        /\ f.time <= f.received /\ f.received <= now
                        /\ f.time > resetTime
                        /\ f.time > e.time
                             \/ (f.time = e.time /\ (e.type = "TRADE" \/ f.type = "LEVEL_UPDATE"))
      BY <1>2, <1>5 DEF PendingOK
    <2>1. f \in pending /\ Before(e, f)
      BY <1>1, Zenon
    <2>2. /\ f.time \in Nat /\ f.received \in Nat /\ f.type \in Types
          /\ f.time <= f.received /\ f.received <= now /\ f.time > resetTime
      BY <2>1, Zenon DEF PendingOK
    <2> QED
      BY <1>4, <2>1, <2>2 DEF Before, Types
  <1>10. ASSUME NEW c, UnderWay(c, latest.time, resetTime, now)
         PROVE  UnderWay(c, e.time, resetTime, now)
    <2>1. ASSUME Timely, NEW i \in 1 .. Len(c) PROVE c[i].time > e.time
      <3>1. c[i].time \in Nat /\ c[i].time + MaxDelay >= now
        BY <1>10, Zenon DEF UnderWay
      <3> QED
        BY <1>3, <1>4, <1>6, <1>7, <2>1, <3>1 DEF Timely
    <2> QED
      BY <1>10, <2>1, UnderWayMoves, Zenon
  <1>11. UnderWay(diffs, e.time, resetTime, now) /\ UnderWay(prints, e.time, resetTime, now)
    BY <1>10, Zenon DEF ChannelsOK
  <1>12. ChannelsOK'
    BY <1>2, <1>5, <1>11 DEF ChannelsOK, UnderWay
  <1> QED
    BY <1>8, <1>9, <1>12

\* A step that has nothing to do with the sequencer.
LEMMA SequencerRests ==
    ASSUME ClockOK, PendingOK, ChannelsOK,
           UNCHANGED <<now, feed, diffs, prints, pending, lastTime, latest, resetTime>>
    PROVE  ClockOK' /\ PendingOK' /\ ChannelsOK'
  <1>1. ClockOK' /\ PendingOK'
    BY DEF ClockOK, PendingOK
  <1>2. ChannelsOK'
    BY DEF ChannelsOK, UnderWay
  <1> QED
    BY <1>1, <1>2

\* Every step of the Coinbase feed and of its sequencer keeps the three parts of the invariant.
LEMMA CoinbaseStep ==
    ASSUME ClockOK, PendingOK, ChannelsOK, CoinbaseNext
    PROVE  ClockOK' /\ PendingOK' /\ ChannelsOK'
  <1>1. CASE Tick /\ UNCHANGED coinbaseVars
    BY <1>1, TickStep, Zenon
  <1>2. CASE ProcessData
    <2>1. \/ (OnLevel2Updates \/ OnMarketTrades) /\ UNCHANGED <<now, latest, resetTime, feed>>
          \/ OnLevel2Snapshot \/ OnMarketDataDisconnected
      BY <1>2, Zenon DEF ProcessData
    <2> QED
      BY <2>1, CallbackStep, SnapshotStep, DisconnectStep, Zenon
  <1>3. CASE ProcessSequencedEvents
    BY <1>3, ReleaseStep, Zenon
  <1>4. CASE CoinbaseOrder
    <2>1. UNCHANGED <<now, feed, diffs, prints, pending, lastTime, latest, resetTime>>
      BY <1>4, Zenon DEF CoinbaseOrder, ClientOrder, wireVars, sequencer
    <2> QED
      BY <2>1, SequencerRests, Zenon
  <1> QED
    BY <1>1, <1>2, <1>3, <1>4, Zenon DEF CoinbaseNext

\* A batch without rows.
LEMMA EmptyBatch == DOMAIN NoRows = {}
  BY DEF NoRows

\* An event is released: the batch it leaves has rows of newer events than the snapshot,
\* since the event is one of the queue.
LEMMA ReleaseBatch ==
    ASSUME PendingOK, BatchOK, ProcessSequencedEvents
    PROVE  BatchOK'
  <1>1. PICK e \in pending : \E m : DispatchEvent(e, m)
    BY Zenon DEF ProcessSequencedEvents, Releasable, IsTop
  <1>2. resetTime' = resetTime /\ e.time > resetTime
    BY Zenon DEF ProcessSequencedEvents, PendingOK
  <1>3. \/ buffer' = buffer
        \/ \E isNew : PublishLevelRows(e, isNew)
    BY <1>1, Zenon DEF DispatchEvent, DispatchLevelUpdate, DispatchTrade, NewLevel, ExistingLevel,
                       FlushMarketDataCaches, rowVars
  <1>4. CASE buffer' = buffer
    BY <1>2, <1>4 DEF BatchOK
  <1>5. CASE \E isNew : PublishLevelRows(e, isNew)
    <2>1. PICK l, q, rows : /\ rows = NoRows \/ rows = buffer
                            /\ buffer' = WithRow(rows, l, [qty |-> q, time |-> e.time])
      BY <1>5, Zenon DEF PublishLevelRows
    <2>2. \A k \in DOMAIN buffer' :
            \/ buffer'[k].time = e.time
            \/ k \in DOMAIN buffer /\ buffer'[k] = buffer[k]
      BY <2>1, EmptyBatch DEF WithRow
    <2> QED
      BY <1>2, <2>2 DEF BatchOK
  <1> QED
    BY <1>3, <1>4, <1>5

\* Every step of the Coinbase adapter keeps the batch newer than the last snapshot: the
\* snapshot empties it (onLevel2Snapshot), and only a release adds to it.
LEMMA BatchStep ==
    ASSUME PendingOK, BatchOK, CoinbaseNext
    PROVE  BatchOK'
  <1>1. CASE UNCHANGED <<buffer, resetTime>>
    BY <1>1 DEF BatchOK
  <1>2. CASE OnLevel2Snapshot
    <2>1. buffer' = NoRows
      BY <1>2, Zenon DEF OnLevel2Snapshot, DiscardEvents
    <2> QED
      BY <2>1, EmptyBatch, Zenon DEF BatchOK
  <1>3. CASE ProcessSequencedEvents
    BY <1>3, ReleaseBatch, Zenon
  <1>4. ASSUME ProcessData PROVE OnLevel2Snapshot \/ UNCHANGED <<buffer, resetTime>>
    BY <1>4, Zenon DEF ProcessData, OnMarketDataDisconnected, rowVars
  <1>5. ASSUME CoinbaseOrder PROVE UNCHANGED <<buffer, resetTime>>
    BY <1>5, Zenon DEF CoinbaseOrder, FlushMarketDataCaches
  <1>6. ASSUME UNCHANGED coinbaseVars PROVE UNCHANGED <<buffer, resetTime>>
    BY <1>6, Zenon DEF coinbaseVars, rowVars
  <1> QED
    BY <1>1, <1>2, <1>3, <1>4, <1>5, <1>6, Zenon DEF CoinbaseNext

\* The sequencer and the channels start empty: the invariant holds.
LEMMA SequencerInit == ASSUME Init PROVE SequencerInv
  <1>1. /\ now = 0 /\ feed = "up" /\ diffs = <<>> /\ prints = <<>> /\ pending = {} /\ lastTime = 0
        /\ latest = [time |-> 0, type |-> "TRADE"] /\ resetTime = 0 /\ buffer = NoRows
    BY Zenon DEF Init, MirrorInit, CoinbaseInit
  <1>2. ClockOK
    BY <1>1 DEF ClockOK, Types
  <1>3. PendingOK
    BY <1>1, Zenon DEF PendingOK
  <1>4. ChannelsOK
    BY <1>1, NothingUnderWay DEF ChannelsOK
  <1>5. BatchOK
    BY <1>1, EmptyBatch, Zenon DEF BatchOK
  <1> QED
    BY <1>1, <1>2, <1>3, <1>4, <1>5, Zenon DEF SequencerInv

\* Every step of the feeds, the sequencer and the mirrored books keeps the invariant.
LEMMA SequencerStep == ASSUME SequencerInv, [Next]_vars PROVE SequencerInv'
  <1>1. CASE UNCHANGED vars
    <2>1. UNCHANGED <<now, feed, diffs, prints, pending, lastTime, latest, resetTime, adapter, buffer>>
      BY <1>1, Zenon DEF vars, mirrorVars, wireVars, coinbaseVars, sequencer, rowVars
    <2>2. BatchOK => BatchOK'
      BY <2>1 DEF BatchOK
    <2> QED
      BY <2>1, <2>2, SequencerRests, Zenon DEF SequencerInv
  <1>2. CASE adapter = "coinbase" /\ CoinbaseNext /\ UNCHANGED adapter
    BY <1>2, CoinbaseStep, BatchStep, Zenon DEF SequencerInv
  <1>3. CASE adapter = "hyperliquid" /\ UNCHANGED coinbaseVars /\ UNCHANGED adapter
    <2>1. adapter # "coinbase" /\ adapter' # "coinbase" /\ pending' = pending /\ buffer' = buffer
      BY <1>3 DEF coinbaseVars, sequencer, rowVars
    <2> QED
      BY <2>1, Zenon DEF SequencerInv
  <1> QED
    BY <1>1, <1>2, <1>3, Zenon DEF Next

\* While no message is delayed for as long as events are held, the sequencer dispatches
\* the venue's events in the venue's order: no event waits, or will arrive, that belongs
\* before one that has been dispatched.
THEOREM EventsInVenueOrder == MaxDelay < Hold => (Spec => []VenueOrder)
  <1> SUFFICES ASSUME MaxDelay < Hold PROVE Spec => []VenueOrder
    OBVIOUS
  <1>1. Init => SequencerInv
    BY SequencerInit
  <1>2. SequencerInv /\ [Next]_vars => SequencerInv'
    BY SequencerStep
  <1>3. SequencerInv => VenueOrder
    BY Zenon DEF SequencerInv, PendingOK, VenueOrder, Timely
  <1> QED
    BY <1>1, <1>2, <1>3, PTL DEF Spec

\* However long messages are delayed, whatever waits in the queue or in the level batch is
\* newer than the book that the last snapshot wrote, however often the connection is lost:
\* no event of the old book is applied to the new one, and no row of it sent after it.
THEOREM SnapshotsSupersede == Spec => []SnapshotSupersedes
  <1>1. Init => SequencerInv
    BY SequencerInit
  <1>2. SequencerInv /\ [Next]_vars => SequencerInv'
    BY SequencerStep
  <1>3. SequencerInv => SnapshotSupersedes
    BY EmptyBatch, Zenon DEF SequencerInv, PendingOK, BatchOK, SnapshotSupersedes
  <1> QED
    BY <1>1, <1>2, <1>3, PTL DEF Spec

=============================================================================
