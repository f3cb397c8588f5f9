---------------------------- MODULE MulticastFeed ----------------------------
(***************************************************************************)
(* MulticastPacketFeed: one receiver thread per line, a lossy queue to the *)
(* exchange thread, and group memberships that the exchange thread changes *)
(* from its poll, trying again a while after one that failed.              *)
(*                                                                         *)
(* A packet takes one entry of the queue.  Times are modelled by whether a *)
(* line's retry_at_ns_ has come.                                           *)
(***************************************************************************)
EXTENDS Integers, Sequences, FiniteSets

CONSTANTS
    Lines,
    NoLine,               \* set_joined is not running
    QueueSize,            \* packets that the queue holds
    MaxPacketsPerPoll,    \* max_packets_per_poll
    MaxWishes,            \* bound: changes of what the venue wants
    MaxFailures,          \* bound: failed joins and leaves
    MaxLosses,            \* bound: packets overwritten before they are drained
    MaxStops              \* bound: stops, each followed by a start

VARIABLES
    feed,       \* wanted_left_, left_, muted_ as sets of lines, the lines that wait
                \* for their retry, started_, and the line set_joined is busy with
    net,        \* the receivers that run, and the groups their sockets are in
    packets,    \* packets_: the line, and whether the packet has been copied in
    venue,      \* the lines the venue wants, and those it has heard since it does
    used        \* how much of each bound is used up

feedVars == <<feed, net, packets, venue, used>>

Use(kind, bound) == used[kind] < bound /\ used' = [used EXCEPT ![kind] = @ + 1]

Toggled(S, x) == IF x \in S THEN S \ {x} ELSE S \cup {x}

-----------------------------------------------------------------------------
\* start: a receiver that fails to start is only logged.
StartFeed ==
    /\ ~feed.started
    /\ feed' = [feed EXCEPT !.started = TRUE, !.left = {}, !.retrying = {}]
    /\ \E S \in {Lines, Lines \ {CHOOSE line \in Lines : TRUE}} :
         net' = [running |-> S, member |-> S]
    /\ UNCHANGED <<packets, venue, used>>

StopFeed ==
    /\ feed.started /\ feed.busy = NoLine /\ Use("stops", MaxStops)
    /\ \A i \in DOMAIN packets : packets[i].copied
    /\ feed' = [feed EXCEPT !.started = FALSE]
    /\ net' = [running |-> {}, member |-> {}]
    /\ UNCHANGED <<packets, venue>>

-----------------------------------------------------------------------------
\* The exchange thread.

\* The venue has a gap to recover on a line, or has done so.
Want(line) ==
    /\ feed.busy = NoLine /\ Use("wishes", MaxWishes)
    /\ venue' = [wants |-> Toggled(venue.wants, line), heard |-> venue.heard \ {line}]
    /\ UNCHANGED <<feed, net, packets>>

\* Whether the group the venue wants left or joined is not, and may be tried.
Due(line) == (line \in feed.left) = (line \in venue.wants) /\ line \notin feed.retrying

\* set_joined, up to the membership, when there is something to do: the mute follows
\* a new wish at once, and the receivers see it.
SetJoined(line) ==
    LET turned == (line \in feed.wantedLeft) = (line \in venue.wants)
    IN  /\ feed.busy = NoLine /\ (turned \/ Due(line))
        /\ feed' = [feed EXCEPT !.busy = line,
             !.wantedLeft = IF turned THEN Toggled(@, line) ELSE @,
             !.muted = IF ~turned THEN @ ELSE IF line \in venue.wants THEN @ \ {line} ELSE @ \cup {line},
             !.retrying = IF turned THEN @ \ {line} ELSE @]
        /\ UNCHANGED <<net, packets, venue, used>>

\* Defect: the membership counts as changed when the attempt is made.
FailedNow(line) == [feed EXCEPT !.busy = NoLine, !.left = Toggled(@, line)]

Failed(line) == [feed EXCEPT !.busy = NoLine, !.retrying = @ \cup {line}]

\* The rest of set_joined.  A receiver that does not run has nothing to change.
ChangeMembership ==
    LET line == feed.busy
    IN  /\ line # NoLine
        /\ \/ /\ ~Due(line)
              /\ feed' = [feed EXCEPT !.busy = NoLine]
              /\ UNCHANGED <<net, used>>
           \/ /\ Due(line)
              /\ \/ /\ feed' = [feed EXCEPT !.busy = NoLine, !.left = Toggled(@, line)]
                    /\ net' = IF line \in net.running THEN [net EXCEPT !.member = Toggled(@, line)] ELSE net
                    /\ UNCHANGED used
                 \/ /\ line \in net.running /\ Use("failures", MaxFailures)
                    /\ feed' = Failed(line)
                    /\ UNCHANGED net
        /\ UNCHANGED <<packets, venue>>

RetryComes(line) ==
    /\ line \in feed.retrying
    /\ feed' = [feed EXCEPT !.retrying = @ \ {line}]
    /\ UNCHANGED <<net, packets, venue, used>>

\* drain hands over the packets up to the first that is still being copied.
Drain ==
    LET ready == {n \in 1 .. Len(packets) :
                    n <= MaxPacketsPerPoll /\ \A i \in 1 .. n : packets[i].copied}
        n     == Cardinality(ready)
    IN  /\ feed.busy = NoLine /\ n > 0
        /\ packets' = SubSeq(packets, n + 1, Len(packets))
        /\ venue' = [venue EXCEPT !.heard = @ \cup ({packets[i].line : i \in 1 .. n} \cap venue.wants)]
        /\ UNCHANGED <<feed, net, used>>

-----------------------------------------------------------------------------
\* The receiver threads.  deliver drops a packet of a muted line; it reserves an
\* entry, over the oldest when the queue is full, and publishes it once copied.
Deliver(line) ==
    /\ line \in net.running \cap net.member /\ line \notin feed.muted
    /\ \A i \in DOMAIN packets : packets[i].line = line => packets[i].copied
    /\ LET entry == [line |-> line, copied |-> FALSE]
       IN  \/ /\ Len(packets) < QueueSize
              /\ \A i \in DOMAIN packets : packets[i].line # line
              /\ packets' = Append(packets, entry)
              /\ UNCHANGED used
           \/ /\ Len(packets) = QueueSize /\ Head(packets).copied
              /\ Use("losses", MaxLosses)
              /\ packets' = Append(Tail(packets), entry)
    /\ UNCHANGED <<feed, net, venue>>

PublishPacket(line) ==
    \E i \in DOMAIN packets :
        /\ packets[i].line = line /\ ~packets[i].copied
        /\ packets' = [packets EXCEPT ![i].copied = TRUE]
        /\ UNCHANGED <<feed, net, venue, used>>

FeedInit ==
    /\ feed = [wantedLeft |-> {}, left |-> {}, muted |-> {}, retrying |-> {},
               started |-> FALSE, busy |-> NoLine]
    /\ net = [running |-> {}, member |-> {}]
    /\ packets = <<>>
    /\ \E S \in SUBSET Lines : venue = [wants |-> S, heard |-> {}]
    /\ used = [wishes |-> 0, failures |-> 0, losses |-> 0, stops |-> 0]

LineNext(line) ==
    Want(line) \/ SetJoined(line) \/ RetryComes(line) \/ Deliver(line) \/ PublishPacket(line)

FeedNext ==
    \/ StartFeed \/ StopFeed \/ ChangeMembership \/ Drain
    \/ \E line \in Lines : LineNext(line)
=============================================================================
