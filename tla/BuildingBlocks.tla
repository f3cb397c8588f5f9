--------------------------- MODULE BuildingBlocks ---------------------------
(***************************************************************************)
(* Components that a venue picks by its configuration or its protocol: the *)
(* pro-rata engine, the session helpers of the order gateways and the      *)
(* multicast feed.  They share no state, so a behaviour is one of one part.*)
(***************************************************************************)
EXTENDS ProRata, ClOrdIdIndex, RetransmitRing, PendingResponses, MulticastFeed

CONSTANTS Parts, Off    \* the parts to check, and the state of the others

VARIABLE part

blockVars == <<part, engine, session, ring, waits, feedVars>>

Init ==
    /\ part \in Parts
    /\ IF part = "pro_rata" THEN ProRataInit ELSE engine = Off
    /\ IF part = "cl_ord_ids" THEN SessionInit ELSE session = Off
    /\ IF part = "retransmit" THEN RingInit ELSE ring = Off
    /\ IF part = "pending" THEN PendingInit ELSE waits = Off
    /\ IF part = "multicast" THEN FeedInit
       ELSE feed = Off /\ net = Off /\ packets = Off /\ venue = Off /\ used = Off

Next ==
    /\ UNCHANGED part
    /\ \/ part = "pro_rata" /\ ProRataNext /\ UNCHANGED <<session, ring, waits, feedVars>>
       \/ part = "cl_ord_ids" /\ SessionNext /\ UNCHANGED <<engine, ring, waits, feedVars>>
       \/ part = "retransmit" /\ RingNext /\ UNCHANGED <<engine, session, waits, feedVars>>
       \/ part = "pending" /\ PendingNext /\ UNCHANGED <<engine, session, ring, feedVars>>
       \/ part = "multicast" /\ FeedNext /\ UNCHANGED <<engine, session, ring, waits>>

\* The exchange thread polls, the receiver threads run, and a venue sends its packets
\* in a loop to the groups that are joined.
Elsewhere == UNCHANGED <<part, engine, session, ring, waits>>

Fairness ==
    /\ WF_blockVars(part = "multicast" /\ ChangeMembership /\ Elsewhere)
    /\ WF_blockVars(part = "multicast" /\ Drain /\ Elsewhere)
    /\ \A line \in Lines :
         /\ WF_blockVars(part = "multicast" /\ SetJoined(line) /\ Elsewhere)
         /\ WF_blockVars(part = "multicast" /\ RetryComes(line) /\ Elsewhere)
         /\ WF_blockVars(part = "multicast" /\ Deliver(line) /\ Elsewhere)
         /\ WF_blockVars(part = "multicast" /\ PublishPacket(line) /\ Elsewhere)

Spec == Init /\ [][Next]_blockVars /\ Fairness

-----------------------------------------------------------------------------
\* ProRataMatchingEngine::allocate.  A level places all that reaches it and no more
\* than it holds.  Without a FIFO slice an order falls short of its part of the
\* quantity by less than a lot, or that part was below the minimum.  An order that is
\* ahead of another and no smaller never gets less.
FairTo(cfg, sizes, qty, given) ==
    LET placed == IF qty < Total(sizes) THEN qty ELSE Total(sizes)
    IN  /\ Total(given) = placed
        /\ \A i \in DOMAIN sizes :
             /\ given[i] \in 0 .. sizes[i]
             /\ cfg.fifo = 0 => \/ placed * sizes[i] < (given[i] + cfg.lot) * Total(sizes)
                                \/ placed * sizes[i] < (cfg.min + cfg.lot) * Total(sizes)
             /\ \A j \in 1 .. i - 1 : sizes[j] >= sizes[i] => given[j] >= given[i]

AllocationIsFair ==
    part = "pro_rata" =>
        \A k \in DOMAIN engine.fills :
            LET fill == engine.fills[k]
            IN  FairTo(engine.config, Sizes(fill.orders), fill.qty, fill.given)

\* What prepareOrder decides is what the loop of matchOrder then meets: it never finds
\* a self-match that should have rejected the order, never trades a client's orders
\* with each other unless the mode allows it, and never leaves a rest of a
\* fill-or-kill order; an order that it finishes has traded nothing.
PreChecksDecide ==
    part = "pro_rata" =>
        /\ engine.status # "BACKSTOP"
        /\ engine.status \in {"REJECTED", "KILLED"} => engine.fills = <<>>
        /\ engine.tif = "FOK" => engine.status \notin {"RESTS", "CANCELED"}
        /\ engine.smp # "NONE" =>
             \A k \in DOMAIN engine.fills : \A i \in DOMAIN engine.fills[k].orders :
                 IsOwn(engine.fills[k].orders[i]) => engine.fills[k].given[i] = 0

\* ClOrdIdIndex.  A working order is found by its name, through replaces that share
\* and swap names while they are in flight; and exactly the names of working orders and
\* of unanswered requests are taken, so none is granted twice and none is lost.
NamesAreExact ==
    part = "cl_ord_ids" =>
        /\ \A num \in session.working : Find(session.ids, session.name[num]) = num
        /\ Taken(session.ids) = {session.name[num] : num \in session.working}
                                  \cup {r.id : r \in session.requests}

\* RetransmitRing::holds answers for every range, one over the end of the sequence
\* space included, whether each of its messages is among the last that fit the ring.
ReplaysAreExact ==
    part = "retransmit" =>
        \A from \in 0 .. SeqSpace - 1, count \in 1 .. SeqSpace - 1 :
            Holds(ring, from, count) <=>
                \A i \in 0 .. count - 1 : (from + i) % SeqSpace \in ring.since .. ring.next - 1

\* PendingResponses calls a completion "exactly once per waiter unless the waiter is
\* abandoned", whatever order reports, timers and departures come in.
CompletedOnce ==
    part = "pending" =>
        \A id \in 1 .. waits.next - 1 :
            Len(waits.answers[id]) = IF Waiting(waits, id) \/ id \in waits.left THEN 0 ELSE 1

\* The venue waits for a packet of some line.
Unheard == part = "multicast" /\ (venue.wants \cap net.running) \ venue.heard # {}

\* MulticastPacketFeed.  A line that the venue wants is heard from, though joins and
\* leaves fail, wishes change meanwhile and the queue overruns; unless the venue
\* changes its mind or the feed stops.
LinesAreHeard == Unheard ~> ~Unheard
=============================================================================
