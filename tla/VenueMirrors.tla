---------------------------- MODULE VenueMirrors ----------------------------
(***************************************************************************)
(* The mirror of a venue's book, kept by the adapter of either venue.  The *)
(* venues run on exchanges of their own, so a behaviour has one of them.   *)
(***************************************************************************)
EXTENDS CoinbaseMirror, HyperliquidMirror

CONSTANT Adapters

VARIABLE adapter

vars == <<mirrorVars, coinbaseVars, ref, adapter>>

Init ==
    /\ adapter \in Adapters
    /\ MirrorInit(IF adapter = "hyperliquid" THEN 0 ELSE Counter) /\ CoinbaseInit /\ HyperliquidInit

Next ==
    /\ \/ adapter = "coinbase" /\ CoinbaseNext /\ UNCHANGED ref
       \/ adapter = "hyperliquid" /\ HyperliquidMirrorNext /\ UNCHANGED coinbaseVars
    /\ UNCHANGED adapter

Spec == Init /\ [][Next]_vars

-----------------------------------------------------------------------------
\* Everything the venue has sent has been applied.
Settled == feed = "up" /\ diffs = <<>> /\ prints = <<>> /\ pending = {}

\* The sequencer applies the venue's events in the order of their times, a trade
\* before the level update that reflects it, though the channels are delayed
\* independently: no event waits, or arrives, that belongs before the last one
\* dispatched.
VenueOrder ==
    \A e \in pending :
        \/ e.time > latest.time
        \/ e.time = latest.time /\ (latest.type = "TRADE" \/ e.type = "LEVEL_UPDATE")

\* A snapshot is a reset: the events that wait in the queue and the rows that wait in
\* the level batch are newer than the book that the last snapshot wrote, so nothing of
\* the old book is applied to the new one or sent after it.
SnapshotSupersedes ==
    /\ \A e \in pending : e.time > resetTime
    /\ \A l \in DOMAIN buffer : buffer[l].time > resetTime

\* Once everything is applied, the phantoms are the venue's book, as long as no
\* client took liquidity, no quote traded on arrival and, without a sequencer, no
\* print came behind its level message; whatever passive orders of clients have
\* absorbed of the venue's prints.
MirrorsVenue ==
    (Settled /\ ledger.alone /\ ~ledger.ghost) =>
        \A l \in Levels : Phantom(book[l]) = venue[l]

\* With the sequencer every print finds at the mirror the liquidity it took at
\* the venue, so nothing of it is left to rest on the taker's side.
PrintsFindLiquidity == (adapter = "coinbase" /\ ledger.alone) => ~ledger.ghost

\* A print counts once: a level has what its last update said, less the trades that
\* the update does not reflect, in whatever order they were applied.  With the
\* sequencer this has no exception.  Without it an update may find that a later print
\* has emptied its level; the level is then added whole, and what it has too much,
\* until its next update, is exactly the trades that this one did not reflect.
PrintsCountOnce ==
    (ledger.alone /\ ~ledger.ghost) =>
        \A l \in Levels :
            /\ Phantom(book[l]) = NonNegative(ledger.base[l] + ledger.again[l]
                                               - Unreflected(credit, l, ledger.asOf[l]))
            /\ adapter = "coinbase" => ledger.again[l] = 0

\* Mirroring never touches a client's order: what clients placed rests or was
\* filled, through reconciling, snapshots and reconnects.
ClientsKeepOrders ==
    ledger.placed = ledger.filled + MapThenSumSet(LAMBDA l : Owned(book[l]), Levels)

\* What the venue has ahead of the last of the clients' orders in a queue.
Ahead(line) == Phantom(SubSeq(line, 1, Max({i \in DOMAIN line : line[i].own})))

\* A client's order keeps its place: nothing that updates, prints and snapshots do puts
\* more of the venue's quantity ahead of it; and quantity that was added under
\* priority 0, by its time, is behind it even where the order came later.
ClientsKeepPlace ==
    [][\A l \in Levels :
         /\ (orders' = orders /\ Owned(book[l]) > 0 /\ Owned(book'[l]) > 0)
              => Ahead(book'[l]) <= Ahead(book[l])
         /\ \A i, j \in DOMAIN book'[l] :
              i < j /\ book'[l][j].own => book'[l][i].at = Counter]_vars

\* The list that resolves removed levels is the venue's own list of prices, as of
\* the last message applied.
RefFollowsVenue ==
    (adapter = "hyperliquid" /\ feed = "up") =>
        \A s \in Sides :
            ref[s] = VenuePrices(IF diffs = <<>> THEN venue ELSE Head(diffs).before, s)

\* A client can re-read a snapshot at any time and find it consistent with the
\* deltas it has been applying (docs/market-data.md:246): where no row waits to be
\* sent, the subscriber's book has the level's quantity.
DeltasAgreeWithSnapshot ==
    (adapter = "coinbase" /\ ~due) =>
        \A l \in Levels \ (DOMAIN buffer \cup DOMAIN cache) : shown[l] = Total(book[l])
=============================================================================
