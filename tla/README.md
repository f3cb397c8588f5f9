# slick-sim: TLA+ specifications and proofs

slick-sim simulates trading venues: it mirrors a real venue's liquidity from its
market-data feed and lets clients trade against it and against each other. This
directory holds TLA+ modules translated from the C++ sources, TLC configurations
that check them on small instances, and TLAPS proofs for every value of the
constants. `PROJECT.json` maps each definition to the lines it models and lists
runs, mutants, hazards, findings and theorems.

## The system

| Part | Sources | State it owns | Talks to |
| --- | --- | --- | --- |
| Order book | `order_book/` | L3 book, three indices of client orders, order pool, phantom totals | its observers: itself and its symbol |
| Exchange and symbol | `exchange/` | symbols, level-row caches, trade credits, trade history | request queue in; response and market-data queues out |
| Matching engines | `matching_engine/` | none; FIFO and pro-rata | the book, the response queue |
| Venue adapters | `venues/coinbase/`, `venues/hyperliquid/` | event sequencer, pending subscriptions, list of the venue's levels | feeds in; book and engine |
| Feeds | `md_feed/`, `*_live_ws_feed.*` | sockets, mute bits, group membership | receiver threads |
| Order gateways | `order_gateway/`, `venues/*/*gateway.*` | order store, id index, waiters, retransmit ring | clients; request and response queues |
| Publishers | `market_data_publisher/`, `venues/*/*publisher.*` | subscribers, diff baseline | the market-data queue; clients |

One exchange thread per venue drains requests and feed events and runs each
handler to its end; nobody else touches a book. Gateways and publishers run on
threads of their own and meet the exchange only through queues. Three things are
hard about this. A handler is long: one request may fill, cancel and free the
orders of many owners, and every step must leave book, records, indices, pool,
reports and published levels in agreement. The venue is elsewhere: its messages
are delayed, reordered between channels and cut off by lost connections, while
clients trade with the liquidity they describe. And the threads see each other
late: a gateway waits for an answer that may have come already or may come after
it gave up, a publisher sends to sockets that come and go.

## Modules

Each group is checked by runs of its own. Within a venue's process the groups meet
where the code has an interface: `OrderLifecycle` between exchange and gateways,
level quantities and frames between exchange, adapters and publishers.

### The exchange

**OrderBook** is `order_book.hpp`. An id's L3 entry is `l3[i]`, absent when its
quantity is 0; `order[i]` is the pooled record; `orders_`, `byClOrdId` and
`byOrderId` are the three indices; `pool[i]` counts records taken less records
returned; `mdQty` is `feed_md_level_quantity_`; `dirty` and `lastEnd` are the
level-row cache reduced to the levels it names and its closing flag. The L3 book
is an external library, modelled from how the code uses it: orders of a level are
sorted by priority, every change notifies the observers while it happens.

**Exchange** extends it with the handlers of `exchange.cpp` and `symbol.cpp` and the
FIFO engine. `pc` says where the current handler is, `cur` holds its request. A
handler is a chain of steps, each with at most one L3 mutation:

| Phase | Code | Actions |
| --- | --- | --- |
| `idle` | `processRequest` | `NewOrder`, `ModifyOrder`, `CancelOrder`, `RejectRequest` |
| `smp` | `prepareOrder` step 0 | `RejectSelfMatch`, `Acknowledge` |
| `fok` | step 1 | `KillFok`, `PassFok` |
| `replace`, `zero` | step 2 | `ApplyReplace`, `CancelZeroLeaves` |
| `match` | the matching loop, one turn a step | `Fill`, `CancelResting`, `RejectSelfMatch`, `EndMatch` |
| `rest` | `Symbol::addOrder`, `modifyOrder` | `RestNew`, `DropNew`, `RestModified` |
| `cancel` | `Symbol::cancelOrder` | `CompleteCancel` |
| `flush` | `flushMarketDataCaches` | `Flush` |
| `packet` | `applyMarketOrder`, `replayMarketTrade` | `MarketNew`, `MarketChange`, `MarketRestore`, `MarketRequeue`, `MarketDelete`, `MarketTrade`, `Flush` |
| `feed` | the matching loop for the feed | `FeedFill`, `RestMarketOrder`, `EndFeed` |

Only `idle` (and, for market events, an open `packet`) starts a handler, so the
steps of two handlers never interleave, as on the exchange thread. `told`, `accTag`
and `pub` are history: what each owner was last told, the tag each order last
accepted, and the level quantities last published. `mkt` is the venue's own book,
which the adapter reports; no order-by-order venue is in the repository, so it is
an environment that obeys `exchange.hpp:96-98` (the venue's book is not crossed)
and changes price only with a requeue. A record that went back to the pool is
normalised to `Recycled`, so a use after free shows as an order without a side, price
or owner.

Abstracted: prices are ticks, a market order is `NullPrice` (the largest price, as
in the code); DAY, GTC and GTD are one time in force, and the other non-resting
times in force count as IOC; trade summaries, average prices, timestamps and
sequence numbers are left out (client requests pass sequence 0, which the book's
guard ignores).

**OrderLifecycle** is what the exchange promises owners, as execution reports tell
it: an order is acknowledged or rejected once; a live one may trade, be replaced or
cancelled; a trade moves quantity from what is left to what has filled; an ended one
is never heard of again. `Exchange` implements it (`ImplementsLifecycle`, an
`INSTANCE` with `told` for `life`): TLC checks it, TLAPS proves it.

**ProRata** is one call of the pro-rata engine: pre-checks, the loop over levels,
and `allocate` with its FIFO slice, lots, minimum and leftover.

### The order gateways

**OrderReports** is the exchange behind its two queues. It builds on
`OrderLifecycle` and adds what gateways go by: whom a report is addressed to, which
request it answers, and the notices and rejects that do not speak of an order's
state. `responses` keeps every report, so a cursor is a number.

**OrderStore** is `order_store.hpp` (`Apply`, `OrdersOf`; its `drain` is in
`CoinbaseRest`, a report a step, because the exchange publishes meanwhile).
**CoinbaseRest**, **CoinbaseWs** and **HyperliquidRest** are the gateways' loop
threads. A REST handler is idle, has captured its cursor, has published its request
or waits; a poll reads one report, a timeout may come at any poll, because nothing
bounds the exchange's delay. `known` is `order_id_to_symbol_`. Hyperliquid's cancels and
amendments by number carry whatever client order id their slot of the queue was left
with (`Leftover`). The WebSocket gateway
opens, subscribes, records and pushes one report after the other, and drops silent
sockets. **OrderGateways** puts one gateway beside the exchange; gateways share
nothing but the queues, and each has cursors of its own.

### The venue adapters

**MirrorBook** is what both adapters share: a book of levels, each a queue of
phantom and client quantities, sorted as `OrderBookL3` sorts it: orders with a priority
of the counter as they came, behind them those added under priority 0, by time; `match` for feed and clients; `reconcilePhantomQty`
with `creditTradedQty` and `takeTradedQty`; `clearMDOrders` and rebuilding; and the
venue itself, which quotes, trades and loses connections. `diffs` and `prints` are
the channels under way, each in order and delayed by at most `MaxDelay`.
**CoinbaseMirror** is the sequencer (`processSequencedEvents`, `dispatchEvent`), the
feed callbacks and the batch of level rows, each with its event's time;
**HyperliquidMirror** applies index-coded
diffs, snapshots and prints as they come. **VenueMirrors** chooses one of them.
`ledger`, `latest` and `resetTime` are history.

### Market data to clients

**RingBuffer** is the trade history's ring. **MdPublisher** is the event loop,
sockets, subscriptions, queues and trade responses; **CoinbasePublisher** and
**HyperliquidPublisher** add each venue's exchange side (`handleMdSubscription`,
snapshots, disconnects) and publisher (snapshots and rows; whole books and diffs
against `l2_diff_baseline_`). A client is modelled by the book or tape it makes of
its messages. One side of the book is enough: the code treats them alike but for the
order of levels, and `side` ranges over both at Hyperliquid. **MarketData** chooses
the venue.

### Building blocks

**ClOrdIdIndex**, **RetransmitRing**, **PendingResponses** and **MulticastFeed** are
headers that no venue of this repository instantiates (venues outside it do); they
are driven by the callers that their comments and tests describe. With `ProRata`,
which only such venues can configure, they are composed in **BuildingBlocks**, one
part a behaviour.

### Proof modules

**ExchangeProofs** holds the theorems about `Exchange`, after the lemmas about totals,
pre-trade checks and the published book. It rests on **ExchangeInvariant** (the inductive
invariant and the operators that several actions share), **ExchangeActions** (every
action keeps it; what one step changes; tags; the mirror) and **ExchangeOrders** (places
in the queue, batches of rows, what owners are told). **GatewayProofs** is about the
exchange behind its queues and the handlers that wait for answers, **GatewayClients**
about names, stores and sockets; both are about `OrderGateways`. **SequencerProofs** is
about `VenueMirrors`, **SessionProofs** about three parts of `BuildingBlocks`.

Definitions whose comment begins with `Defect:` are wrong versions of the
definition below them. Nothing uses them: `PROJECT.json` swaps each in to
show that a property notices.

## Runs

| Run | Question | Bounds | Distinct states |
| --- | --- | --- | --- |
| `client_orders` | do book, records, indices, pool, owners and subscribers agree? | 3 orders, 2 prices, quantities 0 to 3, one client order id, GTC and IOC | 470,000 |
| `self_match` | do the pre-checks predict the loop? | 3 orders, one client and anonymous ones, three modes, FOK and market orders, amendments to the upper price | 926,000 |
| `mirror` | do clients and an order-by-order mirror fit in one book? | 3 ids shared by both, 2 prices, client orders of 2, amendments to 1, market events of 1 and 2 | 916,000 |
| `liveness` | does every handler end, and answer under the tag it accepted? | 2 ids, 2 tags, both preventing modes, market events | 682,000 |
| `gateways` | does a gateway lose an answer, an order or a client's view? | 3 requests, 2 orders, 2 client order ids, each gateway in turn | 1,655,000 |
| `venue_mirrors` | does each adapter keep the venue's book and the clients' orders? | 2 prices, quantities 0 to 2, 2 venue events, 4 ticks, a delay of 1, 1 lost connection, 1 client order | 332,000 |
| `market_data` | do clients follow book and tape, and is every subscriber served? | 2 sockets, 2 subscriptions, 2 events, 2 prices, passes of 2 frames, a ring of 4 | 624,000 |
| `building_blocks` | do the components that venues pick keep their promises? | queues of 3 orders, 3 ids and 2 requests in flight, a sequence space of 8, 4 waiters, 2 lines | 446,000 |
| `cancel_assert` | finding 1 | 2 orders | violated |
| `size_only_edit` | finding 2 | 2 orders | violated |
| `store_replay` | finding 3 | 3 requests | violated |
| `late_rows` | finding 4 | as `venue_mirrors`, no lost connection | violated |

What the properties say, beyond their names:

- `client_orders`: a client's order and its book entry agree in every state
  (`BookAgreesWithOrders`), the three indices know exactly the resting orders,
  records go back to the pool once, rows are published closed and current, an
  amendment keeps its place unless it moves or grows the order (`PlacesAreKept`, as in
  `symbol.cpp`; the docs disagree, finding 5).
- `self_match`: CANCEL_NEWEST is decided before anything is changed, the scan's
  prediction is what then trades, a fill-or-kill order that passes its check fills.
- `mirror`: the book is never crossed; `OwnersKnow` compares owners' last reports with
  the book between handlers; phantom totals are exact; venue liquidity clients took is
  neither lost nor doubled; a venue order a client waits for fills that client.
- `gateways`: whatever the exchange's speed, no report that answers a waiting handler
  is behind its cursor; an id is forgotten only if its order ends or a cancel of it is
  under way; a store has every order under its owner's name with each trade counted
  once; a subscribed client knows the last report of each of its orders.
- `venue_mirrors`: events are applied in the venue's order, and no event of the queue
  and no row of the level batch survives a snapshot; once all is applied the phantoms
  are the venue's book; a print finds the liquidity it took and counts once, whichever
  of print and update came first; no mirroring step takes a client's order away, or
  puts more of the venue's quantity ahead of it; Hyperliquid's indices resolve.
- `market_data`: a client that had its snapshot has the broadcast book; its tape has no
  gap and no repetition; subscribers are served.
- `building_blocks`: an allocation places everything and favours nobody; names, replay
  ranges and completions are exact; a wanted line is heard from.

### Bounds

Three ids are an aggressor and two resting orders: enough for a queue with a front
and a back at one level, for two levels, and for a self-match behind somebody else's
order. Quantities up to 3 give partial fills on both sides and amendments above, at
and below what has filled. `MaxPrio` only stops new requests, so a handler always
ends. Three requests to a gateway are a create, a cancel or edit of it, and another
client's or a repeated one, with any number of exchange steps between. Two venue
events are a quote or trade and the next one that can overtake it on the other
channel; a lost connection may come between. Two sockets are one that has its book
when the other subscribes or leaves. `RingBuffer` has four slots, so its limit is met
after three trades. The sequence space of `RetransmitRing` has 3 bits, so wrapping
happens within a run. Runs with a budget of events end when it is used up, which is
why five of them do not check for deadlock; `client_orders`, `self_match`, `mirror`,
`liveness` and `market_data` do. The models have no symmetry worth declaring: clients,
ids, tags and sockets are one or two each, and liveness rules it out elsewhere.

### Environment assumptions

- A venue message arrives within less than the sequencer's hold of one second
  (`MaxDelay` < `Hold`), which is what the sequencer is for; beyond it events are
  applied late by design. Each channel is in order.
- Every venue change has a time of its own, so two batches never tie.
- A client does not reuse the client order id of a live order (`ReuseClOrdIds`) and has
  one open order socket (`SocketsPerUser`). What the code does otherwise: a reused id can
  be answered by the other order's report, which the assertion at
  `coinbase_rest_order_gateway.cpp:455` excludes; the close of one of a user's two
  sockets unregisters the other (`coinbase_ws_order_gateway.cpp:283`).
- A client may subscribe to a channel again. At Coinbase it is then listed twice
  (`coinbase_publisher.cpp:246`) and gets every trade twice, and when it closes one entry
  is left (`:397-403`); `TapeIsComplete` and `ClientsFollowBook` allow these two things to
  such clients (`Repeated`) and nothing else. At Hyperliquid, where messages go by the
  sets of `subscription_info_`, there is no exception.
- `MirrorsVenue` and `PrintsCountOnce` speak of mirrors that no client took liquidity
  from: after that the mirror is meant to differ until the next update. At Hyperliquid
  they also leave out prints that came behind their own level message, since nothing
  there keeps them from counting twice. A level that a print emptied and an older update
  added again is not left out: `again` has the trades that the update did not reflect,
  and `PrintsCountOnce` says the level has that much more, and never any at Coinbase
  (finding 8).
- A recycled slot holds a client order id that an earlier cancel or amendment left, or
  none. What a request of another kind leaves at that place names no order.
- `ClientsFollowBook` leaves out the clients that a subscription response for others
  passed over with a changed book (`lapsed`): after a reconnect at Coinbase, and for l2
  at Hyperliquid, the code does not tell them.

### Fairness

- `FairSpec` asks weak fairness of `Step`, the steps of a handler that has started, and
  none of requests or events. That is the exchange thread running; the code has no wait
  inside a handler. `HandlersEnd` then says that the matching loops terminate.
- `market_data` asks it of the exchange's request handling, of the publisher's passes,
  which only happen while one is scheduled, and of the venue's snapshot after a
  subscription. Clients and further events have none. `SubscribersServed` ends where the
  last unsubscription has stopped the feed.
- `building_blocks` asks it of the exchange thread's poll, of the receiver threads, of a
  venue that keeps sending to joined groups, and of the retry timer. Failing socket
  calls and overruns are bounded, so a retry succeeds in the end.

## Findings

1. `exchange.cpp:889` asserts `leaves_qty == qty` before every cancel; an order that
   filled in part violates it (`cancel_assert`).
2. `match_common.hpp:364` says a market order's remainder never rests at NULL_PRICE.
   A Coinbase edit with a size and no price sends NULL_PRICE: the remainder is
   reported cancelled and then rests there (`size_only_edit`).
3. `order_store.hpp:15` says replaying the reports reconstructs each order's state. A new
   order that is reported PENDING_NEW and then refused for a self-match is rejected with
   an empty order id (`exchange.cpp:405`), which `apply` ignores (`order_store.hpp:85`):
   the store has it PENDING_NEW for good (`store_replay`). The same property also fails
   by the reject of a cancel that came after the fill: it has the order's id, and `apply`
   writes REJECTED over FILLED.
4. `docs/market-data.md:246` says a snapshot read at any time agrees with the deltas. A
   row waiting in `level_update_buffer_` goes out after the newer row that a print, a new
   level or a client's order has published (`late_rows`).
5. `docs/integration-coinbase.md:195` says that changing only the size keeps queue
   priority, `docs/order-lifecycle.md:178` and `docs/order-book.md:186` that it is reset on
   a price change. `symbol.cpp:64` also requeues a larger size, as
   `docs/matching-engine.md:206` and the tests say. `PlacesAreKept` is about the code.
6. `docs/order-book.md:106` says Coinbase's snapshot discards resting simulator orders.
   `coinbase_feed_callbacks.cpp:105` calls `clearMDOrders`, which keeps them
   (`ClientsKeepOrders`).
7. `docs/order-book.md:186` says phantoms draw priorities from the counter and queue
   ahead of later client orders. Hyperliquid adds them under priority 0, that is by time
   (`hyperliquid_exchange.cpp:168`, `297`, `380`), behind every client's order
   (`ClientsKeepPlace`).
8. `exchange.cpp:667` says an update older than a print is offset by the trades it has not
   seen. Where the print emptied the level, Hyperliquid takes the update at face value
   (`hyperliquid_exchange.cpp:283`); `PrintsCountOnce` says by how much. Coinbase has the
   same branch (`coinbase_exchange.cpp:303`), but its sequencer never gets there so.
9. `docs/integration-hyperliquid.md:181` says a cancel by number is rejected with
   UNKNOWN_ORDER. The handlers do not clear the client order id of a recycled slot
   (`hyperliquid_rest_order_gateway.cpp:323`, `430`), and the exchange looks that up first,
   so the request may reach another order. The properties of `gateways` hold all the same.

Findings 1 to 4 are violations that a run finds. In 5 to 9 docs or comments disagree with
what the modules take from the code, and the runs pass.

The other runs of `Exchange` give amendments real prices only, so that finding 2 does
not hide what holds otherwise.

## Proofs

The theorems hold for every value of the constants: any number of ids, prices, clients,
requests, messages, waiters and quantities. What is assumed of constants are the
`ASSUME`s of the modules that declare them: that bounds and quantities are natural
numbers, that names differ from the value for "none", that the hold and the sequence
space are not zero. Three theorems have a hypothesis of their own, stated in them and
explained under "Environment assumptions"; two groups of theorems about `Exchange` assume that
amendments carry a price. Every safety property of `Exchange` and `OrderGateways` that a
passing run checks is proved. TLC checked each inductive invariant on the instances of
the runs before it was proved.

### The exchange

**Safety of the books**: `TypeOK`, `BookAgreesWithOrders`, `IndicesInLockstep`,
`ReturnedOnce` and `Uncrossed` are invariant, amendments to NULL_PRICE included. None of
them is inductive alone. `Inv` adds `HandlerOK`: which kinds of request each phase
belongs to (`KindOK`); that a new order is in no index until it rests (`NewOK`) and an
amended one rests at its old price meanwhile (`ModifyOK`); that what the loop leaves has
nothing to trade with (`RestOK`), from which `Uncrossed` follows when it rests; that a
feed's aggressor is not in the book (`FeedOK`); and that client and venue orders share
no id (`IdsOK`). There is a lemma per action, with a step per conjunct of `Inv`.

**The checks before a match**: `SelfMatchDecidedUpFront`, `ScansWhatTrades` and
`FokFillsCompletely` are invariant. `Inv` needs the first: an amendment that the
CANCEL_NEWEST backstop inside the loop turned away would already be written onto its
order. So `Checked` proves `Inv` together with `ChecksInv`. `ScanOK` says the quantity
ahead of the client's first own order covers what is left to trade (`ToTrade`), `FokOK`
that the liquidity which counts covers what is left of a fill-or-kill order; a fill
takes the same amount from both sides. The quantities are totals over sets of
orders. They are defined as numbers of units (`QtyOf` is the cardinality of `Units`), so
the theorems about finite sets give the sums without an induction over the queue.

**The published book and the mirror**: `PublishedBookIsCurrent` follows from `PubOK`,
that a level without a cached row is published as it is; a step changes the total of no
level but those it caches. `PhantomTotalsExact` is inductive beside `Inv`.
`TagIsAccepted` needs `TagOK`, because a pending amendment has put its tag on the order
and remembers the one to restore. `MirrorWithinVenue` and `MarketOrdersFillClients` need
`VenueOK`: the venue's own book is not crossed and the event in hand is one of its
orders, so a venue order cannot meet another one in the mirror.

**Places and batches**: `EventsAreClosed` and `PlacesAreKept` (an action property).
`PriosOK` says priorities are drawn before they are used, `PlaceOK` that an amendment
still asks for a new place exactly when it moves or grows the order, and `CacheOK` that
nothing is cached before a request changes the book. `PricedOK` says nothing rests at
NULL_PRICE, which is also a theorem (`RestingHasPrice`).

**What owners are told**: `OwnersKnow` is invariant, and `Exchange` implements
`OrderLifecycle`. A report is right only if the one before it was, so the argument
carries an invariant of its own, `Owners`: an order that no handler has in hand is shown
live with its fills and leaves if it rests, and ended or unheard of if not (`OthersOK`);
the order in hand is tied to its last report phase by phase (`CurrentOK`), which is what
breaks between a report and the change of the book it announces. One group of lemmas
shows that each kind of report is a step of `OrderLifecycle` (`AcceptedStep`,
`ExecutedStep`, `CrossedStep`, ...), another that each action of `Exchange` changes at
most the beliefs its reports name and keeps `Owners`; `NextOwners` puts them together
with `Inv`.

The last two groups assume that amendments carry a price (`NullPrice \notin
AmendPrices`), as their runs do. A size-only edit is finding 2: its order rests at
NULL_PRICE after it was reported cancelled, and from there reaches every order of the
other side, so that a later amendment trades without leaving its place. The other
groups do not need it.

### The gateways

**No answer is skipped, no order is lost.** `GatewayInvariant` carries `ExchangeOK`: every
id given out has an owner and was announced, a request or report that names an order
comes from or goes to its owner, the request at work has been answered with a pending
notice, and the times of requests are below the next one to be given. `NoAnswerSkipped` alone is not
inductive: that a handler's cursor is not past its answer is lost at the next poll unless
the first report of its request is one it recognises. That is `RestWaits` and the same in
`HlOK`; it holds because the cursor is taken before the request is published and the first
report of a request carries its user, name and time. A step of the exchange is reduced
to what the handlers can notice of it (`StepOK`: it appends at most one report, and takes
at most one request off the queue), so each handler's invariant is shown once against that and not
against each of the exchange's actions. `ForgottenOrdersEnd` follows from `ForgetOK`, which
also speaks of the cancels of a batch that have been counted and not yet been written
to the table, and of the one that is waited for.

**A new order's answer is its own** (`AnswersAreOwn`), if client order ids are not reused
while an order has them (`~ReuseClOrdIds`). `NamesOK` says, from the check of the name to
the answer, that no live order and no queued request but the handler's own has the
name, and that a report with the name behind the cursor comes after one of the handler's
request.

**Stores and sockets.** `StoresAreComplete` needs no hypothesis. `StoreOf` states it for a
queue and a cursor and adds the status of an order's last report, which the snapshots
need. Counting trades is a cardinality of a set of positions, so one more report is one
more element and no induction over the queue is needed. `ClientsSeeTheirOrders` is proved
for one socket per user: `SocketsOK` then says that every subscribed socket is the one
registered for its user and the converse, through closes and heartbeat losses, and
`ViewsOK` that its view has what the store has.

### The Coinbase sequencer

`SnapshotSupersedes` is proved for every delay and `VenueOrder` under `MaxDelay < Hold`.
`SequencerInv` adds the messages still under way in both channels (`UnderWay`): they are
younger than the last snapshot and, when timely, than the last event dispatched. An
event is dispatched when something a hold younger was seen or it has waited for a hold;
either way every message that can still arrive was sent later than it. `BatchOK` says the
same of the batch as of the queue: a row joins it with the time of an event of the queue,
and a snapshot empties it. Ties are between
events of the same time, of which trades go first.

### The session helpers

`CompletedOnce`, `ReplaysAreExact` and `NamesAreExact` are proved without hypotheses.
`WaitsOK` says ids of waiters differ and are given out in turn, and counts completions of
those that wait, have left or neither, so that a late timer finds nobody. `RingOK` says a
slot holds one of the last messages that fit, in its own place, and that each of those is
in its slot; that two of them never share a slot is arithmetic of the remainder. For
`NamesAreExact` the entry of an id must agree with the requests in flight: `IndexOK` says its
claims are as many as the requests that name it, that they all mean the order the entry
has, that a new order is alone with its name, and that an entry which nobody needs is
gone.

### Only model-checked

- Liveness and everything under fairness (`HandlersEnd`, `SubscribersServed`,
  `LinesAreHeard`), which the prover does not do.
- `AllocationIsFair` and `PreChecksDecide`: sums over queues of any length and of shares
  rounded down, which need induction over data.
- `MirrorsVenue`, `PrintsFindLiquidity`, `PrintsCountOnce`, `ClientsKeepOrders`,
  `ClientsKeepPlace` and `RefFollowsVenue`: levels are queues whose totals are folds, a book is rebuilt and a
  diff applied by a fold over messages, prices are selected from sequences. What such a
  fold computes for every input needs the same induction.
- `ClientsFollowBook` and `TapeIsComplete`, for the same reason: a client's book is the
  fold of a diff, its tape a selection from the trade history.
- RECURSIVE operators would be out of the prover's reach too; the modules use none.

## Not modelled

- Message parsers, wire encoding, HTTP and WebSocket framing, JSON decoding,
  decompression, logging: conversions with no state that outlives a call. The FIX and
  JSON parsers are constructed nowhere.
- `TcpOrderGateway`: a transport base whose sessions belong to venues outside this
  repository.
- Matching configuration, instance expansion, process start and the registries: they
  run once before the threads do. Their results are constants and initial choices here.
- `stop()` of publishers and gateways: what happens to a timer closed on another thread
  is decided inside uSockets.
- `onHyperliquidDisconnected`, `md_thread_`, `try_push` and the pops of the ring buffer:
  nothing calls them.
- Tickers, product and fee queries: they answer from constants or from the same book.
- The queues, the L3 book and the WebSocket clients are external libraries, modelled
  from how the code uses them; a queue's overwriting of unread entries is modelled only
  in `MulticastFeed`.
