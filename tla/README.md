# Feed handler: a TLA+ verification project

The program replays or receives market data, carries it from an ingest thread to
a book thread over a lock-free ring, repairs the order of the messages, and keeps
a limit order book. This project models it in TLA+, model-checks the models with
TLC and proves the most important properties with TLAPS. `PROJECT.json` lists the
runs, the source lines behind each definition, the hazards the properties are aimed
at, and the findings.

## 1. Inventory

| Part | State | Operations | Interacts with |
|---|---|---|---|
| Ring and channel (`spsc_ring_buffer.hpp`) | `head`, `tail`, cached copies, slots, drop counter | `push`, `pop`, `size_approx`, `send` (Block or Drop), `receive` | producer and consumer thread, shared memory |
| Sequencer (`sequencer.cpp`) | `expected_`, `stale_`, reorder buffer, statistics | `offer`, `pop_ready`, `resync_to_snapshot` | called by `handle()` |
| Pipeline (`pipeline.cpp`) | held frame, `producer_done`, gap timing | ingest loop, poll/drain loop, `handle` | source, parser, channel, sequencer, book, publisher |
| Order book (`order_book.cpp`) | levels, intrusive lists, index, node pool, best pointers | `apply` (orders), `set_level` (levels), `observe_event_boundary`, `reset`, `depth_bids`/`depth_asks` | called by the book thread |
| ITCH file source and parser | file position, sequence number; the caller's event | `next_frame`, `parse` | called by the ingest thread |
| Live depth feed (`apps/live_feed.cpp`) | update ids, mode, current event, book | WebSocket callback, bootstrap, `re_snapshot`, consumer loop | exchange, channel, book |
| Live sessions (`apps/live_feed.cpp`) | active, pending and configured symbol, session number, restart and stop flags, trade tape, published snapshot | `supervise_feed`, `/symbol` handler, the consumer's session loop, shutdown | all live threads |
| Publisher, histogram, counters | last top of book; counts per bucket | `on_update`; `record`, `snapshot`, `reset` | book thread |
| Dashboard, command line, generator, benchmarks | none of the engine's | output | |

What is hard in this code, and to test:

* **The ring** is correct only because each plain slot access is ordered by an
  acquire load that may be many operations old (the cached indices). A weaker
  order or a test that is off by one shows up as a rare wrong item.
* **Recovery** has three ways out of a gap (replay, overflow and reload, duplicate
  copies) and a flag that is cleared in the middle of one of them.
* **The end of a stream**: `producer_done` and the last items become visible
  separately; a held frame may still have to be sent.
* **The book** caches its best prices and reuses nodes; an error shows long after
  its cause.
* **The live feed** joins two unsynchronised sources, REST snapshots and a stream,
  while the stream reconnects and the callback blocks on a full ring.
* **Symbol switches and shutdown** are a hand-shake of five threads over a few flags,
  two of them plain strings, held together by a session number and by waits of fixed
  length. Left-over messages, trades and answers of the old session must not get into
  the new one, two threads pop from a ring made for one, and `ws.stop()` waits for a
  callback that may itself be waiting.
* **Boundaries** of the histogram's arithmetic and of a file that is cut short.

## 2. Modules

| Module | Models | Correspondence |
|---|---|---|
| `BoundedFifo` | what the hand-off promises | abstract specification |
| `SpscChannel` | ring and channel | one action per shared-memory access; `ppc`/`cpc` are the places in `push()`/`pop()` |
| `Sequencer` | `offer`, `pop_ready`, `resync_to_snapshot` | one action per outcome of each call |
| `BookThread` | `handle()` on top of `Sequencer` | one action per outcome of `offer`, then one per turn of the drain loop |
| `Pipeline` | `run_pipeline()` | composes `SpscChannel` and `BookThread`; `ploc`/`cloc` are the places in the two loops |
| `PriceLevels` | price band, best-pointer repair, best prices and depth ladders | operators shared by both book modules |
| `L2Book` | the book driven by `set_level()`, with the conversion of the feed's decimal strings (`push_op`, `px_to_ticks`, `scaled_qty`) | one action per branch |
| `LimitBook`, `OrderBook` | the order-by-order book; `LimitBook` is its reference | one action per event type, with the helpers (`link_back`, `unlink`, `release`, ...) as operators on the book |
| `Publisher` | `on_update()` after each `apply()` | extends `OrderBook`; `apply_ev` is the call of both |
| `LiveSync` | one live session: callback, bootstrap, resynchronisation | one action per branch of the update-id state machine |
| `SymbolSwitch` | the control plane of all feeds: `/symbol` handler, `supervise_feed()`, the sockets, main thread | one action per access to shared state; `req`, `sup` and `main` are the places of the threads, `cb` tells whether a callback is in a message |
| `LiveSession` | one feed through several sessions: callback, trade tape, clean-up, consumer's session loop, what is published | extends `SymbolSwitch`; `op`, `clean` and `cons` are the places |
| `ItchFeed` | `next_frame()` and `parse()` | one action per outcome; lengths and fields are two tables |
| `LatencyHistogram` | the HDR histogram | the index arithmetic as operators under the code's names; `record`, `snapshot`, `reset` as actions |
| `SpscChannelProofs`, `BookThreadProofs`, `PipelineProofs`, `L2BookProofs`, `OrderBookProofs`, `LiveSyncProofs`, `LiveSessionProofs`, `ItchFeedProofs` | | the theorems of the module named, section 4; `LiveSessionProofs` also has those of `SymbolSwitch`, `OrderBookProofs` those of `Publisher` |
| `MC*` | | constants for TLC |

Definitions keep the code's names, without the trailing underscore. Next to some
definitions stands a variant commented as *a fault*: a form the code could have by
mistake (a dropped guard, an off-by-one, a missing reset). It is used nowhere; each
property of a passing run is known to fail if the fault `PROJECT.json` pairs it with
replaces the definition, which shows that the property depends on the code.

### Abstractions

* **Memory.** The loads of the other thread's index in `SpscChannel` return any
  value not older than the newest one this thread has loaded. What the thread then
  knows of the other's payload accesses is what the acquire/release pair carries
  (`headSync`, `tailSync`), and `NoDataRace` is stated in these terms. The indices
  are naturals: 64-bit counters do not wrap in the life of the program.
* **Events.** In `BookThread` a message is a sequence number and a copy, and the
  book is the sequence of events applied since its last reset; what an event does to
  price levels is in `OrderBook`. In `Pipeline` a message is its frame's number.
* **Time.** Pacing, `consumer_spin` and backoff are delays, which interleaving
  covers. How often a recovery is timed is modelled, how long it took is not.
* **Live updates.** The exchange, the WebSocket library and the REST service are not
  in the repository and are marked external. Update *n* of the exchange writes at
  most one level and its size is identified by *n*, so a stale, lost or rewound level
  is visible as a wrong number. The channel is the bounded FIFO that `SpscChannel`
  is proved to implement; under Drop it may refuse a message at any moment, since a
  producer's view of the consumer may be old.
* **Symbols.** In `LiveSession` a message, a trade and a snapshot are the symbol they
  are about, and the book is the set of symbols whose levels are in it; the consumer
  may skip, apply or resynchronise on any message, since which it does is `LiveSync`'s
  subject. `cfg.symbol` and `pending_symbol` are plain strings that one thread assigns
  while others read: an assignment is two steps with the value `Torn` in between, and
  two that overlap may leave `Torn` behind. A torn string is no symbol, so a REST
  request for it fails.
* **The shared ring.** `supervise_feed()` pops from the ring while the consumer may be
  popping too, which the ring is not made for. In `LiveSession` a pop is therefore every
  access it makes to what the two share: the load of `head`, the test of `cached_tail_`
  and the load of `tail`, the store of `cached_tail_`, the store of `head`. The ring is the
  log of all that was pushed, so a late store of `head` brings old messages back, and a
  slot may have been written over. `overrun` remembers that a pop has gone past the tail.
  The accesses are sequentially consistent, and the second test of `pop()` uses the tail
  it has just loaded, as compiled code does: a data race on `cached_tail_` allows more.
* **Waits of the live feed.** Two are modelled by what they are long enough for: the
  consumer's 600 ms outlast the clean-up of the session before (`ConsGrace`), and the
  supervisor's 1200 ms outlast a `pop()` a consumer of the session before is in (`Pause`).
  Neither is guaranteed by the code; `BookOfSession` rests on both, and they do not keep
  the pops of the two apart while the supervisor empties the ring.
* **Requests.** With `OneAtATime` the client waits for the answer before it asks again,
  as a user of the dashboard does who waits for the page to change; the page does not
  enforce it. `LiveSession` takes the handler as one step, which then only
  touches state nobody reads before it raises `restart`.
* **Libraries.** `ws.stop()` joins the thread that runs the callback, so it returns only
  when the callback has (`Joined`), and the HTTP server has a thread per connection: this
  is how the code uses them.
* **Decimal strings.** `L2Book` takes prices and sizes as multiples of a unit finer than
  a tick, or as malformed, and rounds half away from zero, clamps and rejects as
  `px_to_ticks` and `scaled_qty` do.
* **Bytes.** In `ItchFeed` a decoded field is the span of bytes it was assembled
  from, most significant first, so reads out of bounds and leftovers of an earlier
  message are visible. Only length prefixes, types and the side byte have values. A file
  is given as its frames and their places, each where the one before ends (`LaidOut`).
* **Words.** `LatencyHistogram` has a word of `Bits` bits (64 in the code). The rank
  of a percentile is computed in floating point; where the exact product is an
  integer it may come out just above, and the model allows both ranks, as
  `tests/test_instrumentation.cpp` notes for p99.9. `sum_` wraps with the word, so the
  mean is exact until it does: in the code that takes 3 * 10^8 samples of a minute each.

## 3. Runs

State counts are of distinct states; each run takes from a few seconds to three minutes.

### Passing runs

**`ring`** (31,380 states; 4 slots, 7 items, both policies). `NoDataRace`,
`FifoDelivery`, `ExactAccounting` (every item offered is accepted, counted as
dropped, or in hand), `ImplementsFifo`, and under fairness `EventuallyDelivered`.
Seven items go almost twice round four slots: every slot is reused, the ring fills,
and cached indices are stale by every possible amount.

**`book_thread`** (139,855 states; reorder capacity 2, sequence numbers to 6, 6
messages, 2 copies of each). Messages come in any order and number. The book is
contiguous (`BookContiguous`); nothing is applied twice or late, across reloads too
(`AppliedOnceInOrder`); stale means a real hole (`StaleIffHole`); every gap the sequencer
counts is timed once, by replay or reload (`GapsTimedOnce`); `expected_` skips numbers in a
reload only (`SkipsOnlyOnReload`).
Six messages allow a gap with two holes, an overflow, a reload and messages from
before it. The run may stop: the messages are used up.

**`pipeline`** (107,674 states; 4 frames, ring of 2, reorder capacity 2, at most one
frame that does not parse, every gap position and distance to 3, both policies).
`NothingLeftBehind`: when the call returns, the ring is empty and
frames = handled + parse errors + drops; it includes the types and `RingSafe`, the
ring's guarantees in this use. `CleanCountersMeanExactBook`: if the counters report no
trouble the book is exact. `GapRecoveryBoundary`: replay fills an injected gap exactly
if the frames that overtake it fit the reorder buffer. `LossIsVisible`: a hole behind
which something was handled was counted as a gap. `ImplementsBookThread` is the
refinement that carries `BookThread`'s theorems over. `Returns` is termination.

**`l2_book`** (82,896 states; 3 levels, two exchange prices to each, one beyond either
end of the band, sizes that round, are clamped, are zero or malformed). `BestExact`:
the cached pointers are the real best prices, through crossed books and levels that
change hands. `LevelsConsistent`: owner, size and level count agree (it includes the
types). `MirrorsFeed`: where the two sides never met, the book is what the feed said,
rounded and clamped. `DepthExact`: a ladder of *n* rows is the *n* best levels of its
side, best first, however sparse the side is and wherever the cached pointer is.

**`order_book`** (53,792 states up to symmetry; 2 levels of two ticks, 3 references,
sizes 1 and 2, pool chunks of 2, with the publisher). `MatchesReference`: from `head` on,
`next` leads through the nodes of exactly the orders `LimitBook` has, in its order.
`ListsSound` (with the types): so does `prev` from `tail`, and the cached count and
aggregate of a level are the number and the sum of its orders. `PoolPartitioned`: no node
is leaked, shared or dangling. `TopPublished`: what the publisher retains is the top of the
reference book after each update, unless an order joined a level of the other side; a
reload empties the book without telling the publisher. Three references give a level a
front, a middle and a back order, and make the pool grow twice; references are symmetric
because the code only compares them. The inductive invariant of the proofs, `PubInv`, was
checked on this instance too.

**`live_sync`** (517,347 states; 4 updates to 2 levels in events of 1 or 2, channel of
2, snapshots up to 2 updates old, one reconnection or malformed level and one failed
request). `BookTracksExchange`: a streaming book is the exchange's book as of
`prev_u` at each level but those whose message is in flight or was lost one by one.
`GapsMeanLoss`: no false alarm on an unbroken stream. `NeverRewinds`: applying an
event never takes a level back. `CallbackReturns`: the callback gets through although
it may block while the consumer waits for REST. The run may stop: updates are used up.

**`symbol_switch`** (180,275 states; Block; two feeds, two symbols, two requests that may
name an unknown symbol, a shutdown at any moment). `FeedsFollow`: no feed is left behind - a
feed the current request has reached has the active symbol, or has it pending with
`restart` raised. `SocketsMatchFeeds`: a socket that is up belongs to its feed's
session and symbol, and none is up when `main()` returns. `SwitchTakesEffect`: a feed
comes to stream the active symbol, unless its callback is in a message for ever. Under
Block that can happen, as the callback may wait for a ring that nobody empties while
snapshots fail or the price band is too wide, and `ws.stop()` waits for the callback: without
the exception the property is false under Block. Under Drop, where the callback always
returns, it holds without it. A second request can arrive at each point of
the switch before, which is what the 429 test is for.

**`live_session`** (814,300 states; Drop; one feed, one switch, two messages of up to two
levels, a ring of two slots, a tape of one row, one pop past the tail, a shutdown at any
moment). `BookOfSession`: no session mixes symbols - the book and what is left in the ring
for it are of the feed's symbol, although a late store of `head` can bring messages back
and answers to old requests come late. `PublishedOfOneSymbol`: once the consumer has begun
the feed's session, name, book and trades in `snap_json` are of the feed's symbol.
`ShutsDown`: the process ends after Ctrl-C. `SwitchIsShown`: the last switch is carried
through to what is published. All four are stated up to the first pop past the tail, which
the second consumer makes possible (below); after it nothing can be said of the ring.
`NothingOutlivesMain` is not: no thread touches the feed after `main()` returns, whatever
happened before. Four levels find the ring full and go round it, so a callback can
be inside `send()` when its socket is stopped and a slot can be written over under a late
pop. The steps under Block are among those under Drop, so the invariants carry over to
it; the liveness properties do not (below). Beyond the run, the inductive invariant `LiveInv`
was checked with two switches (1,372,939 states).

**`histogram`** (8,401 states; 8-bit word, five shapes, inputs around each power of
two, 5 samples). `CountsMatchSamples`: every bucket counts exactly the samples of its
range and no index leaves the array. `SnapshotAccurate`: each percentile is the
sample of its rank, rounded up by less than one part in 10^sig. The shapes include
`highest_` on a power of two and at the end of the word, where `buckets_needed()`
leaves its loop early; five samples make the 20th percentile fall on a rank.

**`itch_feed`** (117,813 states; files of up to two frames, every decoded type with one
byte too few, enough and one more, cut at every byte of the last frame).
`FieldsFromThisFrame`: each decoded byte belongs to the frame, to one field, and
nothing is left of the previous message. `FramesDelivered`: whole frames arrive once,
in order, numbered without a gap, and all of them. Two frames are what a leftover
needs.

### Runs that show a disagreement

Each checks one sentence of the documentation against the model of the code;
`PROJECT.json` quotes it under "findings".

* `shutdown_blocks` - with the Block policy the callback may be inside `send()` on a full
  ring when Ctrl-C comes. The consumer leaves without emptying the ring, `ws.stop()`
  waits for the callback, and the process does not end.
* `live_cut_event` - a resync begins on the first level of an event and discards it.
  If the new snapshot falls inside that event, the rest of the event straddles it and
  is applied, and the book streams on without the first level. It needs a snapshot
  older than the event that asked for it: with `MaxLag` 0 the property holds.

Met while modelling, without a run of their own:

* `pipeline.cpp:117` publishes after each event without asking `stale()`, also while a
  second hole is open; `sequencer.hpp:43` says the consumer "should suppress publishing".
* `set_level(side, price, 0)` removes whatever rests at the price, also the other
  side's level (`order_book.cpp:262`; `market_event.hpp:26`).
* An order that joins a level owned by the other side makes that level its own side's
  best (`order_book.cpp:144`; `DESIGN_NOTES.md:126`). The orders stay right
  (`MatchesReference`); `TopPublished` leaves this case out.
* `supervise_feed()` is a second consumer of the ring (`live_feed.cpp:1037`), which
  `spsc_ring_buffer.hpp:15` rules out, and it does harm whatever the policy. The consumer is
  in a `pop()` that found the ring empty and has loaded the tail; messages arrive, a switch
  begins, and the supervisor empties the ring; then the consumer stores the old tail in
  `cached_tail_`. From there on `head` differs from `cached_tail_`, which `pop()` takes for
  "not empty": it returns slots that hold nothing new, of the old symbol too, without end.
  The inner loop (`live_feed.cpp:936`) asks neither `live()` nor `g_stop`, and the producer
  sees a full ring. `overrun` marks this state in `LiveSession`; TLC reaches it in 31 steps.
  It takes a consumer that is held up in a `pop()` for as long as a switch takes.
* A consumer that lags behind does not ask whether it is live before it publishes
  (`live_feed.cpp:979-983`): after the session has changed, it can publish the new name over
  the book of the old symbol. `PublishedOfOneSymbol` begins where the consumer has begun the
  new session, and `SwitchIsShown` says that it gets there.
* If requests overlap, one that comes between the read of `pending_symbol` and the
  clearing of `restart` (`live_feed.cpp:1028-1029`) is lost for that feed: without
  `OneAtATime`, `FeedsFollow` is not claimed.
* Under Block a symbol switch can also wait for ever: while snapshots keep failing, or the
  price band is too wide, nobody empties the ring the callback waits for
  (`SwitchTakesEffect` makes the exception).
* `supervise_feed()` sets `ws_ops` to zero (`live_feed.cpp:1030`) while the consumer may
  still subtract its larger `last_ops` from it (`987`): one absurd rate, in the output only.
* Between the assignment of `cfg.symbol` and the change of session, a published snapshot
  can name the new symbol over the old book (`Changing` in `PublishedOfOneSymbol`).
* `DESIGN_NOTES.md:324` calls the top of book exact. Exchange prices finer than a tick
  share a level, and the last one written decides its size (`MirrorsFeed` is stated per
  tick); prices that leave the band `re_snapshot()` keeps (`live_feed.cpp:872`) are not
  in the book.
* `duplicates` (`sequencer.hpp:18`, "already processed") also counts events a reload
  passed over.
* `sequencer.cpp:34` says of a duplicate of a buffered event that it "simply overwrites
  (idempotent)". `emplace` keeps the first copy; where the copies are equal there is no
  difference. The theorem `AppliesFirstCopy` states what the code does.

### Fairness

* Threads are scheduled: weak fairness of each thread's steps (`WF`).
* A load repeated for ever does not return an old value for ever: strong fairness of
  the loads that return the newest value. This is what [atomics.order] asks of an
  implementation ("in a reasonable amount of time"); the Block spin and the poll of
  `producer_done` depend on it.
* In `LiveSync` a REST request ends, since the client sets connect and transfer
  timeouts (`live_feed.cpp:231-232`), and the model allows finitely many failures
  (`MaxFaults`).
* In `SymbolSwitch` and `LiveSession` each thread is weakly fair on its own: HTTP
  handlers, supervisors, main thread, consumer and the callback once it has begun.
  Nobody has to send a message, ask for a symbol or press Ctrl-C, and a snapshot request
  returns but never has to succeed. In `SymbolSwitch`, which has no ring, the callback has
  to return under Drop only, and `ws.stop()` is strongly fair: it closes the socket, so
  messages do not keep coming between it and the join.

Nothing is assumed of the exchange, the network or the order of messages.

## 4. Proofs

**Channel** (`SpscChannelProofs`), for every power-of-two capacity and every number
of items. `IndInv` is inductive; `NoDataRace`, `FifoDelivery`, `ExactAccounting` and
`OccupancyBounded` follow from it, and with it every step of the channel is a step of
`BoundedFifo` or a stutter (`Implementation`). None of the properties is inductive by
itself. The heart is `IndexOrder`: `cached_head <= p_seen <= head <= cached_tail <=
c_seen <= tail <= cached_head + Capacity`. It says that however old the copies are,
the producer's test is pessimistic in the right direction. `AccessCounts` ties the
payload accesses to the indices, `SyncExact` says each release store carries exactly
the accesses before it, `Contents` what the slots hold. The arithmetic behind reuse
of a slot is a lemma on its own: two indices less than `Capacity` apart are in
different slots. Assumption: `CapacityAssumption`, the code's `static_assert`s (with 2^30
as the largest capacity).

**Book thread** (`BookThreadProofs`), for every reorder capacity above zero, every
first sequence number and every set of events, under any order and multiplicity of
messages. `IndInv` is inductive; `BookContiguous`, `AppliedOnceInOrder`,
`StaleIffHole`, `ReloadOnlyWhenFull`, `GapsTimedOnce`, `FirstCopyWins` and the action
property `SkipsOnlyOnReload` follow. `StaleIffHole` speaks of the moments between two
messages; the invariant must also cover the middle of `handle()`, where the event at
`expected` may be buffered (`BufferInv`), `was_stale` still shows the state before the
message (`StaleInv`, `GapInv`), and everything applied is behind `expected`
(`OrderInv`). `CopyInv` keeps every known copy either behind `expected` or in the
buffer, without which a second copy could become the first. Assumptions:
`SequencerAssumption`, `BookThreadAssumption`.

**Pipeline** (`PipelineProofs`), for every ring and reorder capacity, number of frames,
set of frames that do not parse, place and length of the injected gap, and either policy.
The pipeline instantiates the channel and the handler, and so do the proofs: their
inductive invariants are carried over from the two modules above, and `PipelineInv` adds
what joins them. `IngestInv`: each frame read is a parse error, was sent, or is the one
held back; with nothing lost it is in the ring's log or in hand. `DrainInv`: the book
thread handles each message before it pops the next, and once it has seen
`producer_done` the tail it has seen is the last one, which is why the second drain loop
is enough. `HandledInv`: a handled message was applied or is buffered unless an overflow
was counted. From these follow `NothingLeftBehind`, `CleanCountersMeanExactBook`,
`LossIsVisible` and the refinement `ImplementsBookThread`. `GapRecoveryBoundary` needs a
second invariant, `GapRunInv`: without losses the order of the messages is fixed
(`Nth`: the held frame late, those that overtake it one early), and the number handled
tells how far the handler is - before the gap, in it, overflowed, replaying or past it
(`GapProgress`). Assumptions: `PipelineAssumption` and those of the two parts.

**Price-level book** (`L2BookProofs`), for any price band and tick, also the bad ones the
constructor repairs, and any prices and quantities. `BestExact`, `LevelsConsistent` and
`MirrorsFeed` are inductive together (`BookInv`): the rescan is exact only because the
owner of every level is, and the cached pointer bounds what the rescan may skip. The
lemmas are about `Highest` and `Lowest` when a set gains or loses one element.
`DepthExact` follows from `BookInv` with an argument about the walk over the levels. Its
recursive definition is not assumed to define a function: `WalkExists` builds one, place
by place, and shows by a least counterexample that it reaches the end of the band; the
rows it collects from a level on are then the best ones of that side beyond it
(`WalkRanks`, the same argument from the far end). Assumptions: `PriceBandAssumption`,
`L2Assumption`.

**Order-by-order book and publisher** (`OrderBookProofs`), for any price band and tick,
references, prices, sizes and sides the feed mentions, and any pool chunk:
`MatchesReference`, `ListsSound`, `PoolPartitioned` for every sequence of events and
resets, and `TopPublished` for the book thread's use of the pair. No property is inductive
by itself: an unlink is right only if `prev` and `next` agree, a release only if the node
was in one list, a new node is free only if the pool says so. `BookInv` takes them
together, with `Distinct` (a reference is in one place of one queue) and, as long as no
order has joined a level of the other side, `OneSided` and `BestCached` (the orders of a
level are of the level's side, and the cached pointers are the reference's best). The proof
follows the code. Each helper (`grow`, `link_back`, `unlink`, `release`, the retreat of a
best pointer) has a lemma that says field by field what it does to any book it may be given;
`InsertIs`, `RemoveIs` and `TakeIs` put them together, in the code's order, to what an
insertion, a removal and a partial reduction do; and `AddKeeps`, `DeleteKeeps` and
`ReduceKeeps` show that the result matches the reference's answer. A replace is a removal
and an insertion, with the book between them. What adding up the sizes needs of induction
is a least-counterexample argument on the running totals. The publisher's steps are steps
of the book (`PublisherDrivesTheBook`), which carries `BookInv` over; `PubInv` adds that the
retained levels are the `same` as the book's after an update. Assumptions:
`PriceBandAssumption`, `OrderBookAssumption`. Sizes and sums are not bounded: `aggregate_size`
has 64 bits and its orders 32.

**Live synchronisation** (`LiveSyncProofs`), for any levels, any history of the exchange
and any cut of it into events, any capacity, snapshot lag and number of faults, and both
policies: `BookTracksExchange`, `GapsMeanLoss` and the action property `NeverRewinds`.
`BookTracksExchange` is far from inductive: in the middle of an event some levels are
new and some are not. `SyncInv` says why it comes right. `Complete`: the messages of an
event stay together on their way, and each is there or counted lost. `StreamInv`: no
level is newer than `prev_u`, and one that is older is among those the consumer will
still apply of the event it is in (`Remaining`) or was lost. `EventInv` ties `cur_apply`
to the event in hand; `OrderInv`, for `GapsMeanLoss`, says that without loss the events
join up with each other, the book and the stream. Assumption: `LiveAssumption`.

**Symbol switch** (`LiveSessionProofs`, first part), for any number of feeds, symbols, handlers and
requests: `FeedsFollow` and `SocketsMatchFeeds`. In `SwitchInv`, `SupInv` says where a
supervisor may be while its socket is up and that it keeps `restart` raised through a
switch; `ReqInv` says that a request which passed the test of a feed's `restart` keeps
that feed to itself (`Reserved`) until it raises `restart` there. That is the content of
the 429 test, and where `OneAtATime` is needed. `HandOver` covers the two steps between
reading `pending_symbol` and clearing `restart`. Assumption: `SwitchAssumption`.

**Live sessions** (`LiveSessionProofs`), for one feed and one request at a time
(`OneFeed`, part of `Init`), any symbols, ring, tape and number of
messages, and either policy: `BookOfSession`, `PublishedOfOneSymbol`,
`NothingOutlivesMain`. `LiveInv` contains `SwitchInv`, whose proof is reused, and adds
where callback and pops may be (`CallbackInv`, `TurnInv`: the two pops overlap only while
the supervisor empties the ring, and then the consumer is of a session that is over), what
the tape holds and which answers may come (`DataInv`) and the order of session numbers
(`SessionInv`). `PopsInv` is about ring and book until a pop goes past the tail: no index is
past it (`IndexInv`), what is left is of the feed's symbol or a consumer of the session
before is on its way through it and will leave none (`RingInv`, `ReadsOn`), and the
current book is of the feed's symbol (`BookInv`). `ReadsOn` is where the late stores come in:
after one of `head`, the supervisor may have found the ring empty that is not.
Assumption: `LiveAssumption`, capacities above zero; the two waits of section 2
are in the model and are assumed with it.

**Framing and parsing** (`ItchFeedProofs`), for any files, however many frames they have
and of whatever types and lengths, cut anywhere in the last frame: `FramesDelivered` and
`FieldsFromThisFrame`. `FeedInv`: the reader stands behind the `seq` frames it delivered,
the raw frame is the last of them, and a parsed event is the decoding of that frame. The
rest is the tables: for each type the spans lie within the type's length and share no
byte (`Layouts`). Assumption: `ItchAssumption`, frames follow one another.

**Only model-checked.**

* Liveness (`EventuallyDelivered`, `Returns`, `CallbackReturns`, `SwitchTakesEffect`,
  `ShutsDown`, `SwitchIsShown`), which the prover does not treat.
* The histogram (`CountsMatchSamples`, `SnapshotAccurate`). Its shape and indices are
  computed with powers of two and ten, of which the provers know nothing, and its
  percentiles with a running sum over all samples: both need induction over data, which
  the provers cannot do here.

## 5. Not modelled

* A reporter thread reading the histogram while it is written. The class allows it,
  but both callers take snapshots on the recording thread.
* `ThroughputCounter` and `RateSampler`: one counter and one quotient.
* The GET handlers of the dashboard, which only read; JSON and HTML formatting;
  command-line parsing; the data generator and the benchmarks: no state of the engine.
* Opening and mapping files, sockets and TLS: I/O. A file that cannot be opened reads
  like an empty one.

## 6. Plan

Done, in this order: channel and its abstract specification; sequencer and book
thread; pipeline; the two books; live synchronisation; framing, parsing and the
histogram; proofs for the channel and the book thread; symbol switch and live sessions;
the publisher; price conversion and depth ladders; proofs for the symbol switch, the
price-level book, live sessions and synchronisation, the pipeline, framing and parsing;
proofs for the order-by-order book, the publisher and the depth ladders.

Every invariant and action property of the passing runs is proved but the two of the
histogram. Bounding the sizes to the widths of the code would be the next refinement of the
books.
