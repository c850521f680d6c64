# Verification of MDD v2

MDD v2 watches the stocks of one exchange through a trading day. When a stock
reaches its upper limit price the program sends one buy order for it, if the
model has predicted so. The prediction has to be there before the tick that
triggers the order, so one thread handles the market data and decides with no
computation at all, while twelve others keep predicting for the next moments of
each stock that comes near its limit price.

This directory holds TLA+ modules for the core of the program, the TLC
configurations that model-check them, and theorems about them checked by TLAPS.

The program is built for one source of data and orders (`TARGET_SECURITY`: REPLAY,
NE, XC, OST) and one market (`TARGET_MARKET`: SH, SZ). The models of the channel, the
cache and the computation are of the default build, the replay for SH, with
`ALWAYS_BUY` off (`CMakeLists.txt`); those of orders, login, limit detection and
packets are of the live builds, and say which. Paths below are relative to `src/`
of the repository.

    tlc -config SpscRing.cfg SpscRing           tlapm SpscRing_proofs.tla
    tlc -config TradingClock.cfg TradingClock   tlapm StockCompute_proofs.tla
    tlc -config WantCache.cfg WantCache         tlapm WantCache_proofs.tla
    tlc -config MCChannel.cfg MCChannel         tlapm Channel_proofs.tla
    tlc -config Channel.cfg Channel
    tlc -config StockCompute.cfg StockCompute
    tlc -config MCOrderRef.cfg MCOrderRef       tlapm OrderRef_proofs.tla
    tlc -config MCOstSession.cfg MCOstSession   tlapm OstSession_proofs.tla
    tlc -config LimitQueue.cfg LimitQueue       tlapm LimitQueue_proofs.tla
    tlc -config UdpReceive.cfg UdpReceive       tlapm UdpReceive_proofs.tla
    tlc -config SzPacket.cfg SzPacket           (finds a violation)
    tlc -config LimitQueueMs.cfg LimitQueue     (finds a violation)

## 1. The system

### Threads

- **main** (`main.cpp`, `MDD::start`, `MDD::stop`) sets everything up, waits
  for the end of the market data, and takes everything down.
- **market data**, one thread: in a replay it reads a recorded day and calls
  `MDD::handleTick` for each tick; other builds do so from the receive thread of
  a vendor library.
- **compute**, twelve threads (`computeThreadMain`), each with a range of the
  stocks and a tick ring of its own.
- In the live builds, the threads of the **trade api** that answer orders.

The threads share no lock. What they share is: one ring per channel (market
data to compute), one want cache per stock (compute to market data), the flag
`StockState::alive` (market data, read once by main), and the stop tokens.

### Components

| component | state | operations | what makes it correct |
|---|---|---|---|
| tick ring, `SPSC.h`, `TickRing.h` | two shared positions, a private copy of each on either side, the slots | `write_one`, `read_some` (and bulk forms nobody calls) | it is a bounded FIFO; a slot is never read while written; every accepted tick is fetched |
| clock, `timestamp.h` | none (`nextTickTimestamp` of `StockCompute`) | conversions between exchange time, linear time and time without the lunch break | the grid of 100 ms has no gap or double; both threads round to the same grid |
| want cache, `WantCache.h` | 16 slots, an index | store a prediction; look the nearest one up | an answer is a prediction near enough, although slots change during the look-up |
| stock state, `StockState.cpp` | `alive`, limit price, prepared order | `onStatic`, `onTick`, `stop`, `onRspOrder` | at most one order; every tick before the limit is forwarded; a closed stock is followed by an end sign |
| stock compute, `StockCompute.cpp`, `IIRState.cpp` | snapshots, a filter, the book of sell orders near the limit, backup of the state | `onTick`, `checkApproach`, `onApproach` | the state is that of the real trades although predictions run on it; the book matches the exchange |
| compute channel, `MDD.cpp` | the tick buffer, the stocks chosen in this cycle | one cycle of about 95 ms: fetch, then predict | only stocks that are computed are predicted for; the stop request is seen |
| replay source, `MDS_replay.cpp` | started and finished flags, stop token | `startReceive`, `requestStop`, `stop` | finishes when told to; publishes nothing after `stop` |
| limit detection of the live SZ builds, `StockState.cpp` | `upRemainQty100`, the quantity for sale at the limit | `onTick` | a signal is real; no hit is missed |
| trade api, `OES_ost.cpp`, `OES_xele.cpp`, `OrderRefLut.h` | login flags, order numbers, a table of references; none (REPLAY) | login callbacks, `sendReqOrder`, `sendReqOrderBatch`, answers | an answer finds the stock of its order; order numbers are new |
| start of the OST build, `OES_ost.cpp`, `MDS_ost.cpp` | the vector of statics, a count of finished queries | login, two queries, `getDepthMarketData`, `onStatic` | each stock gets the limit price of its own market |
| OST receiver, `ostmd/` | pool of packet buffers, ring of the card | receive, split packets | every message handled once and in order; every buffer comes back |
| radix sort, `radixSort.h` | none | sort the recording by time | a stable permutation |
| config and stock index, `MDD.cpp` | table from stock code to position | read the daily file | a code leads to its stock or to none |

How they interact, in the order of one day:

1. `MDS::startReceive` gives each `StockState` its static data on the main
   thread (a stock with a limit price becomes `alive`) and starts the market
   data thread. Only then `StockCompute::start` looks at `alive`, and only then
   the compute threads start: ticks may be in the rings, and stocks closed, before.
2. A tick goes to `StockState::onTick`, which ignores it (stock closed), pushes
   it to the ring, or, if it is a buy order resting at the limit price, asks the
   want cache, sends the order or not, and in both cases closes the stock and
   pushes an end sign.
3. The compute thread clears `approachingLimitUp` of its stocks, fetches ticks
   until its time is over, collects the stocks whose flag a trade has set, drops
   some if more than three, and predicts for the current and the next 100 ms of
   each. A prediction steps the live state to the future, buys up the book, takes
   the verdict, stores it in the want cache and restores the state.
4. When the recording is over, or SIGINT asked for it, `MDD::stop` joins the
   market data thread, then each compute thread, stops every stock (whose end
   signs nobody reads any more) and frees the arrays.

In the live builds the day begins earlier: the trade api logs in on a thread of
its own, main waits for its flags, the OST build asks for the statics of both
exchanges and waits for both answers, and only then the receive threads start.
From then on the market data thread sends orders and records them in a table, and
the thread of the trade api looks answers up there, without a lock.

Hard about it: relaxed and acquire/release atomics without locks, a look-up that
is no snapshot, a full ring that drops anything, start and stop steps that
overlap with running threads, predictions on live state, arithmetic on a clock
with a hole, answers that overtake the bookkeeping of their request, flags set
before what they stand for, and counts kept over a whole day. `PROJECT.json` lists each such place under "hazards".

## 2. The modules

| module | models | source |
|---|---|---|
| `BoundedFifo` | what a ring promises, without slots or positions | abstract |
| `SpscRing` | `write_one` and `read_some`, one step for each load, store and slot access | `SPSC.h` |
| `Timestamp` | the conversions as operators | `timestamp.h`, `WantCache.h:61` |
| `TradingClock` | `nextTickTimestamp` through a day | `StockCompute.cpp` |
| `WantCache` | predictions stored while a look-up scans | `WantCache.h`, `StockCompute::onApproach` |
| `Channel`, `MCChannel` | the three threads around one channel, from start to stop | `MDD.cpp`, `main.cpp`, `StockState.cpp`, `MDS_replay.cpp` |
| `StockCompute` | one stock: book, snapshots, filter, predictions | `StockCompute.cpp`, `IIRState.cpp` |
| `LimitQueue` | detection of the limit in the live SZ builds, against a price level of the exchange | `StockState.cpp` |
| `StockIndex` | the table from codes to positions, as operators | `MDD.cpp` |
| `OrderRef`, `MCOrderRef` | login, orders and answers on two threads | `OES_xele.cpp`, `OES_ost.cpp`, `OrderRefLut.h` |
| `OstSession`, `MCOstSession` | login, statics and start of the OST build | `OES_ost.cpp`, `MDS_ost.cpp`, `MDD.cpp`, `StockState.cpp` |
| `UdpReceive` | one receive thread, its buffers and its end | `ostmd/efvi_receive_base.cpp`, `ostmd/ostmd.cpp` |
| `SzPacket` | splitting of a packet of the SZ feed | `ostmd/ostmd.cpp` |
| `*_proofs` | theorems on the module of that name; those on `TradingClock` are in `StockCompute_proofs`, which builds on them | |

How they fit: `SpscRing` implements `BoundedFifo`, and `Channel` uses such a FIFO
as its ring: a push that is refused when full, and a fetch whose places are
released together. (The fetch of `Channel` copies its batch in one step. That
takes no behaviour from the reader that matters there: the slots it copies are
not released before the end, so a tick published during the copy only makes the
batch longer, as if the fetch had begun later.) `Channel` lets a look-up find a
prediction to buy only if one was stored, which `WantCache` shows
(`AnswerIsPrediction`), and lets a prediction have either verdict. `StockCompute`
refines one `OnApproach` and one `HandleTick` of `Channel` into the steps of the
code, and implements `TradingClock`. `Timestamp` is common to `TradingClock`,
`WantCache` and `StockCompute`.

The live builds put other parts at the two ends. `OstSession` is what comes before
`StartReceive` of `Channel`: where that takes any set of stocks as watched,
`OstSession` shows which. `UdpReceive` and `SzPacket` are what calls `onTick`
instead of `replayMain`. `LimitQueue` is how `onTick` comes to `LimitUp` where the
feed does not say that a buy order rests. `OrderRef`, on top of `StockIndex`, is
what becomes of the order that `LimitUp` sends. The thread of the compute channel
is the same in all builds.

### SpscRing

A position is a slot number instead of a pointer. `wpc` and `rpc` say where the
writer and the reader are; each atomic load or store and each slot access is an
action, so TLC interleaves them freely. The acquire loads and release stores
order the slot accesses around them, so a step sees all steps before it. Locals
that shadow a member are the member, which only its owner reads.

- `PositionOrder`: cached positions may be old, and never wrong.
- `CallsConsistent`: a call in progress agrees with slots and positions.
- `NoSlotRace`: a slot is not copied while it is stored.
- `ImplementsFifo`: refinement. `Accept` is the store of the write position,
  `Refuse` the load that sees a full ring, `Copy` a slot access, `SeeDrained` the
  load that sees an empty one, `Return` the store of the read position.
- `EverySlotReleased`: each occupied slot is released, under fairness of the
  reader alone: the compute thread fetches in a loop until it is stopped. The
  writer gets no fairness, as nothing makes it push.

### Timestamp, TradingClock

Times keep their decimal form HHMMSSmmm where the code has it. Values stay
below 2^31, so no width is modelled.

- `OneStepEach`: after n steps the clock shows n intervals since the opening.
- `NeverInLunch`: no grid time lies inside the lunch break.
- `RoundsToGrid`: the rounding of the market data thread maps each tick of an
  interval to the grid time of the compute thread. Ticks have a resolution of
  10 ms (Shanghai), which is why +90 is a ceiling.

### WantCache

`Predict` stores under the current grid time, then under the next one, as the two
calls of `onApproach` in a cycle do, and once more for a stock that is called
for twice (see `Channel`); `Trade` moves the grid on between two rounds. `Ask`,
`LoadSlot` and `Answer` are the look-up, one load a step, with predictions
stored in between. `stored`, `nearest` and `overwritten` are ghosts: what was
stored in each slot, what the loaded minimum stands for, and which slots were
overwritten since the look-up began.

- `TypeOK`: the index stays among the slots, and a slot is a millisecond of the day
  or one less, whatever time the grid has come to.
- `AnswerIsPrediction`: an answer other than `NotSure` is one that was predicted
  for a time at most four steps away, with the verdict predicted.
- `SureIfPredicted`: `NotSure` only if no prediction near enough stayed in the
  cache during the look-up.
- `OwnTimeDecides`: a prediction for the very time of the tick outweighs all
  others, and of two for it the one not to buy.

### Channel

The state is that of the three threads and what they share. `alive`, `orders`
belong to the market data thread, `tickBuf`, `computeAlive`, `approaching`,
`chosen` to the compute thread, `wantBuy` stands for the want caches, `lostEnds`
is a ghost. Actions, by thread: `StartReceive` ... `StopStocks` (main), `Sigint`
(the handler), `Load` ... `Finish` (market data), `BeginCycle` ... `EndCycle`
(compute). Timing (`sleep_for`, the 95 ms of a cycle, the pace of the replay) is
abstracted: any step may come at any time the code's conditions allow.

- `AtMostOneOrder`.
- `EndSignPending`: wherever `StockCompute::start` reads `alive` between the ticks,
  a stock that is closed and still computed has its end sign in the ring or in the
  buffer, or its end sign met a full ring. The code drops it then, and the stock is
  computed for the rest of the day; the model keeps that in `lostEnds` instead of
  assuming it away.
- `EndSignIsLast`: no tick of a stock follows its end sign.
- `PredictsOnlyComputed` (action property): a prediction is made only for a stock
  that is computed, whatever the choice of the cycle keeps. The flag of the stock
  is all that holds back a closed one, and the end sign resets it.
- `QuietWhenStopped` (action property): after `MDD::stop` nothing moves.
- `EndsWhenAsked` (liveness): a finished recording, or SIGINT, ends the program,
  unless the comparison below has crashed it.
  Fairness is weak fairness of each thread: they are bound to processors of their
  own and block nowhere but in the joins modelled. SIGINT gets none.

Of more than three approaching stocks the code keeps two (`MaxApproach` and `Kept`
are 3 and 2). The comparison it passes to `nth_element` (`MDD.cpp:239`) looks
amounts up by the addresses of its arguments. These are elements that are being
moved, or a copy on the stack, for which the index is wild. So the comparison is
no order, and the loops of `nth_element` that rely on one may run past the ends of
the vector, where ids of earlier cycles lie. All this is undefined, and the model
has the outcomes: any stocks of the channel in the kept places, approaching or not,
closed or not, one of them in several places (`Selected`), or the end of the
process (`CompareWild`, the state "crashed"). An id that is none of the channel, and
damage to other memory, count as that end.

### StockCompute

The micro steps of one stock: `OnOrder`, `OnCancel`, `OnTrade` and `OnEnd` are
the branches of `onTick`; `StepForTrade` and `AddTrade` are `addRealTrade`;
`CheckApproach` to `DecideWantBuy` are a round of predictions, with one action for
each turn of `stepSnapshotUntil`; `calls` counts the calls of `onApproach` that are
still to come, none, one or two as the stock is in the kept places. Prices are "near" (at
`upperLimitPriceApproach` or above) or "far". The IIR filter is the sequence of
volumes it was fed: what its floating-point state depends on. `open`, `traded`
and `pushed` are ghosts: the exchange's own view, the volume, and the times
predicted for in the cycle.

- `FilterInStep`: the filter was fed the snapshots' volumes, also in the middle of
  a prediction.
- `VolumeConserved`: the snapshots and the current interval hold what was traded.
- `RoundWithoutGap`: a round predicts for the current time, then for the next, and
  for the one after it only if the stock is in two of the kept places.
- `BookMatchesExchange`: the book holds what is open at the exchange. The
  environment is that of Shanghai: an order number is used once, no more is traded
  than is open, an order that trades on arrival is reported after those trades.
- `ImplementsClock`: refinement. `Kept` is the state as a restore would bring it
  back: the live one, or while a prediction runs the saved one with the snapshots
  cut to the saved count. Seen from `Kept` no prediction is a step, `StepForTrade`
  is `Advance` of `TradingClock`, and everything else is a stutter. The steps are
  as many as end before midnight. What this comes to for the state itself is
  `SnapshotClock`, which is proved and not checked by a run of its own: one snapshot
  for each 100 ms since the opening, whatever predictions ran in between. The
  factors take snapshots by position.

### LimitQueue

The feed of SZ does not say whether a buy order rests at the limit price.
`StockState` counts what is offered there (sell limit orders at the limit) less
what is traded there; a trade that takes the count below zero must have come from
somebody who asked for less, so a buyer was waiting. `OnOrder`, `OnTrade` and
`EndSign` are the branches of `onTick` and `stop`. Everything else is the exchange:
one price level, the two calls, matching of one incoming order, cancels of both
sides, sell orders "at the best price", which get the limit price without naming
it. `hit`, `opened`, `bestTraded` and `cancelled` are ghosts of the exchange's view.

- `SignalIsReal`: a signal comes from a trade of a resting buy order, unless sells
  that are not counted traded before. (The code does not count cheaper sells of
  the opening call that trade at the limit, nor orders at the best price.)
- `MissedOnlyByCancel`: while a stock is alive in the day, cheaper sells have hit
  resting buys for no more than was cancelled. A cancel is not deducted, so
  cancels can hide a hit. Both exceptions are what the code does; the models
  state how far they reach.
- `SignDecodes`: time and verdict are read back from the end sign
  (`time + verdict`, taken apart with `/ 10` and `% 10`).

With times in multiples of ten milliseconds `SignDecodes` holds (run `limit_queue`).
Run `end_sign_ms` gives the same model times precise to the millisecond, as
`MDS.h:75` describes them, and TLC finds a sign that is read as a verdict that
does not exist (finding). The digit reaches a log line only.

### StockIndex, OrderRef

`linearizeStockId`, `g_stockIdLut` and `stockId` are the table of `MDD.cpp`, with
the unsigned subtraction and the shared last entry for all codes out of range.

`OrderRef` has the four login callbacks of Xele, `Started` for main's wait, and the
sending thread in the order of the code: the request is out (`Send`), the table is
resized (`Resize`), the entry is stored (`Store`). The thread of the api looks an
answer up (`Lookup`) and uses what it read (`handleRspOrder`), anywhere in between;
an answer may come before the entry, name any request of a batch, and come again.
The table is read without a lock: a look-up that overlaps with a resize is a data
race and may read anything (`torn`). The OST build is the same with one flag and
no batches.

- `AnswerToOwnStock`: unless torn, an answer goes to the stock of its order or
  nowhere: the new entries of a resize are -1, and -1 finds no stock.
- `FoundOnceRecorded`: an answer that comes after the entry is stored is not
  dropped.
- `LocalIdsFresh`: no order number is used twice, nor one of an earlier session,
  although `canQuery` is set before the highest number of that session is known.

### OstSession

`LoginOK`, `Identify`, `Ask(1)`, `Ask(2)` and `Fail` are the steps of `OnRspLogin`;
main, which waits for the flag set in the first, may run between any two.
`OnRspQryDepthMarketData` is one answer, `OnRspQryError` an error. main is
`IsStarted`, `GetDepthMarketData`, `HandleStatic` for each element, `OstStart`.

- `IdentityKnown`: the requests of a stock are prepared after the fields of the
  session are set, although the flag main sees comes first.
- `OwnLimit`: when the ticks flow each stock has the limit price of its own
  market. The code does not look at the exchange of an answer, and codes such as
  000001 exist on both; it works since SH is asked first and SZ overwrites. It works
  for the price only: with no limit price on its own market `onStatic` returns early
  (`StockState.cpp:83`), and a stock whose code has one on the other exchange stays
  alive, with the order of the other one prepared. So `OwnLimit` says that a stock
  is alive if and only if its code has a limit price somewhere.
- `StaticsSettled`: the vector is complete before main takes its address.
- `StartsIfAnswered` (liveness): the start comes to an end unless something was
  refused. After an error main waits for ever: the property excepts it.

### UdpReceive

A buffer is free, posted to the card, in an event, or being handled. `Arrive` is
the card; `Bind`, `Poll`, `Handle`, `Refill`, `Quit` are `work_thread`, with one
action for each event of a poll; `StoreHandle`, `Close`, `Joined` are main.

- `BufferConserved`: no buffer is lost and none is in two places.
- `NeverDry`: buffers are posted again only after an event, so a thread that polls
  an empty queue must have left a buffer to the card.
- `HandledInOrder`: the messages of one-size packets are handled once each, in
  the order of packets and in the order within a packet.
- `PacketsHandled` (liveness): what the card accepted is handled, unless the
  receiver is closed first, or its thread crashed at its start: it dereferences
  the pointer that its creator assigns after the thread runs
  (`efvi_receive_base.cpp:157`). The model has that crash as an outcome.

### SzPacket

The loop of `process_packet` for packets with two kinds of messages. Its step is
`1 << (type - 20)`: 8 for an order and 16 for a trade, where the messages take 64
and 72 bytes and the comment next to it says `sizeof`. `AtMessage`, that the loop
stays at the beginnings of messages, is violated by the first packet with two
messages (run `packet_sz`, finding). Behind it waits a second one: the end is
tested after the step and before the message is handled (`ostmd.cpp:54`), so even
with the right step the last message of each packet, and the only one of a packet
with one, would not be handled.

## 3. Runs, bounds and what they show

| run | bounds | distinct states |
|---|---|---|
| `spsc_ring` | 4 slots, batches of 2, 2 values | 20 375 |
| `trading_clock` | all 144 001 steps of a day | 144 002 |
| `want_cache` | 4 slots, 3 grid times of the clock and those predicted after it, ticks at, at the edge of, and beyond the tolerance | 451 310 |
| `channel` | 4 stocks (symmetric), ring of 3, batches of 2, 4 ticks, 2 kept of more than 2 | 534 774 |
| `channel_shutdown` | 2 stocks, ring of 2, batches of 2, 3 ticks, 1 kept of more than 1 | 48 848 |
| `stock_compute` | 2 orders (one near), quantities 1 and 2, a trade before and three after the opening, 5 ticks | 2 381 066 |
| `order_ref` | 3 codes, the lowest and the highest of SH among them, batches of 1 and 2, 5 request numbers | 925 551 |
| `limit_queue` | quantities 1 and 2, 8 orders, calls and cancels, the first and last time of the window | 36 117 |
| `ost_session` | SZ, 4 stocks: two codes on both exchanges, one of these and another with no limit price of their own; 3 and 4 instruments | 2 284 |
| `udp_receive` | 5 buffers, batches of 2, polls of 3, packets too short and with two messages, 6 packets | 124 876 |
| `packet_sz` (violation) | packets of up to 3 messages | |
| `end_sign_ms` (violation) | as `limit_queue`, with a time of 5 ms past | |

Why they are enough: in `spsc_ring` the positions go around without bound, every
relation of the two positions and their copies occurs, and the batch is smaller
than the ring. `trading_clock` is complete. In `want_cache` the index goes around
the four slots many times, so the look-up sees slots never written, written
before and overwritten during it; `Tolerance` has its real value 402. In
`channel` more than two of four stocks approach while the fourth is closed, or was
never watched, and may be one of the two that are kept; four ticks fill a ring of
three, so the end sign is lost in some behaviours and arrives in others. `Channel` without symmetry is used for liveness, where
symmetry is not sound. In `stock_compute` the times span several steps, so a trade
closes none, one or two intervals, and five ticks reach a second round of
predictions after further trades.

In `order_ref` five numbers are several orders or two batches and one, so the
table grows several times, with gaps for the second order of a batch, while
answers to each are looked up. In `limit_queue` eight events suffice for an opening
call with sells left over, a day with orders of all kinds, cancels, and the
closing call. `ost_session` takes every order of the answers of each exchange. In
`udp_receive` a poll takes fewer, as many, and more events than a refill posts,
and six packets take each buffer around the ring at least once.

Deadlock is checked in `spsc_ring`, `stock_compute` and `want_cache`, which never
stop. The others come to an end:
`Channel` when main has stopped everything or the process has crashed,
`TradingClock` at the close, `OrderRef` when the numbers are used up, `OstSession` when
the start is done or has failed, `LimitQueue` after the signal, `UdpReceive` when it
is closed or its thread has crashed. Their configurations switch the check off.

Bounds in the models are constants: `MaxTicks` in `Channel` and `StockCompute`
(the length of the recording), `LastTick` in `WantCache`, `Steps` in
`TradingClock`, `MaxRequest` in `OrderRef`, `MaxQty` and `MaxOrders` in `LimitQueue`,
`MaxPackets` in `UdpReceive`, `MaxMessages` in `SzPacket`. They appear as guards or
sets of inputs only.

Fairness, beside that of the ring and of the channel above: in `UdpReceive` weak
fairness of the receive thread, which polls without a pause, and of what main
has begun; the card and `Close` get none. In `OstSession` weak fairness of main,
which spins, and of the callbacks: the server sends what was asked, or an error.

What the models assume of parties outside the code, each said in its module: the
trade apis run callbacks one at a time and the server answers queries in their
order; request numbers come back unchanged; the network card uses the posted
buffers in order; the exchange matches by price and reports every event once.
Answers to another session with the same number are not distinguished, as the
code does not (`OES_ost.cpp:154`).

Every property of a passing run has a mutant of the code in its module, named and
commented there, which TLC finds to break it.

## 4. What is proved

For every value of the constants that meets the named ASSUMEs of the modules
(sizes are positive, a ring has two slots at least, the stocks are finitely many,
a day ends before midnight, a refill batch is smaller than the card's ring, the
codes of the daily file are in range, the trades of the day are in the window, and
for `StockCompute` none is within an hour of midnight, so that the grid never
comes to the end of the day):

- **`SpscRing_proofs`**: `TypeCorrect`, `PositionsOrdered`, `CallsAgree`,
  `RaceFree` and `RingRefinesFifo`. `PositionOrder` and `CallsConsistent` are, with
  the type invariant, inductive together: seen from the writer's cached read
  position, the read position, the reader's own, its cached write position and the
  write position follow in this order around the ring. The race is excluded since
  the reader touches slots before the write position only. The proof works with
  `Dist`, the distance around the ring; its lemmas say how it adds up and how a
  step of a position changes it. The refinement then has one case for each action,
  most of them stutters. It needs the contents of the ring as a sequence: a store
  to the free slot leaves it, publishing appends to it, releasing drops its front.
- **`StockCompute_proofs`**, first on `TradingClock`: `ClockOnGrid`, the clock is the
  grid time of its count, and from it `ClockSteps`, `ClockAvoidsLunch` and
  `TicksRoundToGrid`. The lemmas are on the conversions: decimal digits of a time of
  the day can be taken apart and put together again. TLC needs the real day for
  this; the proof holds for any number of steps within a day.

  Then on `StockCompute`: `TypeCorrect`, `SnapshotsOnClock`, `FilterFedOnce`,
  `VolumeIsTraded`, `RoundsWithoutGap`, `BookIsOpen`, and `DayOfTheClock`, that it
  implements `TradingClock`. The argument goes through `Kept`. The properties speak of
  the live state, which a prediction leaves for a while, so they are not inductive;
  two lemmas replace them by facts about `Kept`: no action of a prediction changes it
  (`PredictionIsNoStep`: saving copies it, stepping appends snapshots that the
  restore cuts off again, and a restore after a step brings back the same as one
  before it), and any other action does to it what it does to the live state
  (`KeptMoves`). What is needed beside them: during a prediction the saved count is
  no more than the snapshots there are; the clock shows the grid time of the number
  of snapshots (`GridInv`), never beyond the last step, as the steps stop at the first
  grid time not before the trade; the saved filter belongs to the saved snapshots
  while the live one, which the prediction feeds, belongs to the live ones
  (`FilterInv`); what the snapshots of `Kept`, its current interval and the trade
  under way add up to is the volume traded (`VolumeInv`); and where in a round the thread is says which
  times it has predicted for (`RoundInv`). TLC checked these invariants on the bounds
  of the run before they were proved.
- **`WantCache_proofs`**: `AnswersArePredictions`, `PredictionsFound`, `OwnTimeWins`
  and `TypesHold`, for any number of slots. `CacheInv` relates each slot to the
  prediction stored in it, and the minimum of a look-up to the slots already
  loaded: it is as near as each of them that has stayed. Slots overwritten after
  they were loaded drop out, which is why `Stayed` is in the properties. Of the
  clock only this is needed: times are whole steps, so that a distance within the
  tolerance is one within its whole steps, whether a slot is marked or not; and, for
  the types alone, that an advance yields a time whose fields are those of a clock.
- **`Channel_proofs`**: `TypeCorrect`, `OneOrder` (an order was sent for a stock
  only if it is not alive), `Quiet` (once main is past a join, the joined thread has
  ended), `PredictsComputed` (the stocks that approach are computed, and a kept stock that
  does not approach is passed over), `EndSignsArrive` and `EndSignsLast`, for any
  number of stocks, any capacity and any batch. `EndSignPending` alone is not inductive: the
  fetch copies ticks to the buffer and releases them in a second step, so `WayInv`
  says in which of the two a sign is at each point, and that before the compute
  thread runs nothing was fetched. `EndSignIsLast` needs that no stock with a sign
  in the ring or in the buffer is alive, and for the end of the program that the
  signs of `StopStocks`, which are as many as the stocks left, are all different.
- **`LimitQueue_proofs`**: `CountIsExact`, and from it `SignalHolds` and
  `MissedHolds`. While the exchange is open the count is what rests at the limit,
  plus what was cancelled there, less what cheaper and uncounted sells have
  traded; with that, and since the level never has both sides in the day, a count
  below zero shows who traded. `SignHolds` has the further assumption that times
  are multiples of ten milliseconds: without it `end_sign_ms` refutes it.
- **`OrderRef_proofs`**: `AnswerHolds`, `FoundHolds`, `FreshHolds`. The invariant says
  that the table agrees with the orders sent at every recorded number and has -1
  elsewhere, that the intervals of numbers of the orders are disjoint and
  ascending, and that main starts only after the highest number is known. The
  lemmas on `StockIndex` (a code of the daily file finds its own place, -1 finds
  none) are by the greatest element of a bounded set.
- **`OstSession_proofs`**: `SettledHolds`, `IdentityHolds`, `OwnLimitHolds`, for any
  instruments and any codes in common of a SZ build. The invariant lists the six shapes the outstanding queries can
  have with the count that belongs to each, and that SZ answers come after SH; for
  main, that a stock knows the last element handed over with its code.
- **`UdpReceive_proofs`**: `NeverDryHolds`, `BuffersHeld`, `HandlesInOrder`. The first
  invariant adds up the lengths of the four places, says that together they hold
  every buffer (so none is in two), and that outside the handling of a poll a buffer
  is posted or in an event: enough buffers are free for a refill whenever the ring
  has run empty. For the order of messages `OrderInv` adds that the events not handled
  yet are the last packets that arrived, in their order, and that each one's buffer
  still holds its packet. The step that could break this is the card's: it writes to
  the first posted buffer, and as buffers that fill all places without a gap
  cannot be in two of them (`CardWritesApart`, by counting), that is the buffer of no
  event.

Two of these results are about data of any length: the sum over a function, in
`VolumeConserved`, and the messages of a sequence of packets, in `HandledInOrder`. The
operators are those of the community modules and recursive functions inside. The
induction theorems of the library take an operator as a parameter and cannot be
used; the proofs go around this with a set in its place: the numbers
that a claim fails for have a least one (`LeastNumber`, from the well-foundedness of
strict inclusion among finite sets), so a set of numbers with 0 and every successor
is all of `Nat` (`AllNumbers`). With it the recursive function is shown to exist, and
then what one more element adds to it (`SumOfMore`, `FlattenAppend`).

Every safety property of a passing run is proved. Only model-checked are the
liveness properties (`EverySlotReleased`, `EndsWhenAsked`, `PacketsHandled`,
`StartsIfAnswered`), which are out of the prover's reach.

## 5. Not modelled, and why

- The factors, `decideWantBuy` and the generated models: floating-point data with
  no control in it. A prediction is a free choice between its two verdicts.
- The replay's trade api: it answers on the calling thread, and the answer is
  logged.
- `StockCompute` outside the replay. In the OST builds `onOrder`, `onCancel` and
  `onTrade` have no branch at all, so nothing is ever predicted there; in the NE
  build for SZ a cancel inserts an order with fields read through another layout
  (`StockCompute.cpp:317`), which a model of the book cannot state.
- The count of the SZ replay (`StockState.cpp:248`), unsigned and with other rules
  than the live one; and the end sign of the OST build for SH, whose writer
  (`StockState.cpp:220`) and reader (`StockCompute.cpp:186`) use different formats.
  Both are listed as hazards.
- The NE source, which hands the callbacks of a vendor library on; logout, funds
  and positions of Xele, which nothing the program decides depends on.
- The set-up of the network card and of its filters, and reading and checking of
  the daily file: sequential, before anything else runs, and an error ends it.
- The radix sort of the recording: a pure function before the first tick. The
  models take ticks in any order.
- Unused files (`RingBuffer.h`, `DisruptorPool.h`, `FastMutex.h`,
  `L2/OrderBook.h` ...), unused operations of the ring, logging, affinity,
  formatting.
- Failures of allocation and of reading files, which throw and end the program
  before or outside the modelled part.
- Vendored code (`3rd/`: the JSON library, the headers of the apis and of the
  card), most of the lines of the repository. It is external: the models take
  from it what the program's calls rely on.

## 6. Plan

Done, in this order: ring and its abstraction, clock, want cache, channel, stock
compute; limit detection, order references and stock index, login and statics of
OST, receiver and packets; theorems on every safety property that a run checks, and
the two refinements.

Left: the count of the SZ replay; that `WantCache` implements the choice of
predictions which `Channel` makes, as a refinement of its own; the bulk operations of
the ring, should a caller appear.
