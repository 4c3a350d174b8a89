# Formal model of the trading bot

TLA+ modules, TLC configurations and TLAPS proofs for the trading core of the
bot under `src/`: how a signal is made, what may open a position, how an order is
carried out live and on paper, how events get from the one to the other, and what
is left of it all after a crash. Every definition was written from the code;
`PROJECT.json` names, for each, the lines it stands for.

## 1. The system

One asyncio process (`src/main.py`) subscribes the components to one event bus.
Feeds publish `TICK`s; the signal generator turns them into `SIGNAL`s; an
executor per venue asks the risk manager for a position, places orders, and
reports fills; ticks let the risk manager publish `STOP_LOSS` and `TAKE_PROFIT`;
the user data stream of the exchange publishes `USER_ORDER_UPDATE`; reconcilers
compare the bot's book with the exchange's; a persistence service writes what
it hears to PostgreSQL; operators act through HTTP endpoints, Telegram, and a
kill-switch file.

### Components

| component | state | operations | what is hard | correct when |
|---|---|---|---|---|
| **Risk gate** `execution/risk_manager.py`, `core/safe_mode.py`, `interface/routes/risk.py` | positions and reservations, equity and peak, daily loss, breaker with one trip reason, drawdown phase, kill flag, safe-mode reasons, requested state | approve-and-open, rebase, cancel, close, an operator's open, kill, release, reset, midnight reset, set state; trips from the executor and reconcilers | many writers of one breaker reason; cached phase and cached file check; a task scheduled under a lock that is kept while an event is published | no signal opens anything while blind, killed or over the cap; a phase falls only when earned; a trip flattens the book |
| **Live executor** `execution/cex_executor.py`, `execution/exchange_order_placer.py` | tracked position, protective order ids, the exchange's orders and position | limit and iceberg entry, poll, cancel, re-fetch, market fallback, stop and target, emergency close, OCO cancel, operator close, kill | every call can be refused or lost; handlers interleave at each await; the exchange fills and triggers meanwhile | no fallback beside a live order; no orphan reservation; a stop or an alarm; the two books agree |
| **Event bus** `core/event_bus.py` | bounded queue, waiting publishers, per-key locks, tasks | publish, publish_nowait, take, dispatch, stop | back-pressure from handlers that publish; direct dispatch of critical events; overtaking | at most once, critical not dropped, ordered where promised, everything settles |
| **Order manager** `execution/order_manager.py`, `core/idempotency.py`, `core/persistent_idempotency.py` | orders, client-id index, idempotency records, two files | place, confirm, fill, cancel, monitors, clean-up, save, load | retries against clean-up, crash and restart; two files written at different times | one order per client id, no self-trade, no overfill |
| **Paper exchange** `execution/simulated_exchange.py` | reservation, completion tasks, SQLite rows | entry with reject, full or partial fill; closes; kill; restart | closes beside completions; the book against its rows over a crash | position = fills of its order; an open position is durable |
| **Signal generation** `engine/signal_generator.py`, `engine/entry_eligibility.py`, `engine/master_scorer.py` | conflict streaks, layer status, remembered directions | judge a candle, review, publish or drop, forget a direction | the review suspends for seconds; memory of directions is cleared by an event that may never come | no signal while stopped; limits hold; the memory has no hole |
| **Market data monitor** `data_ingestion/market_data_integrity.py` and **emergency stop** `execution/estop.py` | health per channel; a flag | mark, go stale, alert; trigger, release | the last event alone decides a channel's health | a quarantined feed blocks its symbol |
| **Trade persistence** `storage/trade_persistence.py` | tables orders, fills, positions; the file of failed writes | persist, buffer, replay | one serial line beside concurrent tasks; writes that fail after the commit; a unique name left empty | no confirmed fill is lost; a row per order; the open row is the position |
| **User data stream** `data_ingestion/user_stream.py` | listen key, connection, back-off, trade ids seen | connect, listen, watch, recover over REST | reconnection against lost updates; a clock that starts anew | each fill once; a loss is announced |
| **Reconciliation and recovery** `execution/reconciliation.py` | fetched positions and orders, mismatches | startup, periodic compare | compares books that move meanwhile; a crash leaves orders and no record | no silent unprotected position; a lasting drift is noticed |
| Bot state machine, order splitting and shadow stops, service breaker, instance lock, venue executors, feeds, strategies, audit stores, interface | — | — | — | see section 7 |

### Interactions

- candle → monitor, emergency stop, layers → review → receipt → `SIGNAL`.
- `SIGNAL` → executor → `approve_and_open` (under `RiskManager._lock`) → order →
  fill → `rebase_position_to_fill`, or `cancel_reserved_position`.
- Closing a position records profit and loss; that can trip the breaker, which
  schedules `_auto_close_on_trip`, which sweeps the book. `POSITION_CLOSED`
  clears the generator's memory and the row of the persistence service.
- The event bus awaits the handlers of *serial* events (`SIGNAL`, `STOP_LOSS`,
  `TAKE_PROFIT`, `KILL_SWITCH`, `ORDER_FILLED`, `FILL_CONFIRMED`,
  `POSITION_CLOSED`, ...) one at a time; everything else runs in tasks beside
  them. Hence one worker `w` in the executor modules, one `line` of writes in
  `TradePersistence`, and separate variables for the handlers beside them.
- `OrderManager` is shared by the HTTP endpoints and by the paper executor.
- `POST /api/trade` goes round all of that: it fills an order and calls
  `open_position`, which asks nothing, publishes nothing and puts its position in
  the place of the one the symbol had. `activate_kill_switch` empties the book
  without a `POSITION_CLOSED`.
- `USER_STREAM_LOST` and `USER_STREAM_CONNECTED` close and open the gate;
  reconcilers trip its breaker and enter its safe mode.

## 2. Modules

| module | models |
|---|---|
| `EntryGate` | abstract: what the gate promises — a signal's symbol joins only in state ACTIVE and with room left; an operator's joins at any time and takes room |
| `TradingGate` | the risk gate and all its callers, and the one entry that goes round it |
| `LiveExecution` | one symbol traded live: executor, placer, tracked position, exchange |
| `EventDelivery` | abstract: what the bus promises publishers — at most once, critical events not dropped |
| `EventBus` | the bus, its publishers and the handlers that publish |
| `OrderManager` | orders of one venue and symbol, the endpoints, the files, restart |
| `PaperExchange` | `OrderManager` with the paper executor, its position and SQLite rows |
| `SignalGenerator` | from candles to signals, with the feed monitor and the emergency stop |
| `TradePersistence` | writes of orders, fills and positions, the file, its replay |
| `UserStream` | the user data stream and what it does to the gate |
| `Recovery` | `UserStream` with a live account over crashes and starts, and both reconcilers |
| `MC*` | constants for TLC |
| `TradingGate_proofs`, `LiveExecution_proofs`, `EventBus_proofs`, `PaperExchange_proofs`, `SignalGenerator_proofs`, `TradePersistence_proofs`, `Recovery_proofs` | theorems about the module they are named after, for all values of its constants |
| `SequenceSets` | lemmas: the set of a sequence's elements under append, tail and concatenation |

`TradingGate` implements `EntryGate` (state ← the effective `TradingState`,
held ← the symbols with a position or reservation of a signal, manual ← those with
a position an operator opened). `EventBus` implements
`EventDelivery` (same variables). `PaperExchange` extends `OrderManager`: its
`Next` takes the endpoints' actions as they are and calls the manager's
operators (`Create`, `RecordFill`, `AfterCancel`) from its own. `Recovery`
extends `UserStream` in the same way: the stream's own steps are `StreamAlone`
and `StreamFails`, and its operators (`Traded`, `Receive`, `StreamStarts`,
`StreamEnds`) are parts of the actions of the exchange and of the process.

What may happen in an execution (refused calls, partial fills, crashes, the
operator, ...) is in most modules drawn once, in `Init`, from `Environments`. That
keeps the product of failures tractable and lets a property say which failures
it is about.

### TradingGate

A section under `RiskManager._lock` is one step, with two exceptions.
`activate_kill_switch` loops over positions without suspending: `ActivateKill` or
`AutoCloseOnTrip` begins it, one `SweepPosition` per position, `SweepEnds`; while
`sweep` holds nothing else steps. `close_position` keeps the lock while it publishes
a new trip (`risk_manager.py:1529`): from then on `announcing` holds, whoever needs
the lock waits (`Free`) and the others go on, until `PublishReturns` — which a full
bus may never let happen.

| action | code |
|---|---|
| `ApproveAndOpen`, `RefuseByFile`, `RefuseLater` | `approve_and_open`, with `trading_state`, the cached file check and the phase update |
| `RebaseToFill`, `CancelReserved`, `ClosePosition`, `PublishReturns` | the executor's three answers to a reservation |
| `OpenPosition` | `open_position`, called by `POST /api/trade`: no check, overwrites the symbol; the position is `"manual"` |
| `RecordPnl`, `RecordTradeResult` | the breaker's daily loss and drawdown; graduation |
| `MidnightReset`, `FileCheckExpires` | timers |
| `DeactivateKill`, `SetTradingState`, `ResetBreaker`, `CreateKillFile` | operators |
| `StreamLost`, `StreamConnected`, `ExecutionFails`, `PeriodicMismatch` | trips and releases from the executor and reconcilers |

Money is small integers: loss and drawdown are compared in units and percent.
The filters that only refuse (spread, cooldown, VaR, session, ...) are not
written out; any signal may be refused (`RefuseLater`), so `Admits` allows
whatever the code allows.

### LiveExecution

`w` steps through one serial handler, a step per awaited exchange call:
`Submit`, `Poll`, `CancelEntry`, `FetchFinal`, `Refetch`, `MarketRemainder`, then
`Rebase`, `PlaceStop`, `PlaceTarget`, or `DropOrder`/`Rollback`, `Flatten`. An
entry above the iceberg threshold goes through the first six once per part
(`NextPart`); a part that raises counts as nothing and the next is submitted.
`Rebase` ends where `ORDER_FILLED` is published, which may take long; `Report` goes
on from there to the placer's lock. `HandleExit`/`FinishExit` and
`HandleKill`/`Unprotect`/`FinishKill` are the other serial handlers.

Beside them run tasks. `USER_ORDER_UPDATE` is not serial, so every update has a
handler of its own: `feed` is a set, and its members are acted on in any order and
at the same time as anything else. A trigger is `DeliverTrigger`, then
`FinishTrigger`; a partial fill is `DeliverPart`, which takes the placer's lock, and
then per protective order `AdjustCancel` and `AdjustPlace`, between which that order
is nowhere. The operator's close is `StartClose`, then in any order
`SendClose` and `CancelProtection`, which the code gathers, then `BookClose`; a
close that raises ends the handler, and the cancels, which are not cancelled with
it, may still come. `/v1/kill` is `Kill`, `ApiCancelsOrders`, `ApiForgets`. The
exchange fills, expires and triggers on its own. A call is *refused* (raises,
nothing happened) or *lost* (raises, it happened). What leaves a position without a
stop and tells nobody but the log is remembered in `lapsed`.

### EventBus

An event is its place in `sent`. `Publish` waits for room (`putters`, `woken`),
`PublishNowait` never waits and dispatches a critical event directly or drops
the rest. `Take` and `Dispatch` are the consumer; `StartTask`, `StartTick`,
`Report`, `Finish` are the handlers; a serial handler reports one event, or needs
`RiskManager._lock`, whose holder may itself be publishing. `TimeOut` is the
one-second timeout of the consumer's `get`, `Stop` the end of the bus. Kinds
that differ from a modelled one in name only (`TAKE_PROFIT`, `LIQUIDATION`,
`MARGIN_CALL`, `CANDLE`, ...) are not listed again.

### OrderManager, PaperExchange

`Place`, `OpenPosition` (with `Trade`), `Cancel` are the endpoints; `MonitorFills`, `CleanUp` the
manager's loop; `StopOrders`, `CrashOrders`, `StartOrders` the process. Every
created order stays in `orders`; `kept` says whether the manager still has it.
The idempotency file is written at an access, at most once per interval
(`Saved`); the order file only by `stop()`. In `PaperExchange` the worker goes
`Signal` → `Reject`, `FillEntry` or `FillPart` → (task) `Complete`; closes are
`ExitHit`/`FinishClose` and `DashboardClose`/`FinishDashboardClose`; the kill
switch `HandleKill`/`FinishKill`, or `Sweep` alone; `Start` restores from `rows`.
`OpenPosition` is `POST /api/trade`: the order is placed and filled, and the
operator's position takes the place of whatever was tracked (`hand`); a completion
that follows rebases it to another order's quantity, which `by` remembers. Inserting
a row may fail (`Insert`, event `"disk"`), which the code only logs (`unsaved`).
Entries of signals are longs, shorts mirror them; operators trade either way.

### SignalGenerator

`_handle_candle` has one await that lasts: the review of a candidate by a remote
provider. So it is two steps. `Candle` is everything before it: `Preflight`
(feeds, emergency stop, hours), `LayerFails` (the hard gates), or `Judge`, which
passes conflict streak, quality, correlation, duplicate and position gates and
leaves a `candidate`. `Publish` or `Drop` is everything after: the receipt reads
the layer status, of whichever symbol was judged last, and the risk snapshot.
With a local provider nothing comes between (`Suspendable`). Scores are numeric;
what matters of one is whether it passes, passes unless the layers conflict, or
fails. `MarkEvent`, `RefreshStale`, `HandleAlert` are the monitor;
`HandleSignal`, `ClosePosition`, `Kill` are the risk manager and executor as the
generator sees them.

### TradePersistence

`line` holds the writes of the serial handlers, `tasks` those of the concurrent
ones. `Write` is a `persist_*` call: it commits, or fails and goes to the file
(`Keep`), or does both when the connection breaks after the commit. `Violates` is
the UNIQUE `client_order_id` against events that carry none. `StartReplay`,
`ReplayLine`, `EndReplay` are `replay_wal`; nothing outside the tests calls it, so
only some environments have it. One order is the entry of one trade of the one
symbol, and opens one position. A position ends with `OnPositionClosed`, or leaves
the book unreported: by `ActivateKill` (a trip's close-all, or
`/api/positions/close-all`) or under an operator's `OpenPosition`, whose end is
`OnManualClosed`. What left so is in `left` until a later close ends its row.

### UserStream, Recovery

`conn` goes `key` → `dial` → `hello` → `up`, and back to `sleep` from each;
`Disconnect` restarts the clock, `Tick` is a second and the watchdog. `Recover`
is the REST request after a connection, `Receive` the socket. `Recovery` adds the
four places that know a position (exchange, book, SQLite `rows`, `dbqty` of
`TradePersistence`) and, for each life of the process, `Boot`, the steps of
`reconcile()` (`FetchPositions`, `FetchOrders`, `Rebuild`, `Protect`, `Finish`),
an entry reduced to the steps between which a crash leaves something different
(`Enter`, `Rebase`, `PlaceStop`, `Persist`), or abandoned although its order was
accepted (`LoseEntry`), the periodic check (`Ask`,
`Compare`), and `Crash` or `Stop`/`Stopped`.

## 3. Runs

| run | bounds | distinct states | time |
|---|---|---|---|
| `trading_gate` | 2 symbols, 2 places, equity 0–2, one unit lost or won per trade, 2 units of daily loss, phases at 30/60/90 % | 465 836 | ~90 s |
| `live_execution` | 1 symbol, amount 2, 2 signals, 2 parts, 12 environments | 1 409 475 | ~90 s |
| `event_bus` | 1 key, queue of 1, 4 events, 3 mixes of 3 kinds | 172 323 | ~35 s |
| `paper_exchange` | 1 client id besides generated ones, amount 2, 3 orders, 4 units of time, 1 restart, 6 environments | 729 447 | ~60 s |
| `signal_generator` | 4 correlated symbols, 3 positions, 2 per direction, 2 channels, 2 faulty feeds, streak of 3, 8 environments; symbols symmetric | 202 506 | ~145 s |
| `trade_persistence` | 2 trades, 1 repeated delivery, 1 fault, 2 events' writes under way, 1 replay, 8 environments | 321 164 | ~30 s |
| `recovery` | 2 entries, 3 trades on the account, 2 lives, 1 lost connection beside failed attempts, threshold 2 s, back-off up to 4 s, 6 environments | 580 349 | ~190 s |

Why these are enough:

- *trading_gate*: two symbols and two places let a cap bind and a second symbol
  race the first. One loss of two is the caution phase; two are the emergency phase,
  a drawdown trip, and within a day the daily-loss trip too; two wins graduate, and
  from the emergency phase lead through the defensive one. Each threshold is crossed
  on both sides.
- *live_execution*: two units are the least that can fill in part, or be placed
  in parts. A second signal meets the leftovers of the first (a late trigger, a
  stop still resting). Environments pair the failures that share code: refused
  calls with the operator's close, lost calls with partial fills, both with ticks,
  closes and kills, kill with a second entry, partial fills under two names,
  iceberg entries with all of refused, lost, ticks and closes.
- *event_bus*: with room for one, every publication beyond it waits, is dropped
  or goes around. Four events give a waiter, one that overtakes it, a tick
  behind a tick, and a handler's report into a full queue.
- *paper_exchange*: an entry, its close and one more order, or three orders of
  the endpoints. Time passes every threshold (fill timeout, self-trade window,
  save interval, clean-up). One restart separates two lives.
- *signal_generator*: four symbols are the least with which the limit of
  positions (3) and that of a direction (2) each bind without the other. Two
  faulty feeds are two channels of one symbol or one each of two.
- *trade_persistence*: two trades meet in the unnamed row and in the one open
  row of the symbol, in both directions. One fault is enough for a write that
  fails before or after its commit, or while a replay runs.
- *recovery*: two lives separate what a crash leaves from what the start makes
  of it; three trades are an entry, its stop and one unexpected. The threshold
  lies below the longest back-off, as in the configuration (5 s against 30 s),
  and above the first attempts, which is where a clock that restarts matters.

What they check, beside each `TypeOK`:

- `NoEntryWhileBlind`: no signal opens a position from the loss of the user stream
  until its return, whoever resets the breaker between. `NoEntryUntilReleased`: once
  `activate_kill_switch` ran, no signal opens one before `deactivate_kill_switch`,
  although the midnight reset clears the breaker and the kill flag.
  `EntryWithinDrawdownCap`: the cached phase never admits a signal beyond what the
  true drawdown allows, an operator's positions counted. `GraduationIsEarned`: phases
  fall one at a time and with a profitable close. `FlattensAfterTrip` (liveness): a
  trip empties the book, unless the bus keeps its announcement, and the lock with it,
  for ever. `GateSpec`: `EntryGate` is implemented, with the operator's positions as
  its `EnterByHand`. The first three speak of signals only: an operator's
  own position passes no check.
- `NoFallbackWhileLive`: a market order is never sent beside the limit order it
  replaces. `ReservationWatched`: no reservation without a handler or an alarm.
  `StopOrAlarm`: an open position has its stop, or one of the listed causes, each of
  which is a window of the code (a handler that has not come to place it yet, the
  gap of an adjustment, a gathered close not yet answered) or a loss that was alerted
  or logged. `BooksAgree`: at rest, with clean failures, the two books agree, also
  when parts of an iceberg fail; it says nothing of a trigger still on its way.
  `EntryAnswered` (liveness): the exchange calls for an entry end.
- `OneAtATime`: non-critical serial events never overlap. `TicksInOrder`.
  `DeliverySpec`: `EventDelivery` is implemented. `EventSettles` (liveness):
  everything published is finished or dropped, unless the consumer is wedged.
- `NoOverfill`, `OneOrderPerClient` (within a life of the process),
  `NoSelfTrade` (but for orders revived by a late fill), `PositionMatchesFill`,
  `PositionIsDurable`, `ReservationSettles` (liveness).
- `EntryRemembered`: every symbol with a signal on its way or a position has its
  direction remembered. `LimitHolds`: position and correlation limits, although
  two books are counted. `StoppedMeansQuiet`: no signal leaves while entries are
  refused or, with a local provider, while stopped, quarantined or in conflict.
  `ReceiptAgrees`: the receipt, which recomputes what the gates decided,
  contradicts them only for the risk manager's sake.
- `FillKept`: a confirmed fill is in the table, the file or under way, through
  outages and a replay. `OrderKept`: so is every order reported on. `RowIsBook`:
  the open row is of the position held, or of one that left the book unreported
  since the last close, and a reported position has one. `Drains` (liveness): an outage
  never holds up the serial line.
- `FillOnce`: socket and REST together publish a trade once. `ProtectedAtStart`:
  a start leaves every position it found with a stop or an alert.
  `LossAnnounced` (liveness): a lost stream is announced although each attempt
  restarts the clock; it needs the back-off to outgrow the threshold.
  `DriftNoticed` (liveness): a lasting difference between book and exchange
  enters safe mode, the drift of a lost submission included.

Deadlock is checked in `trading_gate` and `signal_generator`, where some action
is always possible. In the others an execution ends when its bounded signals,
events, orders, trades or lives are used up or the bus has stopped, and the
check is off.

### Disagreements found

Each of these runs checks one sentence of the repository and TLC shows an
execution that contradicts it. Details and lines are under `findings` in
`PROJECT.json`.

| run | what happens |
|---|---|
| `exposure` | a re-fetch that fails after a confirmed cancel counts as "nothing filled"; the fallback repeats the filled part |
| `kill_leaves_position` | the kill handler sends no close orders; the exchange keeps the position, without its stop |
| `dead_symbol` | a refused signal leaves its direction behind; the duplicate guard blocks the symbol until a restart |
| `stop_not_synced` | the stream and the book name a symbol differently; a stop that triggered leaves the tracked position open |
| `duplicate_position` | an entry order left resting by a crash fills after the start has fetched positions; the next signal enters again |

Seen while modelling, visible in the models, and not run as a sentence of the
repository:

- the breaker has one reason: losing and regaining the user stream overwrites
  and clears a trip that was to wait for a review, and its first connection
  clears the trip of a startup mismatch;
- close and cancel of an operator's close are gathered: a refused close leaves
  the position without its stop (`lapsed` in `LiveExecution`); an adjustment whose
  second half fails does the same, and is only logged;
- `POST /api/trade` on paper opens a position in any trading state, after a kill too,
  beyond `max_open_positions` and the drawdown cap, and in the place of the tracked
  one, whose SQLite row stays open; a completion under way then rebases the
  operator's position to the entry's quantity. Its live branch
  (`dashboard_api.py:3159-3244`) asks some of the gate's questions before the
  exchange is called and none after, and opens while the stream is lost; it is off
  unless `allow_manual_live_trading` is set;
- the generator never remembers the direction of a position opened so;
- a kill publishes no `POSITION_CLOSED` by position: the row of `positions` stays
  open, and the next entry of the symbol keeps its old direction;
- `close_position` publishes a trip with `RiskManager._lock` held: a full bus keeps
  the close-all, and every signal, waiting;
- a close or kill while an iceberg entry is under way ends the reservation and
  not the loop: later parts fill and are not tracked; with
  `market_on_timeout` off, parts stay at work after the reservation is dropped;
- the consumer of the bus can await a handler that awaits room in the consumer's
  queue (the exception in `EventSettles`);
- the kill switch leaves SQLite rows open, and a restart restores the position;
  a position rebuilt by `StartupReconciler` forgets its row, which stays open;
- an idempotency key survives a crash that its order does not, and the retry
  creates a second order; two concurrent closes are both filled in full; the
  fill of a cancelled order is accepted; an order placed through `POST /orders`
  is submitted by nobody;
- the dashboard triggers the emergency stop without an executor, so that nothing
  is cancelled or closed although `estop.py:9-14` lists it;
- only one order with an empty client id gets a row; `replay_wal` removes the
  file although a line was refused, and what was appended meanwhile; an older
  status of an order overwrites a newer one, since each update is its own task;
- the periodic check compares quantities only, counts reservations, and its safe
  mode is left by nothing but the end of the process;
- `listenKeyExpired` (`user_stream.py:349`) forgets the key and keeps the
  socket, which then receives nothing until the next loss.

## 4. Fairness

- `TradingGate`: `SF(AutoCloseOnTrip)` and `WF` of a sweep's steps. The close-all is
  a created task that waits for `RiskManager._lock`; an `asyncio.Lock` is handed on in
  order, so the task has it if the lock becomes free again and again, which strong
  fairness says. The loop never suspends. No fairness is assumed of `PublishReturns`:
  the bus can refuse room for ever (`EventBus`), so `FlattensAfterTrip` is
  conditional on `[]<>~announcing`.
- `LiveExecution`: `WF(Calls)`, the exchange calls of an entry. The client has
  timeouts and the retry loops are counted, so an awaited call returns or raises.
  Nothing is assumed of a publication, of the placer's lock or of the risk manager's,
  so a handler may wait at `Rebase`, `Report` and everywhere after for ever; nor of
  the exchange, the operator or signals.
- `EventBus`: `WF(Work)`, the consumer, tasks and handlers. Nothing is assumed
  about publishers, and a handler waiting for room is not at liberty to step.
- `PaperExchange`: `WF(Work)`, the simulated latencies, which are timers.
- `TradePersistence`: `WF` of a serial write, of a concurrent one and of the
  replay's steps: coroutines whose calls end. The database need not return.
- `Recovery`: `WF(StreamAlone)`, the stream's loop and clock, but not the success
  of an attempt; `WF` of the periodic fetch, and `SF(Compare)`, since an answer is
  awaited again and again and only some fail; `WF` of an entry's steps, whose
  limit order is cancelled when it does not fill.
- `SignalGenerator` states safety only.

## 5. Proofs

Every invariant and every safety action property that a run checks is also a
theorem, for every value of the constants; so are the two refinements. A run says
what to believe, on an instance; the theorem says that it was not the instance.

| module | theorem | states |
|---|---|---|
| `TradingGate_proofs` | `TypeCorrect` | `Spec => []TypeOK` |
| | `BlindTradesNothing` | `Spec => NoEntryWhileBlind` |
| | `KillHoldsUntilReleased` | `Spec => NoEntryUntilReleased` |
| | `DrawdownCapsEntries` | `Spec => EntryWithinDrawdownCap` |
| | `PhaseFallsByGraduation` | `Spec => GraduationIsEarned` |
| | `ImplementsEntryGate` | `Spec => GateSpec` |
| `LiveExecution_proofs` | `TypeCorrect` | `Spec => []TypeOK` |
| | `FallbackReplaces` | `Spec => []NoFallbackWhileLive` |
| | `ReservationsWatched` | `Spec => []ReservationWatched` |
| | `StopHeldOrTold` | `Spec => []StopOrAlarm` |
| | `BooksMatch` | `Spec => []BooksAgree` |
| `EventBus_proofs` | `TypeCorrect` | `Spec => []TypeOK` |
| | `SerialAlone` | `Spec => []OneAtATime` |
| | `TicksOrdered` | `Spec => TicksInOrder` |
| | `Delivers` | `Spec => DeliverySpec` |
| `PaperExchange_proofs` | `TypeCorrect` | `Spec => []TypeOK` |
| | `FillsFit` | `Spec => []NoOverfill` |
| | `ClientsServedOnce` | `Spec => []OneOrderPerClient` |
| | `SidesKeptApart` | `Spec => []NoSelfTrade` |
| | `BookMatchesFills` | `Spec => []PositionMatchesFill` |
| | `PositionsSurvive` | `Spec => []PositionIsDurable` |
| `SignalGenerator_proofs` | `TypeCorrect` | `Spec => []TypeOK` |
| | `EntriesRemembered` | `Spec => []EntryRemembered` |
| | `LimitsHold` | `Spec => []LimitHolds` |
| | `StopsAreQuiet` | `Spec => StoppedMeansQuiet` |
| | `ReceiptsAgree` | `Spec => ReceiptAgrees` |
| `TradePersistence_proofs` | `TypeCorrect` | `Spec => []TypeOK` |
| | `FillsKept` | `Spec => []FillKept` |
| | `OrdersKept` | `Spec => []OrderKept` |
| | `RowFollowsBook` | `Spec => []RowIsBook` |
| `Recovery_proofs` | `TypeCorrect` | `Spec => []TypeOK` |
| | `FillPublishedOnce` | `Spec => []FillOnce` |
| | `StartProtects` | `Spec => []ProtectedAtStart` |

### Assumptions

Each model names its own. The bounds that keep TLC's instances finite
(`MaxSignals`, `MaxOrders`, `MaxRestarts`, `MaxTrades`, ...) are arbitrary natural
numbers, and `Environments` is any set of choices of events. Beyond that:

- `ConstantsAssumption` (gate): finite `Symbols`; limits and percents positive,
  in no particular order; a loss in percent is a loss in money.
- `ConstantsAssumption` (live execution): the parts of an iceberg divide its
  quantity, as `_place_iceberg` divides it; with real quantities it always does.
- `BusAssumption`: a queue of at least one place.
- `OrderAssumption`: thresholds positive; generated ids are nobody's client id.
- `GeneratorAssumption`: finite `Symbols`. `PersistenceAssumption`: finite `Orders`.
- `StreamAssumption`: `Threshold < MaxDelay`, as configured (5 s against 30 s).
- `RecoveryAssumption`: bounds only.

### The inductive invariants

No property but the types is inductive as it stands. What each needs beside them
is below; TLC finds each of them invariant on the instances of the runs, too.

**TradingGate.** `EntryIsApproval` shows that a step in which a signal adds a symbol
is `ApproveAndOpen` of some symbol, `ApprovalState` what held before it. So each
property needs only that the state it forbids excludes approval.
`NoEntryWhileBlind` is not inductive on the stream alone: the breaker *can* be
reset while the stream is away. `BlindIsSafe` (`stream = "lost"` implies the safe
mode carries `user_stream_lost`) survives every reset, and safe mode is tested
separately from the breaker. `NoEntryUntilReleased` speaks of the history `swept`,
which the midnight reset leaves and `killed` does not survive; `SweptIsHalted` (a
sweep is under way, or the equity is unreconciled) is what remains, and what any
reset but the operator's preserves. `DrawdownCapsEntries` rests on `UpdatedPhaseRises`
(the update never lowers the phase and reaches the true one) and `PhaseCapFalls`
(the cap is antitone), `GraduationIsEarned` on `PhaseStep`. The refinement maps an
approval to `Enter`, an operator's position to `EnterByHand`, a close or sweep to
`Leave`, the rest to `Switch` or a stutter.

**LiveExecution.** `Handlers` is what a handler may rely on across its awaits:
while a signal is handled a tracked position is that signal's; an exit, a fill or
a kill is seen to only after the position was taken from the book. `Bought` bounds
what the parts done have bought, and `Entries` says that a part is submitted once
and fills no further than its size: without it the type of `held` is not inductive.
`StopOrAlarm` needs those only: `StopStep` goes through every step that takes a stop
away or opens a position, the halves of an adjustment and of a gathered close among
them, and names the reason it leaves. `BooksAgree` speaks of rest and needs `BooksInv`,
what holds at every other moment. For whole entries that is `Account` (the four
ways in which the exchange's position, the news on its way and the book can
relate) with what the worker knows of its purchase (`Purchase`); for iceberg
entries `PartAtWork` and `PartsSettled`: what is held is what the parts done have
bought and the one at work has, while only that one rests.

**EventBus.** `Places`: an event not yet dispatched is in exactly one place
(queue, waiting publishers, woken ones) and at one position of it. `Runners`: an
ordered kind is handled by the consumer alone, which gives `OneAtATime`. `Ticks`:
the ticks of a symbol are in the order of their publication from the waiting
publisher through the queue to the lock of the symbol. `Delivers` maps a publication to
`Send`, what starts handlers to `Handle` and the rest to a stutter; it needs `Places`
for "at most once".

**OrderManager and PaperExchange.** `OrderInv` is about the orders, `PaperInv`
about the position; `RewriteType`, `PaperFrame` and their neighbours say which
changes of one leave the other alone. What the file of orders holds obeys the same
bounds and the same separation of sides as the book (`Bounded`, `NoCross`), or a
restart would break them. `Keyed`: before the first restart an order's client id is
remembered and leads to it. `Owned`: worker, dashboard and a scheduled completion
each have an order of their own, unfilled, that nobody else fills; this is what
makes `PositionMatchesFill` survive closes beside a completion. `Booked`: the
position is of the entry under way or an operator's, and only an operator's has its
quantity from another order than its own.

**SignalGenerator.** `Reviewed`: nothing enters a symbol while its candidate is
reviewed. `Followed`: signal, position and the report of its end follow each other,
so that the memory of a direction is not cleared under a successor. `Judged`: what
let a candidate pass still holds when a local review ends; with a remote one it need
not, and `StoppedMeansQuiet` and `LimitHolds` say so.

**TradePersistence.** `FillsReplayed`: a replay holds every fill of the file that
it has not brought to the table, since it may remove the file when it ends.
`Trades`: one trade is at work at a time, and one that is closed was reported or left
the book unreported. `LineRows`: in the line of writes, an opening that no closing
follows is of a position whose row is due, and so is the row itself when no closing
is to come; that survives closes that come without their opening and openings whose
close never comes.

**UserStream and Recovery.** `Counted`: what was published is remembered as seen, on
either way in. `Reserved`: an entry that waits has the reservation it made.
`Started`: at each step of a start, what it fetched is still so unless the exchange
moved, and a stop that was seen still rests.

### What the proofs changed

- `BooksAgree` was not inductive as `LiveExecution` stood. Its emergency close sold
  when nothing was held, and a third signal, beyond the run's two, then found the books
  apart. The order is `reduceOnly` (`cex_executor.py:398-431`) and the exchange refuses
  it then; `Flatten` now says so.
- `StopOrAlarm` listed one cause more than it needs; it was strengthened.
- `OrderTypeOK` now types the orders of the file, which a restart makes the book.

### What stays with TLC

The liveness properties `FlattensAfterTrip`, `EntryAnswered`, `EventSettles`,
`ReservationSettles`, `Drains`, `LossAnnounced` and `DriftNoticed`: they rest on
fairness, hence on ENABLED, which the prover does not handle. And the five
executions of *Disagreements found*, which are counterexamples.

## 6. Plan

1. *Done*: gate, live execution, bus, order manager and paper exchange, signal
   generation, trade persistence, user stream and recovery.
2. *Done*: theorems for every safety property of the passing runs.
3. Next, theorems that bound the disagreements found: for each of the five
   sentences the events without which it does hold (`ExposureWithinOrder` without a
   failed re-fetch, `NoDeadSymbol` without a refused signal, `TriggerClosesBook`
   where stream and book name a symbol alike, `NoDuplicatePosition` without a crash
   between order and stop).
4. Models worth adding if the program grows into them: a *ledger* that both
   executors implement (a position is opened once and closed once), which the
   two concurrent closes of `simulated_exchange.py` contradict today; the
   instance lock, once `main.py` takes it; the shadow stops, once something
   triggers them.
5. Hazards with no property are marked so in `PROJECT.json`.

## 7. Not modelled

The models cover the code that decides and keeps trading state. Most of the
repository's lines are something else, which is why the share of lines they
stand for stays small:

- **Dashboard, Telegram, metrics, `ts/`, `ui/`, `rust/`**: presentation of facts
  already decided. The operators' actions that change trading state (kill, release,
  resets, closes, `POST /orders`, `POST /api/trade` on paper) are actions of the
  modelled components; the live branch of `POST /api/trade`, off as shipped, is one in
  `TradingGate` only.
- **Scores, indicators, strategies, back-testing, research notebooks**: real
  arithmetic over market data without shared state. A score is a choice among
  the outcomes the gates tell apart.
- **Venue executors, smart routing, sockets and parsers**: thin wrappers and
  numeric scoring; to the bus they are publishers.
- **Order splitting, shadow stops**: `OrderManager` constructs them and the
  program uses their snapshots and a recommendation only; tests alone run them.
- **Bot state machine**: nothing in the signal or order path consults it; the
  dashboard shows its snapshot. **Instance lock**: taken by its tests only.
- **Service breaker, retry, rate limiter**: sequential helpers.
- **Audit, caches, equity snapshots**: appended and not read back by the bot.
- **Within the modelled components**: sizing and pre-trade numbers; emergency-exit
  signals; events without a payload key; expiry of idempotency keys after 24 h,
  eviction beyond 50 000 keys or trade ids; several venues in one order manager;
  prices, fees and slippage; the throttle between signals; leverage and margin
  settings of a start and its rebuild of the order manager; short positions where
  they mirror long ones.
- **Bounds of the modelling itself**: in `SignalGenerator` one venue — reviews and
  the risk book are keyed `exchange:symbol` and the remembered directions by
  `symbol`, so with two venues and a remote review two reviews of one symbol could
  overlap; in `LiveExecution` one operator's close at a time, its cancels included,
  and no new signal of the symbol while a trigger, an adjustment or a close of the
  previous position is under way, which the 300 s cooldown stands for.
