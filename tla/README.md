# A verification project for the xlong market maker

TLA+ modules that model the trading core of this repository, the TLC runs that
check them on small instances, and proofs, checked by TLAPS, of the properties
that matter most for instances of any size.

Paths below are relative to the repository's root.

## 1. The system

xlong is a single-process market maker for BitMart spot markets, written in
Python on asyncio, with a paper exchange for rehearsals and a separate HTTP admin
server that talks to the engine through JSON files.

| Component | Source | State it keeps | Operations |
|---|---|---|---|
| Order state machine | `src/mm/oms/state.py` | none | which status may follow which |
| Order manager (OMS) | `src/mm/oms/manager.py` | one record per client order id (status, filled size, ...) | submit, cancel (single and batch), acknowledgements, remote updates, fills, reconciliation |
| Reconciliation | `src/mm/oms/reconcile.py` | none | compare with the exchange's open orders; query orders in doubt |
| Order store | `src/mm/persistence/order_store.py` | a JSON file, SQLite or PostgreSQL table | save one record, load all |
| BitMart REST gateway | `src/mm/exchange/bitmart/rest.py` | none besides its rate limiter | requests to the exchange and what their answers (or silence) become |
| BitMart private stream | `src/mm/exchange/bitmart/private_stream.py`, `websocket.py`, `ws_client.py` | a connection | order and balance rows; fills |
| Application loop | `src/mm/app.py` | safe-mode reasons, counters, latest markets | start-up, tick, shutdown |
| Runtime commands and controls | `src/mm/runtime/control.py`, `src/mm/app.py` | JSON files shared with the admin server | read switches, execute queued commands |
| Risk engine | `src/mm/risk/engine.py` | safe mode, recent order times | accept or refuse an intent |
| Quote engine | `src/mm/quote/engine.py` | last requote time per symbol | difference between quotes wanted and orders working |
| Strategies | `src/mm/strategy/` | paused strategies | quotes from prices |
| Paper exchange | `src/mm/exchange/paper.py` | balances (available, frozen), open orders | reserve, release, fill, settle |
| PnL and hedging | `src/mm/accounting/`, `src/mm/hedging/` | position, cost, realized profit, fees | apply a fill; a hedge intent |
| Inventory | `src/mm/inventory/manager.py` | balances last seen | update |
| Order book and market data | `src/mm/market_data/` | levels, version | snapshot, increment, staleness |
| Rate limiter | `src/mm/exchange/rate_limit.py` | request times per rule | wait for a slot |
| Configuration | `src/mm/config/` | last settings and file time | load, reload, audit |
| Admin server | `scripts/admin_server.py` | JSON files, an audit log chained by MACs | edit configuration, switches and commands |
| Monitoring, replay, reports, pre-flight checks, scripts, admin console, backtest | `src/mm/monitoring/`, `src/mm/backtest/`, `scripts/`, `index.html` | none that trading reads back | output for people |

How they interact.  The application loop is one task; each tick it reads the
control files, executes pending commands, takes a market snapshot, lets the paper
exchange fill orders (or lets the private stream deliver fills), refreshes
balances, asks the strategies for quotes, turns the difference to the working
orders into intents, passes each through the risk engine and hands the rest to
the OMS in batches.  The OMS records, persists and then awaits the gateway.
The private stream is a second task on the same event loop that changes the same
records and the same PnL while the first one waits.  The exchange is a third party
which serves requests in its own time.  The admin server is another process
with threads of its own.

What is hard here:

* a late or lost answer of the gateway is applied to a record which the stream
  has changed in the meantime;
* a loop over a batch stops in the middle, because a transition is refused, a record cannot
  be saved or the process dies, and leaves the rest of the batch behind;
* the gateway guesses: which row of an answer is whose, and that an answered batch cancel
  has canceled;
* a snapshot of open orders is old by the time it is applied;
* a restart knows only what the store holds, while requests are still on the network;
* fills reach the records by two roads (stream and REST) and PnL by one;
* reservations, fills and cancels of the paper exchange must keep the books balanced;
* files are read, changed and rewritten by two processes without a lock.

What makes each component correct:

* OMS, store, reconciliation: an order that can trade is never believed over or
  unrecorded, in memory or in the store, which may lag behind when a save fails; a terminal
  status that is saved is final; fills are counted once.
* Private stream: every fill handed to PnL really happened, and none twice.
* Paper exchange: nothing is created or destroyed; frozen funds are exactly what open orders reserve.
* PnL: position and cash agree with the fills.
* Application loop: nothing is placed in safe mode; an order a tick places is within the limits when
  it is validated, and a batch passes them by less than its own size; a shutdown leaves no order working
  that it could cancel.
* Runtime commands: a queued command is executed, and once.
* Order book: the book shown is the exchange's book of some version.
* Rate limiter: no window holds more than the limit; every waiter is served.

`PROJECT.json` lists every component with its status and every hazard with its line.

## 2. Plan

Most important first; each module has CONSTANTS with named assumptions, one action per
operation, and no RECURSIVE operator.

| # | Modules | What they answer | Status |
|---|---|---|---|
| 1 | `OrderState`, `OrderManager`, `ExposureLedger` (abstract), `OrderManagerProofs` | OMS, gateway, stream, store and restarts | checked, proved |
| 2 | `PaperExchange`, `PnlBook`, `PaperTrading` (composes both with the OMS), `PaperTradingProofs` | reservations, fills, PnL, restarts in paper mode | checked, proved |
| 3 | `RuntimeControl` (engine and admin threads on shared files), `RuntimeControlProofs` | is a queued command executed, and once; do pauses, kill switch and alarms take effect | checked, proved |
| 4 | `QuoteEngine`, `RiskEngine`, `TradingLoop` (composes both with the order table), `ConsoleView`, `TradingLoopProofs` | slots, limits over a batch, start-up, shutdown that raises; does the console foretell a start | checked, proved |
| 5 | `Strategies`, `Backtest` (plugins, quote engine and risk engine over a log), `BacktestProofs` | what the plugins quote, and whether the engines behind them agree | checked, proved |
| 6 | `PrivateFills`, `PrivateFillsProofs` | messages of several rows, connections, what an execution becomes in PnL | checked, proved |
| 7 | `RateLimiter`, `ComponentProofs` | sliding window with threads and a clock | checked, proved |
| 8 | `MarketData`, `ComponentProofs` | snapshots, increments, gaps; the book shown is the exchange's book of a version | checked, proved |
| 9 | `AtomicStore` (abstract), `OrderStores`, `ComponentProofs` | the three stores implement one atomic write, across errors and crashes | checked, proved |
| 10 | `ConfigFile`, `AdminConsole`, `ConfigReloader`, `ConsoleProofs` | configuration edits by threads, the chain of signatures, reloads | checked, proved |

Every safety property that a passing run checks is stated by a theorem; what stays with TLC, and where a
theorem needs a hypothesis that a run does not, is at the end of section 5.

Runs stay small on purpose: two or three orders, one or two deaths.  What a
module claims for any size is proved where the prover reaches it.

## 3. Modules and code

### Order state machine: `OrderState`

`Statuses`, `Terminal`, `ValidNext` and `CanTransition` are the tables and the
function of `oms/state.py`.  `AckTarget` is the status an acknowledgement leads to;
`IsOpen` is the filter of `OrderManager.open_orders`.

### OMS on a live exchange: `OrderManager`, `ExposureLedger`

| State | Code |
|---|---|
| `status`, `filled` | `OrderManager._orders`: record status and `filled_size` |
| `savedStatus`, `savedFilled` | the order store |
| `call` | where the engine task is suspended: in which gateway call, for which orders, which of them the exchange has served, what a query answered |
| `placing`, `canceling` | requests on the network; they outlive a timeout and the process |
| `xstate`, `xfilled` | the exchange's own orders |
| `connected`, `stream` | the private stream and its waiting reports |
| `booked`, `presumed`, `raised`, `reconciled`, `kills` | history: fills handed over, orders CANCELED on no more than the answer of a batch cancel, why calls raised, orders whose symbol was reconciled, deaths |

asyncio runs code between two awaits without interruption, so each such piece is
one action: `SubmitBegin` and `SubmitAnswered` are `submit_batch` before and after its
await, `CancelBegin` and `CancelAnswered` are `cancel_batch`, `AskOpenOrders` and
`ReconcileApply` are `reconcile_open_orders`, `AskOrder` and `RepairApply` are
`repair_unknown_orders`; `StreamApply` is one row of the private stream.  `Kill` is a death
between two such pieces.

A loop over orders is one action with an outcome (`LoopEnds`): it returned; it was refused a
transition (`OrderStateError`); the store raised (`unsaved`); or the process died.  `done` are the
orders it reached, in any order, each of them saved; `bad` is the one it stopped at.  A refused
order has had its filled size raised (`apply_order_update`).  `_transition` sets the status
before it persists, so an unsaved order has the new status in memory only; the next save of that order
writes it too.  A store that raises may also have saved (`OrderStores` says when), so a loop may
end `unsaved` with no order bad.  The stream task catches the exception and connects again, a
runtime command is marked as failed; out of a tick the exception leads to shutdown, whose own cancels are further calls.
`Writes` is `Saves` (the store) and `Remembers` (memory, which after a death is the store).
In `submit_batch` each record is saved twice before the request: `half` is an order saved as CREATED
only, `begun` one of these that is SUBMITTING in memory.

Exchange actions (`ServePlace`, `ServeCancel`, `Trade`, `Outsider`, `Repeat`, `ServeQuery`)
are external: they are what the gateway and the stream code expects of the exchange.  Where the gateway
guesses, the model does not help it.  `ServeCancel` cancels a live order or leaves it as it is,
and `CancelAnswered` makes every order of an answered request CANCELED either way, one request per
symbol; `presumed` marks those that were not over for the record.  `SubmitAnswered` may
acknowledge a refused order with the row of an accepted one of the same request (`RowOfAnother`), and put
the accepted one in doubt; the identifier it then holds is of another order, which a cancel of it
reaches (`Outsider`).  Reconciliation is by symbol (`OrdersOf`, `Missing`).

`ExposureLedger` says what this promises: orders are entered (`ledger`) before they can trade
(`exposed`), and leave for `closed` when they cannot trade any more, or for `presumed` when a
cancel request for them was `answered`.  `ImplementsLedger` is the refinement; the ledger is the store's,
and neither a restart nor a save that fails may show in it.

Assumptions about the outside: client order ids are new; answers of queries are facts, as old
as they may be.

### Paper mode: `PaperExchange`, `PnlBook`, `PaperTrading`

`PaperExchange` has the balances (`avail`, `frozen`), `remaining` of each open
order (0 when there is none) and one operator per handler.  `PnlBook` is `SymbolPnl` with
fractions, so that average cost is exact.  `PaperTrading` puts the OMS and PnL
on top: `work` says which piece of work the engine is at (`start`, `idle`,
`submit`, `cancel`, `shutdown`, `match`), which orders of it the exchange has yet to
serve (`todo`) and which answers or fills wait to be applied (`answers`).  Nothing in
paper mode suspends inside a tick, so pieces of work never interleave, but a
death may come between any two steps of them; the exchange and PnL are then lost, the
records are not.  `surplus` is history: what was sold beyond the book's position, and for
how much.

| Action | Code |
|---|---|
| `MarkMissing`, `StartUp` | start-up reconciliation of `MarketMakerApp.run`, entry to safe mode |
| `SubmitBegin`, `ServeSubmit`, `ApplySubmitAck`, `DieCreating` | `submit_batch`, `PaperExchange.submit_order`, `apply_order_ack` |
| `CancelBegin`, `ServeCancel`, `ApplyCancelAck`, `CancelRefused` | `cancel_batch`, `PaperExchange.cancel_order`, `apply_cancel_ack`; a command that names an order in doubt |
| `Match`, `ServeFill`, `ApplyOneFill` | `tick_once`: `simulate_fills`, then `OrderManager.apply_fill` and `PnlTracker.apply_fill` per fill |
| `Stop`, `Kill` | shutdown without open orders; death between steps |

New orders need `Permits` (no safe mode, no order in doubt, as `RiskEngine.validate`
requires).  Apart from that, which orders are placed or canceled, and when, is
left open: any strategy, limit decision or command is covered.  The price walk is
any bid below any ask.

### Files between admin server and engine: `RuntimeControl`

| State | Code |
|---|---|
| `pauses`, `switch`, `queue`, `config` | strategy state, risk state, command and configuration files |
| `tasks`, `heldPauses`, `heldQueue`, `heldConfig` | the requests the server's threads are at, and the copies of files they have read |
| `phase` | where the engine's tick is; `states`, `execute`, `quote`, `validate` and `submit` are places where it awaits something |
| `loaded`, `paused`, `safe`, `alarm` | plugins, paused keys, safe mode, internal reasons for it |
| `copy`, `current` | the payload of `_apply_runtime_commands`, the command it executes |
| `places`, `working`, `doubtful` | strategies with intents to place, with open orders, with UNKNOWN orders |
| `begun`, `stopped`, `overlap`, `kills` | history: executions begun, pauses answered, files written from an outdated copy, ends of the process |

Reading a file and replacing it are atomic (`os.replace`), nothing is locked:
`ReadStates`/`WriteStates`, `ReadQueue`/`WriteQueue` and `ReadConfig`/`WriteConfig` are the two halves
of every change by a server thread; `Execute` and `Write` write the engine's copy.
`stop_cancel_strategy` is a pause, then `Plan`, then a queued command; `delete_strategy` checks
the orders, changes the configuration, then the states.  A tick is `ReadPauses`,
`ReadSwitch`, `ReadCommands`, `Execute` with `ExecutedWell` or `ExecutedBadly` per
command, `ScanEnds`, `Quote` (quotes, difference, cancels), `Validate`,
`Submit`, `TickEnds`.  A request of the tick or of a command that fails (exception, refusal, no
answer) leaves the order in doubt and raises nothing (`doubts`, `doubted`): `cancel_batch` and
`submit_batch` catch it.  What does raise is a refused transition (`ExecutedBadly`).  An order in
doubt is not canceled again; it may be reported open (`Reappears`).  The stream task (`Alarm`, `Closed`, `Reappears`) runs where the tick awaits.
An exception of a tick ends the process, as a kill does (`Die`); `Start` is the next one.

Left out: prices, levels and sizes (a strategy has orders or has none); limits, which may
refuse any order; that two orders in one place of a strategy are canceled in two
ticks; requests without `execute` (they are pauses) and `force`.

### One engine process: `QuoteEngine`, `RiskEngine`, `TradingLoop`

`QuoteEngine` is `build_order_intents`: rounding, post-only correction, minimums, and the
difference between the quotes and the open orders, by slot (strategy, symbol, side,
level).  `RiskEngine` is `validate` with its rules in the order of the code.  Both are
operators over records; `Backtest` and `TradingLoop` instantiate them.

| State of `TradingLoop` | Code |
|---|---|
| `mode` | live, or live dry run with a `DryRunExchange` |
| `table` | `OrderManager._orders`, in the order of creation |
| `phase`, `batch`, `pending` | where the loop waits, for which orders, and the places it has yet to validate |
| `last`, `tick` | `QuoteEngine._last_requote_ms`, and time as far as it sees it |
| `safe`, `alarm`, `stop`, `failed` | safe mode, internal reasons for it, `_stop_requested`, an exception out of `cancel_all` |
| `stream`, `reports` | the task of the private stream and how many rows it had |

`Connect`, `Reconcile` and `ReconcileRefused` are `MarketMakerApp.run` up to its loop; `Tick`
is `tick_once` up to the first batch it waits for; `CancelAnswered`, `SubmitAnswered` and `Settled` are its
parts after each await; `CancelRaises`, `SubmitRaises` and `RequestFails` are its exceptions, all
of which end in the `finally` (`CancelAll`, `ShutdownAnswered`, `ShutdownRaises`).
`StreamReport`, `StreamOrphan` and `RequestStop` come only where the loop waits.  The
quotes of a tick are any set of at most one price per slot, so any strategy is covered; loss and age of the
market are on either side of their limits.  `SafeModeDrill` and the other drills of `risk/drills.py`
(`DrillsPass`) are evaluated on what a run left (`AfterRun`).

`ConsoleView` is what the order pages of the console say about that table and a list of
remote orders: summary, differences with a severity, and the gate.

### Strategies over a log: `Strategies`, `Backtest`

`Strategies` has one operator per plugin (`on_timer`, `on_market`, `prepare`).  Prices are integers
over a common denominator, so no quote is rounded before the quote engine rounds it; ratios
that the code keeps as decimals are whole basis points.  `Backtest` is the replay
of `backtest/runner.py`: `Replay` feeds one snapshot to the engine's two passes over the
plugins (adjustments first, then quotes), remembers what plugins remember, and keeps
the quotes (`answers`) and the intents.

### Executions in live mode: `PrivateFills`

| State | Code |
|---|---|
| `truth`, `queue` | external: orders on the exchange, rows on the connection |
| `up` | the WebSocket client is logged in and subscribed |
| `rec` | the record: status and filled size |
| `handed` | what `PnlTracker.apply_fill` and the hedging engine were given |
| `rest`, `missed` | history: sizes first learnt by REST; news while nobody listened |
| `alarm` | an internal reason for safe mode |

`Receive` is a message of one or two rows: `ApplyRow` once or twice; a row that raises takes the fills of the
earlier ones with it, closes the connection and raises the alarm.  `CloseInOrder` and `ConnectionFails`
are the two ends of a connection, `Subscribe` the next one.  `ReconcileRow`, `Acknowledged`,
`CancelAsked` and `CancelAnswered` are the other writers of a record.

### Rate limiter, order book, stores: `RateLimiter`, `MarketData`, `AtomicStore`, `OrderStores`

`RateLimiter`: what a thread does under the lock is one action (`Allow`, `Look`,
`Snapshot`); in `wait` it sleeps between two looks and may oversleep.  `calls` is the deque,
`admitted` is history.

`MarketData`: the exchange's book has numbered versions (`feed`); `Message` is the whole book
or what changed.  `DepthApplied` and `DepthGap` are the hub's depth handler with
`OrderBook.apply`; `Ticker` overwrites the published market.

`AtomicStore` promises that a write replaces the table in one instant between call
and return.  `OrderStores` has the steps in between: the temporary file (`Dump`) and
its replacement for JSON, the rows of an upsert, the deletion of the others and the
commit for SQLite and PostgreSQL, an exception or a crash after each of them.  The
refinement maps `durable` to the abstract table and the commit (or the replacement) to the
instant.

### Admin console: `ConfigFile`, `AdminConsole`, `ConfigReloader`

`ConfigFile` is the file as data: which symbols and strategies are named, which numbers are
numbers; the edits of the console are operators on it, `Loads` is what `AppSettings.from_file` demands in paper mode.
`AdminConsole` is the HTTP server: a request arrives and is authorised by token or session, role,
confirmation phrase (`Arrive`, `Login`, `Expire`); an edit is `Read` and `Write` of the
file and, for a deletion, `Forget` of the strategy's state; a row of the audit file is
`BeginRow` (read the last signature) and `EndRow` (append).  No lock is taken.  `Die` ends the process, perhaps with half a
row written.  `ConfigReloader` asks for the file's time (`Stat`), reads it (`Read`) and parses it (`Load`).

## 4. Runs

| Run | Instance | What it shows |
|---|---|---|
| `oms_order` | one order in play, own or foreign, size 2, three waiting reports, saves that fail, one death | `TypeOK`, `FillsAreReal` (booked <= saved <= known <= traded), `TerminalIsFinal` |
| `oms_batch` | batches of two own orders, size 1, one waiting report, saves that fail, one death | `NoInvisibleExposure`, `TransientHasOwner`, `ImplementsLedger` |
| `oms_ack_race` | one order, no death | violated: `AckAlwaysApplies` (see Findings) |
| `oms_cancel` | one order, no death | violated: `CanceledIsOver` (see Findings) |
| `paper` | three orders of two symbols with one quote currency, prices 1..3, size 4, fee one tenth, one death | `TypeOK`, `FrozenIsReserved`, `BookMatchesAccount`, `OnlyFeesOverdraw`, `SidesAgree`, `LossStopsTrading` |
| `control_one` | one strategy, all requests, one thread, two commands, one end of the engine | `TypeOK`, `AlarmHolds`, `QueueTellsTruth`, `KillSwitchHolds`, `PauseEmptiesBook` |
| `control_lost` | one strategy stopped twice | violated: `QueuedIsKept` (see Findings) |
| `control_switch` | one strategy, no request but the switch | violated: `KillSwitchEmptiesBook` (see Findings) |
| `backtest_plugins` | eleven portfolios of plugins, three accounts, all logs of three snapshots out of four books of two symbols | `TypeOK`, `OwnQuotesUncrossed`, `RiskFindsNothingToRefuse`, `RangeStopsAtTarget`, `LeansAgainstInventory` |
| `trading_loop` | one strategy, one level a side, four records, one row on the stream | `TypeOK`, `OnePerSlotUnlessDoubted`, `OpenCountBounded`, `ShutdownLeavesOnlyDoubt`, `DrillsPassAfterCleanRun`, `ConsoleForeseesReconcile`, `StopsWhenAsked` |
| `components` | limiter, private fills, order book and stores side by side | `WindowNeverExceeded`, `FillsReachTheBooks`, `BookIsItsVersion`, `ActsAsOneWrite` |
| `console_files` | two threads, two users, two symbols, two strategies, three requests, two edits, a reloader | `RecordTellsTruth`, `FileStaysCoherent`, `SettledFileIsLoaded` |

Why the bounds are enough.  Two orders in a batch are what it takes for a loop to
stop in the middle; which of them comes first does not matter, so own ids are
symmetric.  Size 2 is the first with a partial fill; three waiting reports hold an old, a new and a
repeated one at once.  One death reaches every step, and requests sent
before it are still on the network after it.  `PageLimit = 1` stands for 200:
with two live orders one is not listed.  In `OrderManagerOrder.cfg` the constraint
`OneInPlay` keeps one id in play; two ids are covered by `oms_batch`.  The VIEWs leave out
what no property of the run reads and no step that matters to them depends on: histories that another run's
properties read (`FillView`), filled sizes where statuses are the question (`StatusView`); mutants are
checked under the same views.

In `paper` the account holds 160 in units of a tenth, so that a fee is one unit per unit of quote: two buys of size 4 at price 2 or
one at price 3, so refusals, reservations in full and fees on top of them occur, and two
symbols compete for one quote currency; the minimum notional of 5 refuses orders at price 1.
An initial base of 2 lets an order sell what the book never bought.  Size 4 is filled in two
halves.  One death has two starts around it, of which the second finds what the first one's process lost.

In `RuntimeControl` two commands are what it takes to lose one; the engine writes the command file too,
so one thread suffices.  The switch needs neither.

`backtest_plugins`: prices are around ten ticks and one is a hundred basis points, so spreads and shifts
of a few per cent are a tick or a fraction of one; accounts are above, at and below the target
of the plugins that have one; delays of 0, 1 and 2 are within, at and beyond their windows and the
requote interval.  Three snapshots are a change of price and a second one of another symbol.

`trading_loop`: two prices to buy let a quote be kept or replaced; two orders are the limit for open orders, one in
each slot, so that a batch can pass it; four records are two of the start or the first tick and two replacements.
The store holds nothing, an order SUBMITTING or one CANCELING at the start, and the exchange lists
an orphan or none.  The requote interval is one tick here, which never holds
anything back; longer ones are exercised by `backtest_plugins`.

`components`: `MCComponents` extends the four modules, and a behaviour is one of one component, so the state spaces add up and do not multiply.  Three
threads on two calls per three ticks, six ticks (two windows); three
orders, of our own, an outsider's with a name and one without, of size two, two rows under way; four versions of three
prices, so that updates can be stale, next or skip; two records with two values.

`console_files`: two threads are what it takes to lose an edit or to fork the chain of
signatures; the third request shows what the next row makes of it.

Deadlock is not checked in `backtest_plugins`, `trading_loop`, `components` and `console_files`: a log ends, a clock, a feed and a list of
requests are bounded, and an engine that has stopped does nothing more.

Fairness.  `RuntimeControl` assumes weak fairness of `Tick`: the tick is a
loop without branches that wait, and every call it awaits has a time limit.
`TradingLoop` assumes weak fairness of `Proceed`, the steps of the engine's task after each of its
awaits: asyncio schedules the task, and every request has a time limit.  `StopsWhenAsked` needs no fairness of
`Tick`, of the stream or of the operator.  No
fairness is assumed of the admin server, of the exchange, or of `Start`: nothing
in the repository restarts an engine, so `KillSwitchHolds` and `PauseEmptiesBook`
speak of engines that stay up.  No fairness is assumed of cancels either: `PauseEmptiesBook` excludes behaviours in which
orders whose cancels failed come back for ever.

Each property is paired in `PROJECT.json` with a mutant, an operator beside the
original that changes it the way a plausible bug would, under which TLC finds the
property violated.

### Findings

`oms_ack_race`: the private stream may report a fill before the REST
acknowledgement is processed.  The record is then FILLED, the acknowledgement
asks for OPEN, and `apply_order_ack` raises `OrderStateError` out of
`submit_batch` and the tick; later acknowledgements of the batch are dropped.
`tests/test_bitmart_private_stream.py:50` announces that a private fill can arrive
before the acknowledgement, and stops before applying it.

`control_lost`: the engine reads the command file once per tick and writes its
copy back around every command it executes, with cancel requests awaited in
between.  A command the admin server appends meanwhile is erased.  The operator was told
"live cancel command queued for trading engine" (`scripts/admin_server.py:1604`).
The strategy's pause usually cancels the same orders one tick later.

`oms_cancel`: `cancel_batch_orders` says CANCELED of every order of an answered request
(`src/mm/exchange/bitmart/rest.py:242`) and reads none of its rows.  An order the exchange left live is then recorded as
over for good and trades on; what the stream or a reconciliation reports of it is refused by the state machine.
`docs/canary_runbook.md:71` expects that after stopping and canceling no remote order is left.

`control_switch`: `docs/market_maker_development_plan.md:771` accepts the kill switch when it "forbids new orders and cancels
orders" (`docs/production_execution_roadmap.md:420` wants the cancels confirmed).  In the code it only puts the
risk engine into safe mode, which refuses new orders.  An order whose quote changes is canceled by the usual requoting and
not replaced; one whose quote stays the same gets no intent and works on for as long as the switch is set.

What the other runs establish on the way, and a reader should know:

* safety against invisible exposure holds because SUBMITTING is saved before
  the request leaves, a timeout leads to UNKNOWN and an order is closed only by a fact of the
  exchange or on the word of an answered batch cancel; the latter is the one exception
  (`presumed` in `NoInvisibleExposure` and in the ledger);
* a save that fails leaves memory ahead of the store; a restart then finds an older status, never one
  that hides an order which can trade, and may forget a terminal status (`TerminalIsFinal`);
* a stopped loop leaves records SUBMITTING or CANCELING with no call behind
  them until a reconciliation of their symbol puts them in doubt; records of a symbol that is no longer
  configured are never reconciled (`TransientHasOwner` excludes exactly these cases);
* in paper mode an engine that died with open orders never trades again without manual
  repair: they stay UNKNOWN, each start enters safe mode, and nothing calls
  `repair_unknown_orders`;
* PnL does not see what is sold out of the initial inventory; apart from that it
  explains the account exactly (`BookMatchesAccount`);
* the only way to a negative balance is the fee of a buy whose cost took the
  whole balance (`OnlyFeesOverdraw`);
* a command is marked in the file before it is executed, so a death never leads to a
  second execution, but leaves the command `processing` for ever (`QueueTellsTruth`);
* a limit on the number of open orders may be passed by all but one of the slots, because the
  places of a tick are validated before any of them is recorded (`OpenCountBounded`);
* two orders may work in one slot when one of them was in doubt and the stream brings it back
  while its replacement is placed (`OnePerSlotUnlessDoubted`);
* when `cancel_all` raises at shutdown, the stream and the gateway stay open, and records stay as they
  are (`ShutdownLeavesOnlyDoubt` excludes exactly this case); the process ends nevertheless;
* the console says "orphan" of a listed order that the engine knows as UNKNOWN or as over, and only
  warns of a difference in status which makes the next start fail (`ConsoleForeseesReconcile`
  says what may be relied on);
* an outsider's order that carries a name is imported at its first row, and fills after that are given
  to PnL as if they were of our own;
* executions while the private stream was down reach PnL with a later row or never; a connection that closes in order
  raises no alarm (`missed` in `FillsReachTheBooks`);
* two requests at a time can break the chain of the audit file, and the verification then
  reports a file that nobody has tampered with (`raced` in `RecordTellsTruth`);
* two edits at a time lose one of them, but never leave a file that does not load
  (`FileStaysCoherent`);
* deleting a strategy through the console also deletes its pause, while the running engine still has the plugin loaded;
* the kill switch and pauses take effect from the next tick on: orders validated
  before are still placed.  A pause cancels them one tick later (`PauseEmptiesBook`, unless orders in doubt come back for
  ever); the switch only ends placing (`KillSwitchHolds`, and see Findings);
* of two requests at a time about different strategies the later answer may drop the pause of the earlier
  one; without such an overlap an answered pause stays (`PausesKept`, proved).

## 5. Proofs

All theorems hold for every value of the constants under the named assumptions of the modules.  They
say that counts and bounds are natural numbers, that names differ, and otherwise:

* `PriceAssumption`, `HalfAssumption`, `AmountAssumption`, `BPSAssumption`: prices, sizes and steps are
  positive, as in every configuration that can trade (`AppSettings` itself does not check them); sizes are
  even because the paper exchange fills halves;
* `LoopAssumption`: steps are positive, and the tables a run may find in the store are
  `WellKept` (of two live orders in a slot the earlier one, if it works, was in doubt, and there are
  fewer live orders than slots and limit together).  `RunLeavesWellKept` proves that a run leaves
  such a table, so the assumption is kept from one run to the next, beginning with an empty store;
* `ConsoleAssumption`: finitely many threads, and a first configuration that loads;
* `CurrencyAssumption`: finitely many symbols, so that there is a sum over them, and a quote currency that is
  none of the base currencies;
* `ReplayAssumption`: steps are positive, prices, sizes and balances are natural numbers, a snapshot shows finitely many levels and its
  two prices are not both zero (the code leaves mids of zero out of volatilities, the model has none), time does
  not run backwards in a log; a portfolio is a list, every plugin is on a known
  symbol and has the whole numbers its kind asks for (`Numbers`), a window of at least one unit (`max(1, window_ms)`)
  and sizes that stay whole from level to level;
* `OrdersAssumption`: our own orders carry a name.

`OrderManagerProofs`.  None of the properties is inductive.  The invariant `IInv`
adds why they hold: every report in the stream or in an answer is a fact that
stays true (a filled size reached, a final state reached: `Truthful`);
an own request on the network belongs to an order that is SUBMITTING or UNKNOWN and not yet on the
exchange (`PlacingPending`, `Sound`); a status, whether in memory or in the store, that says more is justified by the exchange, or
it is CANCELED and presumed (`NotesSound`, `PresumedCanceled`); the store never says terminal what memory does not (`StoreLags`);
what a call has had served is on the exchange (`CallTracks`).  Memory and store are justified separately because a
save may fail between them.  `LoopKeepsRecords` shows that any end of a loop keeps the records right
when each single move is `Justified`; every action then only has to justify its moves.  Proved: `Inductive` (the invariant), `TypeCorrect`,
`NoPhantomFill`, `ExposureIsRecorded`, `TerminalStatusIsFinal` (an action property) and
`Refinement` (`Spec => ImplementsLedger`, step by step: `LoopPlaces` and `ReconcilePlaces` enter orders, `LoopCloses` and
`EndCloses` close them, `CancelAnswers` is the one that takes the word of an answer).  `TransientAlwaysHasOwner` needs one
thing more, `Owned`: in a `Calm` process a transient record is one of the call in flight, and a record that is
CANCELING, in a call that cancels, was moved by that call.

`PaperTradingProofs`.  `SidesAgree` speaks of the moments between two pieces of work.
`PInv` says what holds inside: an order concerns the work once (`OneTask`);
an order still to be served is in the status the work gave it and has
what the exchange will answer from (`Waiting`); an answer fits the order it was given for (`Served`:
for a fill, filled + fill + remaining is the size of the order);
orders the work does not concern are `Settled`; with an order in doubt the engine is in safe mode
and has no open order (`DoubtBlocks`).  `ServeKeeps` and `ApplyKeeps` do the bookkeeping that all
work has in common.  Proved: `PaperTypeCorrect`, `SidesAgreeAlways`, and `LossStops` (an action property).
`FundsInv` is about sums: what is frozen in a currency is what its open orders need; no base balance is negative, and the quote
balance is none either once the fees are added back, those booked and those of fills not yet applied;
base has moved by the book and the unapplied fills together.
A sum over a set is written as the number of its units (pairs of a member and a number up to its share), so that
the theorems on finite sets apply: adding, removing and changing one member are lemmas on disjoint
unions (`UnitsApart`, `TotalApart`), and that the units are finitely many is part of the invariant.  Proved: `FrozenIsAlwaysReserved`,
`AlwaysOnlyFeesOverdraw`, `BaseAlwaysMatches` (the first half of `BookMatchesAccount`).
The second half is about cash, and about fractions: average costs and realized profits are exact.  `CashInv`: the quote balance, with
what open orders have reserved, is the start plus what the books of all symbols account for plus the fills not yet
applied.  What one book accounts for, its profit without the cost of its position, is
a whole number although neither of the two is (`Earned`): average cost times position is what was paid for it, over a common denominator.  So
the sum over symbols is one of whole numbers, positive and negative ones counted apart (`Net`).  The fold of the
community modules is unfolded as what it is, a recursive function on subsets: the count of units solves its
equation, so there is a solution, and every solution agrees with the count, by a smallest subset on which it would not
(`SumIsNet`).  Proved: `BookAlwaysMatchesAccount`.

`RuntimeControlProofs`.  `QueueInv` adds that a command nobody queued is not in the
file; when no write overlapped, the copy that is written is the file as it is, so every change is
one of one entry.  `PauseInv` adds that no request in progress is about to resume or
delete a strategy whose pause was answered.  Proved: `ControlTypeCorrect`, `AlarmAlwaysHolds`,
`QueueAlwaysTellsTruth`, `PausesAlwaysKept`.

`TradingLoopProofs`.  `LoopInv` adds to `OnePerSlotUnlessDoubted` that of two live orders in one
slot the earlier one was in doubt once (`WellKept`, where a later order counts as live while it is UNKNOWN too, as it may come back); that the intents
still to be validated are for different slots, and where they wait their slots hold nothing but doubt (`SlotsCleared`); that
the orders of a gateway call are marked as such (`BatchIsMarked`), and a shutdown has named every open one (`AllNamed`).  The number of open
orders is then bounded by counting slots: an injection from orders to slots.  A start or a mass
cancel moves records one after the other; the lemmas on it are about the record that stops it, a least
element, which exists by the well-foundedness of finite sets.  Proved:
`RunKeepsItsTable` (the invariant), `LoopIsTyped`, `AlwaysOnePerSlotUnlessDoubted`, `OpenCountAlwaysBounded`,
`ShutdownAlwaysLeavesOnlyDoubt`, `RunLeavesWellKept`; `ConsoleAlwaysForeseesReconcile`, by showing that the differences on the
page are the remote listing against the targets of the reconciliation, order by order; and
`DrillsAlwaysPassAfterCleanRun`: `Breaks` looks at records only through `OpenIn` and `InDoubt`, so drills that pass on
an engine without records (`Fresh`) pass after any run that left nothing open, in doubt or alarmed.  That they do pass
there depends on limits and market, and is a hypothesis: the sample intent may well break another rule first.

`ComponentProofs`.  `WindowInv`: the deque is the end of the history, whatever was dropped is older than the
window, times are in order.  `BookInv`: a book with a version is the feed's book of that version; a difference
applied to the previous version gives the next (`DifferenceApplied`).  `StoreInv` says what each stage of a write has
put where, and with it every step of `OrderStores` is a step of `AtomicStore` or changes nothing there.  Proved:
`WindowAlwaysKept`, `BookAlwaysItsVersion`, `StoresAreAtomic`.

`PrivateFillsProofs`.  `FillsInv`: every row on the connection says no more than was executed; what was handed over and what REST told first never
exceed the record, and equal it without an alarm; while nothing was missed either, the last word about an order is in its record
or still on the way.  `HalfWay` is that inside a message,
between its rows.  Proved: `FillsAlwaysReachTheBooks`.

`ConsoleProofs`.  `FileInv`: the file and every copy a thread holds are coherent, since every edit
keeps what `Loads` demands, whichever copy it starts from.  `RowsInv`: as long as no two rows were begun at once, who
signs holds the last signature.  `CountInv`: edits written are rows written and rows that a thread still owes, counted as
sets.  `ReloaderInv`: a file time found is newer than the last one loaded and not newer than the file.
Proved: `FileAlwaysCoherent`, `RecordAlwaysTellsTruth`, `SettledFileAlwaysLoaded`.

`BacktestProofs`.  `ReplayInv` says that answers and intents are what the plugins and the quote engine make of the last
snapshots, `HistoryInv` that a history holds what was seen in one window.  What is left is arithmetic.  A price rounded to the tick is within a tick of the one wanted, on the
side that is further from the other side (`AlignedPrice`), and a post-only price is on its own side of
the book.  So `RiskNeverFindsAnythingToRefuse` holds for any plugins, and `RoundingNeverCrosses`: what is wanted apart
(`WantedApart`) is quoted apart.  `RangeAlwaysStopsAtTarget`: levels are disjoint stretches of what remains, so an injection of their
units into it bounds their sum.

`OnTimerAround` brings the seven kinds of plugins that quote both sides into one form: each level of each is at a distance
(`Distance`) on one side of a fair price (`FairOf`).  Sums over books and histories, a filter, a smallest and a greatest
mid and a root are shown to be numbers (`SumIsCount`, `SinceKeeps`, `MidExtremes`, `RootFacts`),
which is all the rest needs of them.  From this follow:

* `ReplayTypeCorrect`, in which the bound on histories is `RememberFacts`;
* `PluginsNeverCross`: no plugin of any kind crosses its own quotes.  Its hypotheses: the configuration asks for positive spreads
  (`SpreadsPositive`), fair prices are positive where they are used (`PricesPositive`; a volatile market can push the reservation price of
  `avellaneda_stoikov` below zero, and the code does not stop there), and plugins that share a key agree
  on the fair price (`SameKeySamePrice`);
* `MakersNeverCross`: the same from the configuration alone (`MakersOnly`) for `basic_mm`, `hedged_mm`, `ladder_mm` and
  `volatility_spread` with an `inventory_skew` of less than the whole price, which agree on a positive fair price.  The configuration does not demand
  positive spreads: a negative one would quote crossed prices, which post-only correction does not repair where
  the market's own spread is wider;
* `AlwaysLeansAgainstInventory`, under `FeltSkews`: a symbol has one `inventory_skew` at most, and a unit of
  inventory is worth a basis point.  With two of them the last one counts, whatever the other wants; less than a
  basis point is no shift in the model, which rounds it, though it is one in the code.  The portfolios of
  the run satisfy it.

Model-checked only:

* `KillSwitchHolds`, `PauseEmptiesBook` and `StopsWhenAsked`, which are liveness under fairness;
* `OwnQuotesUncrossed` and `LeansAgainstInventory` outside the hypotheses above;
* what sums, powers and roots amount to: the theorems need that they are numbers, the run computes them;
* `AckAlwaysApplies`, `CanceledIsOver`, `QueuedIsKept` and `KillSwitchEmptiesBook`, which are false.

## 6. Not modelled

* Wording, logs, metrics and reports; prices and sizes as decimals (integers and
  fractions instead); request bodies, signing and HTTP; average fill prices in the
  records.
* A save of an order that fails is in `OrderManager` and `OrderStores`; in `PaperTrading` and `TradingLoop` saves succeed.
* Hedging: its adapters only log or pretend, and the engine ignores their result.
* `query_order` of the paper exchange is never called.  Orders without a price are refused by the paper
  exchange; every intent of the engine has one.
* `TradingLoop` has one symbol, no limit on the number of ticks, and cancels on shutdown
  (`cancel_on_shutdown = false` skips `CancelAll`).
* Balances: `inventory/manager.py` is a cache that a tick overwrites, balance rows of the private
  stream too; nothing else reads its history.
* Code that only tests use, as far as it is not modelled: `quote/budget.py`, `market_data/fair_price.py`, `external.py`.
  (The hub's depth path and `ConfigReloader` are used by tests only as well, and are modelled.)
* `config/audit.py` and `config/change_audit.py` are reports; the latter compares some of the settings only.
* The console's exchange accounts and its read-only pages on markets, PnL and events.
* Pre-flight and smoke checks, monitoring and the event log, `index.html`, command-line scripts and deployment files: sequential
  or output for people.
* `ConfigReloader` sees two writes within the resolution of the file system's clock as one; the model
  gives each write a time of its own.

`PROJECT.json` says for each component what is modelled and what is left out.
