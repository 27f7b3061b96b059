# A TLA+ model of the bithumb / upbit trading bot

The program trades KRW markets on two Korean exchanges, each with a process of
its own (`src/src/main.py` for Bithumb, `src/src/main_upbit.py` for Upbit). A
scheduler runs an evaluation cycle that decides on entries and exits, a tick
thread watches prices and sells at once when a stop is hit, private and public
WebSockets bring events, and REST passes reconcile what the journal says of the
bot's orders with what the exchange says. State files survive crashes; a
watchdog restarts a process that died. These modules model the parts whose
correctness depends on the order in which those things happen.

## Inventory

| Part | State | Operations | Interacts with | Hard behaviour | What makes it correct |
| --- | --- | --- | --- | --- | --- |
| Order journal and gate (`order_safety/journal.py`) | list of order records, `reconciliation_state`, metrics, `_last_reconcile_failed_count`, `order_journal.json` | `record_intent`, `mark`, `mark_by_uuid`, `reconcile_exchange_statuses`, `reconcile_client_order`, `apply_private_order_event`, `suspend_...`, `complete_reconciliation_if_safe`, `_save`, `_load` | executor, fill processor, reconcilers, private events, panic sell | threads that apply answers of different ages, saves that fail, crashes | final states stay final, nothing live is forgotten, the gate opens only on a safe and saved journal |
| Order executor (`executor.py`) | none | `submit`, `execute_twap` | journal, exchange client, gate | lost and ambiguous answers | the intent is on disk before the POST, one live exit per market |
| Fill processor (`fill_processor.py`) | processed volume in the journal | `process_order_fill` | journal, risk manager, cooldowns, trade memory, trailing state | not atomic over several files | every executed lot booked once, what is sold is marked as sold |
| REST reconciliation (`trading_orchestrator.py`, `pre_buy_gate.py`) | queue and interval of acknowledged orders | `reconcile_orders`, `reconcile_next`, `trigger_async` | journal, exchange client | runs next to itself, workers that wake together | every order the exchange closed settles |
| Exchange clients (`bithumb_api.py`, `upbit_api.py`, `exchange_adapter.py`) | rate limits, nonce, telemetry | `create_order`, `get_order`, `cancel_order`, balances | all | timeouts, 5xx, empty answers | an ambiguous answer is not taken for a refusal |
| Private WebSocket (`private_websocket_manager.py`, `upbit_private_websocket.py`, `base_websocket.py`) | bounded queue, connection state | receive, drain, reconnect | main loop, journal gate | overflow, reconnect, lost events | a refused event closes the gate until REST has looked |
| Public WebSocket (`websocket_manager.py`, `upbit_websocket.py`) | last prices, callback queue, pending marks | tick, drain, resubscribe | tick thread, gate | coalescing in critical sections of their own | the newest price reaches the exit engine |
| Real-time exit engine (`realtime_engine.py`) | cached balances, counts of hits, pending requotes | `on_price_tick`, `_confirm_and_record_exit`, cancels, `requote_pending_orders` | executor, risk manager, journal | two threads want to sell the same position | no position sold twice, none left below its stop |
| Risk manager (`risk_manager.py`, `risk_controls.py`, `position_guard.py`) | daily loss and kill switch, trailing stages, exit locks, limits | fills, day rollover, `reconcile_markets`, `update_limits`, `validate_buy` | fill processor, cycle, tick thread, dashboard | restart, midnight, concurrent updates | the kill switch holds for its day, stages never go back |
| Cooldown and loss guards (`cooldown.py`, `risk_off_loss_reentry.py`) | per market cooldown file, loss counts | record exit, check, prune | fill processor, two processes | several writers of one file, partial fills counted as exits | no re-entry before its time |
| State store (`state_store.py`) | JSON file, `.bak` | atomic save, load | all files | crash between two renames | a reader sees an old or a new state |
| Market rules (`markets.py`, `orderbook.py`, `tick_utils.py`) | none | pure functions | executor, cycle | rounding at tick boundaries | valid prices and sizes |
| Trading runtime (`trading_runtime.py`, `main*.py`, `trading_bot_bootstrap.py`) | the cycle: snapshot, targets, budget of AI calls, the momentum slot | prefix, market loop, exits, entry decision, size, order, suffix; main loop | all | long cycles over state that was read at their start | exits are looked at whatever fails before, nothing is bought twice |
| Strategy engine and screener (`strategy_engine.py`, `market_screener.py`, `trading_orchestrator.py`) | macro shock, caches | signals, regime, candidates | cycle | many paths to a BUY, a shock that outlives its reason | no path around the regime |
| AI providers (`ai_provider.py`, `gemini_*.py`, `groq_provider.py`) | calls of the day, cooldowns, latch | complete, discover, record, snapshot | cycle, diagnosis, briefing | two threads check one quota, midnight | the quota is kept, nothing is closed for good |
| Bot controller (`bot_controller.py`, `telegram_alert.py`) | pause flag | pause, resume, panic sell, hot reload | executor, journal, dashboard | commands next to a cycle | a panic sell sells once and settles |
| Process supervision (`trading_watchdog.py`, `process_manager.py`, `watchdog*.py`) | lock, owner, pid and heartbeat files | start, stop, restart | processes | stale pid, double start, hang | one process per exchange, found and stopped |
| Configuration (`runtime_config.py`, `dashboard_server.py`) | `.env`, the dashboard's environment, the limits of each bot | load, save, broadcast, hot reload | bots, operators | a bot that misses a broadcast | who trades with other limits is known |
| Records and reports, sheets, charts, backtest | derived files | read and write | files | duplicates | not modelled |

`PROJECT.json` lists them with their files and status, and under `hazards` the
places where this code can go wrong in ways a test would hardly reach.

## Modules

Six families of modules, each checked and read on its own:

| Family | Modules | Composed by |
| --- | --- | --- |
| orders | OrderStatuses, FillLedger, OrderJournal | OrderJournal (refines FillLedger) |
| guards | DayClock, Cooldowns, LossReentry, DailyRisk | EntryGuards |
| position | TrailingTracker | PositionExits |
| cycle | EntrySignal, EntryDecision, CandidateScreen, MarketRegime, BuySizing | TradingCycle |
| streams | PriceFeed, OrderFeed | MainLoop |
| around the bot | AIProviders; Supervision | AIProviders; Settings (extends Supervision) |

A part that another family owns appears as what it may answer: PositionExits
keeps an order as one record where OrderJournal has all of its life, OrderFeed
has of an order only whether it is final, and TradingCycle reads the pause flag,
the kill switch, the journal's gate and the AI's health as inputs that may differ
each time they are read.

### Orders and guards

**OrderStatuses** has the order states, the sets of them the journal tests and
`MapState`, the translation of an exchange's raw state. **FillLedger** is the
abstract specification of reconciliation: an exchange executes lots and the
books take each of them once, later. **OrderJournal** is the core:

| Variable | Code |
| --- | --- |
| `orders` | the records of `OrderJournal.orders`: status, whether an exchange id is known, executed and processed volume |
| `gate` | `reconciliation_state` and the metric `last_failed_count` |
| `failedNow` | `_last_reconcile_failed_count > 0`, shared by all threads |
| `disk` | the journal file, what `_load` would read |
| `sub` | where each submitter is in `SafeOrderExecutor.submit` and, for a tick thread, in `_confirm_and_record_exit` |
| `rc` | where each reconciler is: a cycle's full pass (`full`), its single order (`tail`), the calls of `complete_reconciliation_if_safe` (`both`), a fast worker (`single`); the answer and the copy of the status it holds |
| `cancels` | orders the bot has cancelled and not yet marked |
| `wire`, `exState`, `exVol` | the exchange: POSTs under way, its own record of each order |
| `stream` | private events not yet applied |
| `booked`, `cleared` | what the P&L, cooldown and memory files have of each order; full exits that cleared the trailing state |

A REST request and the use of its answer are two steps, because the journal is
not locked between them. Each action is one stretch of code under the journal's
lock, with the save it ends in. `Journal` writes memory and file together, or
memory alone where a save may fail. `DieInFill` is a crash inside
`process_order_fill`, after the books and before the journal; `Restart` a crash
anywhere else. Prices, fees and profit are left out: a refused price is the
choice of an answer that is not `valid`, a missing price basis is `NoBasis`.
Volumes are whole lots of one requested volume.

**MCOrderJournal** gives the constants their small values.
**OrderJournalProofs** holds the theorems that hold for any saves, crashes and
clients, **OrderJournalTracking** those that ask for more.

**EntryGuards** is the second family: what has to let a new BUY through, and
the confirmed exits that feed it. It composes three components that share
**DayClock**, the clock they all read, in ticks, with its Korean midnight:

| Module | State | Code |
| --- | --- | --- |
| Cooldowns | `cool.mem`, `cool.file`, `cool.edited`: records and stop-loss counts per market, in memory and on disk, and whether the file was edited by hand | `CooldownManager`: `record_exit`, `is_in_cooldown`, `check_reentry_allowed`, `_load`, `_save`, the day's turn |
| LossReentry | `loss`, `lossFile`: the day's losses per market | `RiskOffLossReentryGuard` |
| DailyRisk | `risk`, `riskFile`: the day's start, result, trades and the latch of the kill switch | `DailyRiskManager`: `add_realized_trade`, `update_daily_equity`, `_load_state` |
| EntryGuards | `fill`: how far the booking of an exit is; `entry`: how far an entry is; `shut`: the cycle's snapshot of the kill switch | `process_order_fill` after a sell; `refresh_portfolio`, `process_entry_gating`, `process_buy_execution`, `evaluate_pre_buy_submit_gate` |

Each method of a guard holds its lock throughout, so a guard's operation is a
function of its state; the queries of the cooldown manager change it too (they
drop what has expired and save), and `After...` says how. The booking of an exit
is four steps, `FillRisk`, `FillCool`, `FillLoss` and `FillMark`, because
another thread or a crash comes between them; a crash leaves the exit to be
booked again. An entry is `BeginCycle`, `Approve`, `PreBuy` and `SubmitGate`.
`booked`, `marked` and `lost` only remember, for the properties.

Prices are four classes of distance to the exit price (`Gap`), as the reentry
filters tell them apart. The text of an exit's reason, in which each guard looks
for other words, is one of six members of `Reason`; `KindOf` and `Qualifies`
are what the cooldown manager and the loss guard read in it. Left out: manual
trades, `register_cashflow` and `manual_reset_kill_switch` (no caller), saves
that fail (the guards log and go on in memory). Assumed: to book an exit, and to
get an entry from its decision to its order, takes less than a tick; the
operator does not edit the cooldown file while that happens.

### Position

**TrailingTracker** is the record `TrailingStopTracker` keeps of a position: its
peak, the partial sales done, the breakeven flag, age and strategy mode, and what
a price makes of it. Prices are levels of distance to the average buy price; the
levels where something happens are constants with their order assumed.
**PositionExits** is one market from its BUY to its last sale, with two threads
that may sell it:

| Variable | Code |
| --- | --- |
| `trk`, `file` | the tracker in memory and `position_state.json` |
| `dyn` | `dynamic_stop_losses`, in memory only |
| `tick`, `hits`, `watch` | `on_price_tick`: where it is, `_sl_hit_count`, `_active_held_currencies` |
| `cyc` | `refresh_portfolio`, `process_priority_exits`, the AI's answer, `process_entry_gating`, `process_cycle_stop_loss`, `process_buy_execution`, with what the cycle has read of the balance and the price |
| `lock` | `_exiting_markets` of the tracker |
| `buy`, `sell`, `held`, `left`, `cool` | the orders of the market in exchange and journal, the account, `get_active_bot_position` |
| `low` | the market is at the hard stop or below, so that a price is not a free choice at every tick |
| `sales`, `crashes` | history and bound |

Each of the two threads decides on a balance it has read before; the exchange
executes in parts in between, and `BookSell` is `process_order_fill` by whichever
thread looked the order up. A crash may come between the tracker's file and the
journal's (`DieInFill`). Assumed: the user does not sell by hand while the bot
sells, nor between a cycle's snapshot and the turn of the market; nothing bought
after a snapshot is sold in part before that cycle reconciles the tracker with it
(`SnapshotUsed`); a cooldown outlasts a cycle; `reconcile_orders` has answers
before the balances are asked for; a tick that saw the last position is over when
a BUY leaves.

### Cycle

**TradingCycle** is `run_cycle`: `Prefix` (the reconciliation that cancels what a
cycle has left, regime, equity base, selection), `BeginLoop`, and for each market
`StartMarket`, `Exits`, `Gate`, `Signals`, `Ask`, `Decide`, `Size`, `Submit`, any
of which may end the turn (`TurnEnds` is an exception). `Executes` and `Closes`
change positions beside it. What a step decides is in pure modules:

| Module | Code |
| --- | --- |
| CandidateScreen | `scan_markets`, `scan_swing_markets`: kind and phase of a candidate |
| EntrySignal | `entry_signal`, the breakout, sweep, swing, listing and rebound signals: what each may answer over facts of the candles |
| MarketRegime | `classify_market_regime`: the candles' regime, the pause of a macro shock and its release, two opinions |
| EntryDecision | `process_entry_gating`: gates, the signal selected, who decides, what the guards leave, the share of a slot |
| BuySizing | `process_buy_execution`'s budget and `RiskGuard.validate_buy`, in percents of the equity |

A comparison of prices, volumes or indicators is a Boolean or a small set of
bands that TLC chooses; comparisons that exclude each other stay exclusive.
Variables: `held`, `live`, `mode` (positions, open BUYs, their modes), `base`
(`bot_allocated_budget`), `recovered` (rebound BUYs of the window), `shock`
(`macro_shock_until`), `cyc` (the locals of `run_cycle`) and `d` (those of a
market's turn; its fields are the ones later steps read). Reductions that change
no behaviour the properties see: `Apart` lets positions change only outside the
steps that do not look at them; the mode of a market that is neither held nor
live is reset; `BULL_TREND` is read as `NORMAL` where only thresholds differ;
the phase is kept for breakouts and listings only.

### Streams

**PriceFeed**: the receiving thread stores a price (`latest_prices`) and queues
one callback per market; the main thread pops it, takes the newest price and
calls the exit engine. **OrderFeed**: the private stream with its bounded queue,
the gate, `reconcile_orders` of cycle and main loop, and the scheduler of
acknowledged orders with its workers. **MainLoop** composes them in the order of
`run_main_loop`: prices, events, recovery. It is run twice, without markets and
without orders, because the streams meet in nothing but the turn.
`refused` is the event a full queue has just refused, before the gate is closed:
the code's `except queue.Full` is a step of its own. `dropped` only remembers.

### AI providers

**AIProviders** has two threads that go down a list of models, a daily quota per
model counted in the telemetry (`calls`) and by the provider (`sent`), cooldowns
(`cool`), the latch that closes the entries after a failed analysis
(`entry_safety`), the discovery of models, the budget of analyses of a cycle,
midnight and restart. What a request has left of its list is the set of its places
(`job.rest`), of which the least is being asked. The two exchanges differ in how a day's counters are
emptied and in the names they are read under (`exchange`).

### Supervision and settings

**Supervision** has the processes of one exchange: `proc` and `parent` are the
operating system's, `pidFile`, `owner`, `lock` and `beat` the four files,
`op` an operator's `start` or `stop`, one step per file or signal. A bot loads,
boots, is up, hangs, or is `deaf`: it got SIGTERM in its main loop, has stopped
its services and goes on beating. **Settings** adds `.env` (`env`), the
dashboard's `os.environ` (`dash`), the limits of each bot (`limits`) and the save
under way (`save`). The slots of positions stand for all settings that are read
at the start and hot-reloaded; they are the hard ones, because their sum is
normalised three times, by the dashboard, at a bot's start and in
`update_limits`. The page always sends all three slots with one changed.

## Runs

| Run | Instance | Shows |
| --- | --- | --- |
| Recovery | one BUY of two lots, one submitter, a cycle and a fast thread, two events in flight, one crash | `FilledIsBooked`, `IntentIsDurable`, `TerminalIsFinal` |
| Ledger | one sell of three lots, one cycle thread, no crash | `BookedOnce` (refinement of FillLedger), `ClearedOnlyWhenSold` |
| Exits | two sells of one market, two submitters under the exit lock, one of them a tick thread, one crash, fairness | `OneLiveExit`, `LiveIsTracked`, `ClosedOrderSettles`, `GateReopens` |
| SaveFail | a panic sell, every save may fail, one crash | `ReadyIsDurable` |
| Guards | one market over two days, two exits and the replay of one, stop, time or profit, an operator's reset, one crash | `NoBuyInPause`, `TwoLossesBlock`, `KillSwitchHolds`, `RestartKeepsCooldowns`, `LossesAreKept`, `ExitsAreCounted` |
| Positions | a position of three lots, two threads, the user's sale, one crash | `SoldIsMarked`, `OneSeller`, `FreshStart`, `ProtectionKept` |
| Stops | a position of two lots, no crash, fairness | `StopWorks` |
| Cycle | two markets, every kind of candidate, signal, regime and answer | `HeldAreVisited`, `SlotIsTaken`, `OnePosition`, `OneRecovery`, `OwnSignalInRiskOff`, `ShockIsDefensive` |
| Providers | two models, either exchange, days of two ticks, any number of restarts, fairness | `QuotaKept`, `NewDayReopens`, `LatchReopens` |
| Supervision | seven process numbers, one operator, `SettingsSpec` | `OneTrader`, `StopIsFinal`, `Findable`, `Recovers`, `StaleIsReported` |
| Orders | one order after the other, a queue of one event, two workers, fairness | `GateCoversDrop`, `DoneIsBooked`, `AcksAreServed` |
| Prices | two markets with two prices, fairness | `OnTheWayOnce`, `NewestIsSeen` |

Each property has a mutant in `PROJECT.json`: a plausible bug in one mapped
definition with which TLC finds it violated on the same instance. Most of the
mutated forms stand in the modules, marked "Mutant", before what they mutate.

The bounds are small because the hazards need little.

* *Orders and guards.* One order, two threads that hold answers of different
  ages, one crash. Two lots make a partial execution, three make two different
  ones. `MaxEvents` bounds the events in flight and not the events of a
  behaviour; `MaxBooked` saturates the counter of booked lots one above the
  requested volume, which is enough to see a lot booked twice. Two orders are
  needed only for the exit lock. `MaxCrashes = 1`: a second crash starts from a
  state that the first crash of another behaviour reaches. In Guards a day has
  four ticks and `MaxNow = 6` takes in one midnight and half of the next day. The
  pauses keep the order of the real ones (a time stop's or a profit's, then a
  stop's, then the limit's), and the limit's can be cut at midnight. The two
  exits of `MaxTrades` reach `MaxLosses = 2`; a third place holds the replay of
  the one a crash hits. `Equities` is an empty account, one below the smallest
  start of a day, and a normal one. The guards keep their records per market, and
  the kill switch is the same for all.
* *Position.* The levels keep the order of the real percentages: both stops,
  breakeven, first partial sale, which is also where trailing starts, second
  partial sale. Three lots leave something after each partial sale; Stops needs
  two and no second partial sale, and no crash, which would only reset the counts
  it is about. `Hits = 2` in Stops for the five of the code: a stop that is
  believed at once and one that is not yet; in Positions each is. `MaxAge = 1` in
  Positions: a position new and past its time stop; past the longest hold the
  cycle only has one more reason for a full sale it can make already.
* *Cycle.* Two markets make one that is held while the other is bought, and two
  that want the same slot; `Caps` may be below both. `CashLevel` is one level: the
  limits of money are about the equity base, which `Manual` changes. No counter
  is bounded: positions, orders, windows, shocks and cycles go on for ever.
* *Streams.* A queue of one is full at the second event. The order's slot takes
  the next order when the last is final and nothing speaks of it any more, so a
  behaviour has any number of orders. `MaxWorkers = 2`: two that wake together. A
  drain takes one entry where the code takes 200, which is the hardest case for
  what comes between two drains.
* *Providers.* Two models make a fallback; `Limit = 3` with `Normal = 1` and
  `Emergency = 2` leaves two threads room to pass the check together. A day of
  two ticks has a tick in it and a midnight after it.
* *Supervision.* Seven numbers are enough that whoever starts a process finds
  one that no file and no operator names (`NumbersSuffice` of MCSupervision, which
  holds on the instance). One number of slots changes, between two values.

The type invariants `TypeOK` of the modules hold on these instances. That of
OrderJournal is proved; the others were checked there and are not kept among the
runs' properties, because none of them says something about the code that the
other properties do not rely on anyway.

`BookedOnce` needs an instance of its own because it is a promise for one
reconciler without crashes; `IntentIsDurable` and `TerminalIsFinal` are promises
for saves that succeed, `LiveIsTracked` one for an exchange whose refusals are
refusals. See below for what happens otherwise.

## Fairness

* OrderJournal, `FairSpec`: a cycle that can go on does (weak fairness of a
  cycle's steps; APScheduler starts the next one when the last has ended), the
  main loop drains the private events, and an order the exchange is asked about
  again and again is answered with its state in the end (strong fairness of
  `GoodFetch` for each order: errors are not for ever). Nothing is assumed of
  submitters, of the exchange and of the fast threads.
* PositionExits: prices keep coming and the tick thread takes them, the cycle is
  scheduled again and again, orders are looked up and booked, and a market order
  that is submitted again and again is executed some time (strong, because the
  exchange may refuse or end it many times).
* MainLoop: the main loop, the receiving thread, the scheduled cycle, the steps
  of a reconciliation and the interval of the acks are weakly fair. Strong are a
  pass of the cycle whose lookups are all answered and a cycle that finds the
  interval over: both are tried every few minutes for ever and not always refused.
* AIProviders: cycle and requests go on (a request has a timeout) and time
  passes; a cycle that may ask has a candidate now and then, and the provider
  answers some of what it is asked for entries (strong). `LatchReopens` is
  conditional on cycles that find a model they may ask.
* Supervision and Settings: a watchdog, a command and the ageing of a heartbeat
  go on (weak); a fork, the first heartbeat and the end of a boot come through
  sooner or later although each may fail many times (strong); a loading bot reads
  `.env`.

EntryGuards and TradingCycle have safety properties only and need none.

## Proofs

TLAPS proves, for all sets of orders, markets, threads, submitters and
processes, any volume and any setting of the switches:

* `TypeCorrect`: OrderJournal, `Spec => []TypeOK`. A busy thread has an order,
  and the processed volume of an order stays within what was requested.
* `FilledAlwaysBooked`: `Spec => []FilledIsBooked`. `FilledIsBooked` is not
  inductive: a restart takes its records from the file, and an answer is used
  long after it was read. `FillInv` adds that neither the journal in memory nor
  the one on disk is ahead of the books (`Booked`), that the exchange calls only
  whole orders done (`DoneIsWhole`), and that an answer a thread still holds was
  true when it was read (`AnswersWhole`). `FillBooked` is the heart of it:
  `process_order_fill` books the difference before it marks, so the books reach
  the answer's volume (`BookReaches`), and a `done` answer has the whole volume.
* `ClearedWhenSold`: `Spec => []ClearedOnlyWhenSold`, the trailing state is
  cleared only for an exit that is sold and booked. It follows from `FillInv`
  and `LedgerStep`: the exchange's volume and the books only grow.
* `ReadyAlwaysDurable`: `Spec => []ReadyIsDurable`, with failing saves too. With
  `TypeOK` it is inductive as it stands, because a write that opens the gate
  takes it to the file in the same save, and no other write touches it.
* `GateAlwaysCoversDrop`: MainLoop, `Spec => []GateCoversDrop`. `GateInv` adds
  only the ranges; the argument is that the one operator that opens the gate
  (`Completed`) does so over a journal without an unresolved order
  (`OpensOverFinal`), that whoever makes an order final takes it out of the claim,
  and that a submission, which makes one unresolved, needs an open gate and
  clears the slot's history. `WireOK` supplies the type of the event a full queue
  refuses.
* `AlwaysOnTheWayOnce`: MainLoop, `Spec => []OnTheWayOnce`. `FeedInv` says that
  the places of a market's callback (the receiver's hands, the queue's positions,
  the main thread's hands) are one place or none; each step moves one place, and
  the set of places after it is the image of the one before.
* `IntentAlwaysDurable`, `TerminalStaysFinal`: OrderJournal, `~SaveMayFail`.
  `KnownInv`: the file is the memory, what left the process has a record, and two
  submitters never have the same order. Every change of the memory is an intent
  for an order without a record, or a mark of one that has it (`Journaled`).
* `LiveAlwaysTracked`: OrderJournal, `~SaveMayFail` and `~GatewayErrors`.
  `TrackInv` says what a final state rests on: the exchange has closed the order
  or will never have it (`FinalIsOver`), and whatever a thread, the stream or a
  submitter holds that could make an order final still says so when it is used
  (`EventsTrue`, `SubmitsTrue`, `AnswersTrue`).
* `OneExitAlive`: OrderJournal, as before and with `LockHolders = Submitters`.
  `OneHot`: of two sells of a market one at most is unresolved or past the check
  under the lock; with `LiveIsTracked` one at most is alive.
* `LedgerImplemented`: OrderJournal implements FillLedger (`BookedOnce`), a step
  or a stutter for each action, with one reconciler, no tick thread, no death, no
  swallowed lookup error and no failing save. `OnceInv`: while an order is open,
  what is booked is what the journal calls processed, and an answer that is held
  is not behind it; the exchange is never behind the books.
* `LockHasOneHolder`, `SoldAlwaysMarked`, `PositionsBeginFresh`,
  `ProtectionAlwaysKept`: PositionExits, from one invariant. `OrderOK`: an exit
  never sells more than there is. `ThreadsOK`: what a thread read is enough,
  because only sales make it less. `BuyOK`, `FreshOK`: a position that is gone by
  a sale leaves a cooldown, one that was gone before the cycle is dropped by its
  reconciliation, so a BUY finds a clean tracker. `MarkedOK`: what was sold is
  marked or still to be booked.
* `HeldAlwaysVisited`, `SlotAlwaysTaken`, `OneRecoveryAlways`, `AlwaysOwnSignal`,
  `ShockAlwaysDefensive`, and with `~OrdersCross` `OnePositionAlways`:
  TradingCycle. Each market has one turn (`OneTurn`) and no order before it
  (`PositionInv`); a turn knows what the gates before it have found out
  (`TurnKnown`, `SlotInv`, `RecoveryInv`, `SignalInv`). The proofs follow a turn
  through its steps: each ends it or hands on what it knows.
* `ExitsAlwaysCounted`, `KillSwitchAlwaysHolds`, `TwoLossesAlwaysBlock`,
  `RestartAlwaysKeeps`; `LossesAlwaysKept` with `"liveStop" \notin Reasons`;
  `NeverBoughtInPause` with `StopPause <= LimitPause`: EntryGuards. `Agrees` says
  how the cooldown file may differ from the memory without answering otherwise,
  `CountInv` and `LossInv` how far an exit under way is in the counters, `PauseInv`
  how long a market rests at least, `RestInv` that an entry past its last check is
  of a market that rests if it was closed.
* `OneAlwaysTrades`, `StopAlwaysFinal`, `AlwaysFindable`: Supervision within
  Settings, under `Alone`. `SupInv` says what the files and the lock tell of the
  processes: the watchdog in its loop is the owner (`OwnerInv`), a launch is
  beside another watchdog, in the pid file or known to its command (`LaunchInv`),
  a bot that lost its watchdog is alone (`BotInv`), and a command knows at each
  step what may still run (`CommandInv`). `NewPidIsFresh` rests on what the model
  assumes of the operating system, that a new process has a number no file names.
* `StaleAlwaysReported`: Settings, under `Alone` too, which gives it `OneTrader`.
  The property compares limits a bot has with limits a start would give it; they
  agree because dashboard, start and `update_limits` all make the sum of the
  slots, whichever of them was last (`SettingsInv`: every file has a sum that is
  the sum of its slots, every bot's limits are `Whole`; `ReloadIsStart`,
  `PageIsFile`).
* `QuotaAlwaysKept`: AIProviders, with `Emergency < Limit`. What is sent is not
  what is counted; `SentInv` says that they are apart by the requests under way of
  today, of which there are two at most. Each thread asks only where less than
  `Emergency` is counted, and the next model of a list is never the one whose
  answer has just come.

### What the proofs assume

The modules' assumptions on their constants are the facts the code's own numbers
have: `LevelsAssumption` of TrailingTracker is the order of the percentages (stops
below the average price, breakeven below the first partial sale, that below the
second), `PauseAssumption` and `ClockAssumption` that pauses and days are not
empty, `ProviderAssumption` the order of the quotas and that a list names a model
once. The hypotheses of single theorems are these:

| Hypothesis | Why |
| --- | --- |
| `~SaveMayFail` | a save that fails is logged and the order goes out: `IntentIsDurable` is false then |
| `~GatewayErrors` | Bithumb's client hands an uncertain result on; an exchange client that raises for a 5xx makes a live order FAILED |
| `LockHolders = Submitters` | every seller but the panic sell takes the exit lock |
| one thread, `MaxCrashes = 0`, `TickThreads = {}`, `~SwallowErrors` | each of them alone books a lot twice (below) |
| `~OrdersCross` | no BUY outlives the cycle that placed it, as without requotes |
| `"liveStop" \notin Reasons` | a real-time stop has none of the words the loss guard looks for |
| `StopPause <= LimitPause` | 30 minutes and 6 hours; the record of a limit replaces that of the stop |
| `Alone` | one operator gives commands, and a watchdog lives until its bot's first heartbeat and while another is launched by hand |
| `Emergency < Limit` | 490 and 500 requests; two threads may both pass the check at 489 |

The section on disagreements says what happens without each. Nothing else is
assumed: `FillAlways`, `KnownAlways`, `TrackAlways` and the other invariants are
proved from `Init` and `Next` for all values of the constants.

Only model-checked are the liveness properties, because the prover does not
reason about fairness and ENABLED: `ClosedOrderSettles`, `GateReopens`,
`StopWorks`, `NewDayReopens`, `LatchReopens`, `Recovers`, `DoneIsBooked`,
`AcksAreServed` and `NewestIsSeen`. Every other property of the runs is a theorem;
each inductive invariant was checked on its run before it was proved.

## Where the code and its texts disagree

Found with the modules, by a property TLC refutes when it is checked on a small
instance or with another constant; they are no runs because a run shows what the
code does keep. Where a definition is named with its module, it stands there.

*Orders.*

* A cancel ends an order with executed lots no pass has booked
  (`journal.py:838`), while the comment before it says that a cancel has no new
  fill: "단순 취소(cancel)는 체결 증가분이 없는 정상 종료 상태이므로 즉시 CANCELED로 반영한다".
* A lot is booked twice when a failed Bithumb lookup reads as volume 0
  (`bithumb_api.py:549`, `SwallowErrors = TRUE`), with `FastThreads = {f1}` (an
  older answer of the fast worker lowers the processed volume), with
  `TickThreads = {s1}` (the same by the confirmation after a sell) and with
  `MaxCrashes = 1` (a crash inside `process_order_fill`).
  `docs/agent-rules/trading-safety.md:11`: "확정 체결 누적값의 증가분만 반영해 재시도와
  중복 이벤트가 상태를 두 번 변경하지 않게 한다".
* An UNKNOWN order stays UNKNOWN: no client looks orders up by client id
  (`exchange_adapter.py:97`). `executor.py:54` promises a block only "REST 재조정
  전까지".
* `LiveIsTracked` fails with `GatewayErrors = TRUE`: a 5xx answer marks a live
  order FAILED (`executor.py:108`), where `bithumb_api.py:149` hands on an
  uncertain result.
* `ClosedOrderSettles` fails with `NoBasis = Order` (a panic sell is refused on
  each pass), `OneLiveExit` when a submitter is not in `LockHolders` (the panic
  sell takes no exit lock), `IntentIsDurable` and `TerminalIsFinal` with
  `SaveMayFail = TRUE` (the intent's save is not checked).

*Guards.*

* A real-time stop's reason (`realtime_engine.py:476`, "손절", "절대 하드스탑") has none
  of the words the loss guard looks for (`risk_off_loss_reentry.py:41`), so the
  loss is not counted; line 53 promises "1) 당일 1회 손실 시: RISK_OFF +
  MOMENTUM_BREAKOUT 재진입 차단 (휩소 방어)."
* The stop that reaches the daily limit rests only to midnight
  (`cooldown.py:174`), which may be less than an ordinary one's 30 minutes
  (`strategy_engine.py:371`).
* The shakeout reclaim (`docs/project-design/strategy-and-risk.md:96`) never leads
  to a BUY: the plain reentry check before it (`trading_runtime.py:1427`) and
  `is_in_cooldown` in the submit gate refuse first. The price filter that outlasts
  the pause of the daily limit (the same document, line 15) is disarmed when
  `is_in_cooldown` drops the record after two hours. A later exit with a short
  pause overwrites the record of a stop loss or of the limit. A second loss of the
  day blocks the RISK_OFF momentum path only for the limit's pause, where a first
  one blocks it until midnight.

*Position.*

* `PositionExits!StageSoldOnce`: a stage may be sold twice, by the tick thread
  that decided before the cycle's sale was booked; `realtime_engine.py:362`
  checks for active orders and the lock before it has read the balance ("중복 청산
  차단").
* `PositionExits!FreshBreakeven`: `reconcile_markets` (`risk_manager.py:835`,
  "Drop stale trailing state") keeps the breakeven flag of a market that is no
  longer held, and the next position begins with it.
* `PositionExits!RemainderManaged`: a full exit that the exchange ended half
  executed leaves coins that are no longer the bot's (`journal.py:434`), although
  line 380 says that less sold than bought leaves a position.
* `PositionExits!StopAlwaysWorks`: a position bought after the last reading of
  the balances is not in `_active_held_currencies`, and the tick thread ignores it
  (`realtime_engine.py:345`, "즉시 … 손절 감시"), while `process_entry_gating`
  (`trading_runtime.py:1397`) may end the cycle's turn before its stop loss.

*Cycle.*

* The ceiling on positions (`docs/project-design/strategy-and-risk.md:36`, "최대 동시
  보유 종목 수를 … 엄격히 제한한다") is passed by the BUYs of one cycle, each of which is
  compared with what the cycle held at its start.
* A second breakout of a cycle passes when it is CONFIRMED or EXTENDED
  (`trading_runtime.py:2088`), where the comment at 3146 says "같은 사이클의 복수
  모멘텀/신규상장 주문 제출을 막는다"; `SlotIsTaken` is what holds. "AI BUY 확인 필수"
  of a new listing (`trading_runtime.py:2151`) is satisfied by the bot's own rule,
  whose reason contains the word. "별도·축소 비중으로만 사용한다" of a rebound BUY
  (`strategy_engine.py:628`) does not survive the share by alpha and the lower
  clamp of an alt's budget.
* `OnePosition` needs `OrdersCross = FALSE`: a BUY that was requoted and crosses
  into the next cycle can be executed between two readings. The isolated equity
  base is not reset when the user has sold his own coins.
* `MarketRegime!CrashIsKept`: the release of a shock's pause by a rebound makes
  NORMAL of a reading of CRASH (`trading_orchestrator.py:813`, against
  `strategy_engine.py:1239`). "향후 30분간 신규 매수 차단" (`trading_orchestrator.py:809`)
  is only a block of the pre-qualification of direct AI entries and of the
  autonomous rule; the pause is in memory, and armed again by the next cycle while
  the drop lasts.
* The rebound signal's docstring (`strategy_engine.py:2240`) says that it relaxes
  the 1H trend gate; its ratio of 0.990 is stricter than the ordinary 0.980. Code
  and documents have three values of `AI_DIRECT_ENTRY_MIN_ALPHA` (50, 55, 80) and
  two defaults of `ENABLE_AI_DIRECT_ENTRY`.

*AI providers.*

* `AIProviders!RefusedStaysClosed`: a model the provider refused for the day is
  open again before midnight when another thread's timeout, or the local quota's
  own cooldown, has replaced the refusal (`ai_provider.py:955`).
* `AIProviders!CriticalAsksNobody`: from 90 % of the quota on a cycle should ask
  for no entry (`trading_runtime.py:2902`); Bithumb's telemetry has no such name
  in its snapshot, so its cycles find no calls.
* Two temporary 429 answers at once close a model until midnight. A failed
  discovery is cached for good. A failed evaluation of a holding closes the
  entries.

*Supervision and settings.*

* `Supervision!StoppedIsReplaced`: a bot that gets SIGTERM in its main loop stops
  its services, catches its own SystemExit and goes on beating
  (`trading_bot_bootstrap.py:373`), so the watchdog does not replace it;
  `watchdog.py:3` says "비정상 종료 시 텔레그램 알림 및 5초 내 자동 복구".
* `OneTrader` fails with two operators who start at once, with
  `EarlyKill = TRUE` (a watchdog lost before its bot's first heartbeat leaves a
  bot that no file names), and when a number is used again after a reboot.
* The settings page says "실행 중인 봇에 무중단 반영되었습니다!" (`dashboard_server.py:2098`)
  also when its broadcast has failed; only the reply's `broadcast` field tells,
  which is what `StaleIsReported` is about. A failed save leaves the values in the
  dashboard's environment, where they are shown and saved with the next change. A
  bot that missed a broadcast gives the page its old values, which the next save
  writes back. With no slots at all a running bot has a sum of 0 and a started one
  of 1 (`0 \notin SlotChoices["scalp"]` keeps it out).
  `MAX_TOTAL_EXPOSURE_PCT=1.0` is 1 % for `runtime_config.py:28` and 100 % for
  `main.py`.

## Not modelled

The components' notes in `PROJECT.json` say which parts have no module. Inside
the modelled ones:

* *Orders.* Profit and fee arithmetic, the slippage guard of a market BUY and
  `execute_twap` (a loop of submits), the pruning of old records in `_save`,
  orders the user places by hand (only the bot's own are in the journal),
  `reconcile_open_orders` (called by nothing). The window between the gate and
  `record_intent` of a BUY (`executor.py:85`) is in the model, but no property is
  about it: the gate is a promise about submissions that start.
* *Guards.* Manual trades, `register_cashflow` and `manual_reset_kill_switch` (no
  caller), saves that fail (the guards log and go on in memory).
* *Position.* Limit exits and their requotes, the dust limits, messages and
  records of a sale; the guards of an AI emergency exit that look at other data.
* *Cycle.* Indicators and scores as numbers, excluded markets, the order book's
  walls and spreads, prompts, parsing, shadow records and the maintenance jobs.
* *Streams.* Connecting, authentication, subscriptions, health and reconnects,
  the asset channel. The price queue's overflow branch is unreachable
  (`OnTheWayOnce`: at most one callback per market, and the queue has room for
  2000). The scheduler's deque of 32 drops silently; the model's is not bounded,
  because an order it forgets is left to the cycle, which asks about it anyway.
* *Providers.* Groq's own limits, caches of answers, prompts.
* *Supervision.* The wait of a crash loop, messages, Windows; a scheduler thread
  that hangs while the main loop beats is seen by nobody. Settings of one
  exchange, and what the cycle reads from `.env` again.
* *Files.* Every file is replaced at once. `state_store.py` and the writer of
  `.env` fall back to overwriting it when the replace fails; a crash then leaves
  half a file.

## Plan

Left for proofs: fewer hypotheses where the code has them not. `OnePosition` with
orders that cross needs an account of what a requoted BUY may still execute;
`BookedOnce` with crashes needs a weaker ledger, in which the lots of one booking
may be taken again. Safety halves of the liveness properties (what a stopped bot
or a closed gate is waiting for) could be stated as invariants.

Left for modules: the reconnects and subscriptions of the public stream, the
store's fallback and backup, the requotes of limit orders, the paper broker.
