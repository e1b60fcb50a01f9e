# A TLA+ verification of the Automated Binance Spot AI backend

The repository is a Python backend (`src/backend/app`, about 13.6k lines) that
collects Binance spot candles, trains models on them, scores signals, judges
trades with a risk engine, trades on paper, and replays strategies over history.
No order reaches the exchange: the paper account is where money is kept, and it
is where this project begins.

The modules here are translated from the source. `PROJECT.json` maps every
definition to the lines it stands for, and lists the runs, the mutants, the
findings, the hazards and the theorems. Paths below are relative to
`src/backend/app/` unless they start with `src/`.

    tlc -workers 2 -config PaperAccount_validated.cfg MCPaperAccount.tla
    tlapm PaperAccountProofs.tla

## 1. The system

One asyncio process. FastAPI requests, the scheduler's tick, the market stream,
the backfill job and every WebSocket client are coroutines that give way to each
other at each `await`. They share PostgreSQL (READ COMMITTED, one session per
request or tick, `expire_on_commit=False`), an in-memory event bus, and a few
process-wide objects (`services/app_state.py`).

| Component | State it keeps | Operations | What makes it correct |
|---|---|---|---|
| Paper account `paper_trading/account.py` | tables `paper_positions`, `trades`, `portfolio_snapshots` | open, close, monitor (exits, trailing stops, mark to market) | money is conserved; a row is closed once and by one trade; stops only rise and are honoured; entries respect the ledger |
| Portfolio, simulator `paper_trading/portfolio.py`, `simulator.py` | balance, realised P&L, open positions, closed trades, peak equity | open, close, process a bar, close all | balance = capital + results − cost of what is held |
| Fills `paper_trading/fills.py` | none | slippage, fee, partial fill, exit trigger, trailing stop | never flatters; on the lot grid |
| Risk engine `risk/engine.py`, `position_sizing.py`, `config/risk_config.py` | none (the config) | health gates, account halts, trade conditions, sizing | the approved size breaks no cap and no filter; no halt is masked |
| Scheduler `scheduler/service.py` | the task, its counters | start, stop, loop, probe | ticks keep coming whatever a tick raises |
| Backtest `backtesting/engine.py`, `service.py`, `metrics.py` | a run: bar, portfolio, curve, counters | replay, finish, store | ends flat; no look-ahead; halts and cooldown hold |
| Ingestion `services/historical_ingestion.py`, `workers/market_stream.py`, `api/v1/market.py` | `candles`, `market_data_metadata`, the job tracker | backfill page, live candle, job | no gap that is never filled; counts agree with rows |
| Features and signals `technical/`, `signals/`, `ml/prediction.py` | `technical_features`, `signals`, `predictions` | compute, predict, fuse | a stored signal can be explained by what is stored |
| Models `ml/training.py`, `registry.py` | `model_versions`, `training_runs`, artifacts on disk, the job tracker | train, save, register, verify, demote | a registered version has its files; a PRODUCTION row is checked; no label leaks across a split |
| Rate limiter, REST client `binance/rate_limiter.py`, `rest_client.py`, `time_sync.py` | sliding windows, backoff, failure counter, clock offset | acquire, record, retry, resync | the exchange's weight limit is never exceeded |
| Stream client, exchange service `binance/ws_client.py`, `service.py` | connection state, backoff, cached metadata | start, stop, reconnect, connect, probe | a stopped client stays stopped; a running one comes back |
| Event bus, connections `websocket/event_bus.py`, `manager.py` | bounded queues, subscriptions, clients | publish, subscribe, heartbeat, send, drop | a slow client blocks nobody; what it receives is in order |
| Lifecycle `lifespan.py`, `services/app_state.py` | what has been started, settings | startup, shutdown | shutdown stops what startup started |
| Backup and restore `src/scripts/manage.py` | archives with a manifest | backup, restore, verify | a restore leaves database and trees of one backup |

Interactions, in the order in which they matter:

* A request `POST /orders` or `POST /positions/{symbol}/close` and the scheduler's
  `monitor_open_positions` read and write the same three tables. Nothing locks a
  row and nothing constrains (symbol, OPEN): correctness depends on what overlaps.
* Both the account and the backtest drive the same `PaperTradingEngine`, which
  asks the risk engine before it opens anything.
* The risk engine's lot grid comes from exchange metadata that is fetched once, at
  startup, and may be missing; the paper account's exits use it too.
* The backfill job and the market stream write the same candles and the same
  metadata row; features, training, signals and backtests read them.
* The stream, the log handler and the scheduler publish to the event bus, whose
  queues the WebSocket clients drain.
* A training job writes files first, then the registry row, then the run's row; a
  signal reads the registry, the files and the features in separate steps; a backup is
  taken by another process while all of this goes on.
* Every task that talks to the exchange goes through one REST client and its limiter;
  the stream has a connection of its own; the lifecycle starts and stops both.

What is hard: handlers interleaving at every await (two opens, two closes, a close
under the monitor); values read before an await and used after it; a restart
between the commit of a close and the commit of a snapshot; a ticker that fails
for one symbol of a tick; numeric edges of sizing (grid, caps, fee, slippage);
halts that are computed from the wrong window; bars that span a stop and a target.
`PROJECT.json` lists each one at its line under `hazards`.

## 2. The modules

    Fills ── PositionSizing ── RiskEngine ──┬── PaperAccount ── MCPaperAccount
                                            │     (Sums)    └── PaperAccountProofs
    Ledger (INSTANCE, abstract) ────────────┤
                                            ├── Backtest ────── MCBacktest
                                            │               └── BacktestProofs
                                            └── Assessment ──┬── MCRiskEngine
                                                             └── RiskEngineProofs
    Ingestion ──┬── MCIngestion
                └── IngestionProofs
    TrainingData, SignalFusion ── Models ──┬── MCModels
                                           └── ModelsProofs
    RestClient ──┬── MCRestClient
                 └── RestClientProofs
    Stream ──┬── MCStream          Lifecycle ──┬── MCLifecycle
             └── StreamProofs                  └── LifecycleProofs

**Fills, PositionSizing, RiskEngine** are pure. The code computes in `Decimal`; here
a fraction is a numerator over `D`, a price an integer, a fill price a multiple of
1/D and an amount of money a multiple of 1/D², so that slippage and fees stay
exact. A quantity is a whole number of grains, the finest amount the model tells
apart; only the quotient in sizing is rounded (down) to a grain. `NoPrice` is
Python's `None`. `CalculatePositionSize` keeps the order of the code's rejections,
`Evaluate` the order of the code's checks (health, halts, conditions, sizing).
`apply_min_to_market` is folded into `minNotional = NoPrice`. The multiplied-out
forms (`DailyLossReached`, `DrawdownReached`) replace divisions by a positive
denominator, nothing else. **Assessment** is one call of `evaluate`: a state is a
case (account, request, system state, verdict), `Decide` the one step, and the properties are
what a verdict promises. `AssessmentSpec` starts from any typed case; the run's `Init` is the
part of it that the small sets of `MCRiskEngine` make up.

**PaperAccount** is the heart. The tables are `positions` (index = id), `trades`
(in exit order), `snapshot` and `peak` (the two things anybody reads of
`portfolio_snapshots`). `proc[p]` is what a coroutine has read so far, and `tick`
the monitor's loop. One action is what the code runs between two awaited
statements:

| Code | Actions |
|---|---|
| `open_paper_trade` | `RequestOpen` (SELECT trades), `OpenSelectRows`, `OpenSelectPeak` (and the "already open" refusal), `OpenFill` / `OpenRefused` / `RequestFails` (the ticker answers; verdict, fill, commit) |
| `close_paper_trade` | `RequestClose` (SELECT the row), `CloseSelectTrades`, `CloseSelectRows`, `CloseSelectPeak`, `CloseFill` / `CloseRefused` / `RequestFails` |
| `monitor_open_positions` | `MonitorLoad`, per row `MonitorTrail`, `MonitorExit` (which then runs the close actions as `Monitor`), `MonitorAborts`, `MonitorTickerFails`; `MonitorCommit`, `MonitorSelectTrades`, `MonitorSelectRows`, `MonitorMark` |
| surroundings | `MarketMoves`, `TimePasses`, `EngineStateSet`, `Restart` |

`Spec` lets everything interleave: that is the code. Two specifications restrict it. In
`ValidatedSpec` handlers overlap as before, but one commits only while what it read is
still what the tables hold (`Current`). The code makes no such check at the commit, so
this states what a row lock, a version column or a serializable transaction would have
to establish. `SerialSpec` allows one handler at a time, which is what the code's comments
assume (`account.py:486` explains why a second close "cannot" happen); it is a special case
(`SerialIsValidated`). Where the session's autoflush or a row-lock wait could only delay
a statement, the model allows the earlier moment too (over-approximation).

`HeldChoices` deserves a word: `load_portfolio` builds a dictionary keyed by symbol
from a query without `ORDER BY`; with two open rows of one symbol the model
keeps either.

**Ledger** is the abstract specification of an account: an entry is paid from cash,
it ends once, and everything it returns is in the cash from then on. It has no
tables, prices or requests. `PaperAccount` (under `ValidatedSpec`) and `Backtest` both
implement it through the refinement mapping `AsLedger`.

**Backtest** replays one symbol: `BarWhileFlat`, `BarHolds`, `BarExits`
(`process_bar`), then the strategy (`Waits`, `StrategyExit`, `BuyRejected`, `Buy`,
`BuyFails`), then `Record`; `Finish` closes by force. The strategy is arbitrary: at
every bar it may do anything `_make_strategy` could return, so what holds here
holds for every strategy. `BuyFails` is the ValueError of `portfolio.py:161` that
turns the whole run into FAILED.

**Ingestion** is where candles and feature rows come from. A pair is one symbol and
timeframe; its candles are the numbers 1, 2, ... in the order the exchange closes them
(`closed`), of which the stream may announce some (`heard`). `candles`, `metadata`
(`market_data_metadata`) and `features` are the tables, `job` is the tracker, and
`proc` holds what the three kinds of handler have read; `partial` in it names the candles
of a page that were in progress when the exchange answered:

| Code | Actions |
|---|---|
| `start_backfill`, `_run_backfill` | `StartBackfill`, `BackfillPair`, `FetchFails`, `JobEnds` |
| `backfill_symbol_timeframe`, `klines` | `ExchangeAnswers`, `ReceivePage` (or `PagesOver`), `UpsertPage`, `SelectMetadata`, `BackfillCommits` / `BackfillCollides` |
| `_handle_kline`, `persist_closed_candle`, `compute_latest` | `StreamCandle`, `SelectMetadata`, `StreamCommits` / `StreamCollides`, `LoadCandles`, `StreamFeatures` |
| `compute_and_store_all` | `LoadCandles`, `BackfillFeatures(Fail)`, `ApiFeatures(Fail)`, started by `RequestFeatures` or after the pages |
| `validate_symbol_timeframe`, `_persist_report` | `RequestCheck`, `SelectMetadata`, `PersistReport` |

A page is as of the moment the exchange answers (`Served`, the candle in progress included).
Which of its rows count as closed is decided when it has arrived, and not by the exchange:
`klines` reads the local clock, corrected by the measured offset, after the response, and
`from_rest_row` keeps the rows whose close time it is past. `LastPast` is that clock in
candles: up to `Behind` late and up to `Ahead` early. So a candle may be stored with
the values of a page that was answered while it was in progress, from a live page even
over the final row the stream had stored.

Three things of the database matter and are modelled by what they do. An upsert
holds its rows until the commit, and another upsert of one of them waits (`Locked`,
`Free`). SQLAlchemy puts into an UPDATE only the attributes whose value differs from
what was read (`Written`), so two overlapping writers lose each other's changes field by
field. A flush that fails on the unique constraint leaves the session unusable until it
is rolled back, which nobody does: `job.broken` is that session, which all pairs of a
job share. `StatementRows` stands for the driver's limit of 32,767 arguments a
statement, which the features of 6,553 candles reach; the candles themselves come a
page of 1000 at a time (13 arguments each) and do not.

**TrainingData, SignalFusion** are pure. `Split` is `chronological_split` on row numbers:
what a leak is depends only on which rows a label looks at. `SignalFusion` computes the
sub-scores, their average, the model's score and the decision in percent; a feature that
could not be computed is `None` (`FeatureType` says what a feature row may hold). The divisions round down to a percent, which is coarser
than the floats of the code and keeps their comparisons.

**Models** is one symbol and timeframe from training to signal, with the disk beside the
database. A version is named by the moment its job built it, so a job and the version it
may produce share a number. `server` is what lives in the memory of the process,
`operator` what `manage.py` is doing:

| Code | Actions |
|---|---|
| `start_training`, `_run_and_track`, `run_training_job` | `StartTraining`, `RecordRun` / `RecordFails`, `BuildFrame`, `TrainAndSave`, `Register`, `JobFails`, `FinishRun` |
| `_startup_checks`, `demote_broken_production_models` | `Startup`; `Crash`, `CrashWhileSaving` |
| `compute_and_store_all` | `StoreFeatures` |
| `generate_signal`, `predict_latest` | `RequestSignal` / `RequestPrediction`, `SelectVersion`, `LoadModel` / `RefuseModel`, `Predict` / `CannotPredict`, `StorePrediction`, `PersistSignal`, `RequestFails` |
| `cmd_backup` | `BackupDatabase`, `ArchiveTrees`, `WriteManifest`, `BackupFails`, `ToolStops` |
| `cmd_restore` | `RestoreDatabase`, `ClearTrees`, `ExtractTrees`, `ToolStops` |

`Promote` is external: nothing in the repository writes PRODUCTION. Fitting and metrics
are the environment's: they decide whether a version is VALIDATED or a CANDIDATE.

**RestClient** is the way to the exchange. A call is a stack of `_request` frames, because
a rejected timestamp makes a request for the server's time inside the retry loop of
another (`Resync`, `Resume`). `Throttle` and `Send` are `acquire`, `Retry` the end of an
attempt, `Succeed` with what `server_time_ms` and `exchange_info` do with the answer.
Times are ages of what was recorded and countdowns of what is awaited, so no clock grows;
`Tick` lets a unit pass when nothing that is ready waits for it (`Due`). A window is kept as
what it counts over the last 0, 1, ... `Horizon` moments (`More`, `Older`), which says the same as
the deque of timestamps and weights and needs no order of entries. `sent` records the requests
that left the process apart from what the limiter believes: of each kind, under the rules in
force (`since`) and under those they replaced (`before`, `rules`). It steers nothing.

**Stream** is the way to the browser: the bus (`Publish`, `Offer`), the endpoint (`Refuse`,
`Admit`), the tasks of a connection (`Register`, `Greet`, `Take`, `Deliver`, `ReadPong`,
`ReadRequest`, `ReadGarbage`, `Reply`, `Interval`, `Beat`, `PeerLost`, `Release`) and the
page that reconnects (`Connect`, `Opened`, `OnClose`, `Disconnect`). A peer is up, stalled
(it reads nothing and blocks a send), vanished (sends are swallowed) or has left (sends
raise). `sent`, `skipped`, `offered` and `latest` record what became of the events and
steer nothing.

**Lifecycle** is the process from `lifespan`'s first line to its last, twice: the startup
checks, `connect` in its three requests, the stream's task, the scheduler's task, health
checks, the graceful stop, a crash, and outages of the exchange, the database and Redis.
`HealthyIsFresh` relates two moments: the probes that await nothing look at once, those
that await look up to a timeout later.

**Sums** sums a function over 1..n as a recursive function, so that the
proofs can reach it.

Definitions introduced by a comment that begins with "Mutant:" are not part of the
model. Each is a definition as a plausible bug would have it; it is put in the place
of the real one to see the property named in `PROJECT.json` fail.

## 3. What the runs show

Every run finishes in about two minutes or less with two workers.

| Run | States | Question |
|---|---|---|
| `PaperAccount_validated` | 1.3 M | A request beside the monitor, both committing only what is still true, two symbols, three rows, restarts, failed tickers: is the account a ledger, within its limits, and does every entry respect the halts of the ledger as it stands? |
| `PaperAccount_overlap` | 2.9 M | Two requests and the monitor interleaved at every await: is a row CLOSED exactly when the ledger holds its trade? |
| `PaperAccount_fair` | 273,584 | One request at a time beside the monitor, with fairness: is a stop that the price has reached honoured, never lowered, and a symbol open once? |
| `RiskEngine` | 307,200 | Every combination of a small account, request and system: largest legal size, no masked halt |
| `Backtest` | 471,532 | Every replay of two to six bars under every strategy |
| `Ingestion` | 684,551 | Job over two pairs, stream and requests interleaved at every await, with failures, restarts and a clock up to a candle off: does a backfill leave holes, does the metadata row promise more than is stored, does a job end, whatever fails, collides or is too long? |
| `Models` | 553,392 | Two jobs, a promotion, crashes, and either two bars with a signal or a backup with a restore: is what the registry, the runs and the archives promise on disk; can a stored signal be explained; does a job end? |
| `RestClient` | 75,944 | Two tasks under small limits, with every kind of failure and an exchange clock that is off: do the windows hold, what does replacing the rules cost, is the number of requests of a call bounded, how wrong can the clock be, does every call end? |
| `Stream` | 428,091 | Two sockets for one slot; a fault among two events, or four events for queues of two: are events in order and accounted for when a queue drops its oldest while the pump holds another and the filter changes; does a slot follow its connection, is a lost peer released and a page that stays served? |
| `Lifecycle` | 316,104 | Two starts, one outage, three requests: do tasks end before what they use is closed, is ONLINE fresh, does the stream come back? |

`WithinMaxPositions`, `EntryRespectsLedger` and `ImplementsLedger` are checked under
`ValidatedSpec` only, because they are false when a handler commits what is true no
longer; `PaperAccount_duplicate` shows the root of it. Two concurrent closes of one position
also write two trades, and concurrent opens of several symbols exceed
`max_simultaneous_positions`; section 4 says by how much at most. `ClosedIffTraded`
and `StopNeverLowered` hold whatever overlaps.

Three properties name an exception that the code has: `SlotsAreLive`,
`LostPeersAreReleased` and `PageIsServed` except connections whose greeting failed, which
keep their slot for ever (`GreetingFails`, `manager.py:69` is outside the `try`).
`CompletedRunIsDurable` and the stored prediction of `SignalIsExplained` hold until a
restore, which takes rows and files back to another time. `SignalIsExplained` lets the
prediction be of a newer bar than the signal, because it may be. It asks of a BUY or SELL that
one active component is confident enough and one leans its way by the margin: what an average
must keep of its parts, though not always in the same part.
`WithinDeclaredLimits` has two parts: what is sent under the rules in force stays within them
(`LimitsInForce`), and replacing the rules may cause an excess that `HandoverWithinBothLimits`
bounds, over one replacement; `connect` makes one per start.

### Disagreements between the code and what it says

Shown by a run:

| Run | What TLC finds |
|---|---|
| `PaperAccount_duplicate` | Two requests open one symbol although `account.py:239` refuses it: both read no open row, both await the ticker, both commit. From then on `scalar_one_or_none` fails every close of the symbol and aborts every tick that wants to exit it (`MonitorAborts`). |
| `Ingestion_hole` | A live candle that is stored before the first backfill becomes the point to resume from. The backfill reaches the present, reports so, and the history before that candle is never fetched. (The trace is that case. Candles lost while the stream was down, which `market_stream.py:87` expects "the next backfill" to fix, are passed over by the same rule; that is argued from `Written` and `ResumePoint`, not shown by the trace.) |

Stated as a definition of its module, false, and without a run in the set (a cfg that
names the property, with the constants of the run beside it, shows it in seconds):

| Definition | What happens |
|---|---|
| `OnlyFinalCandlesStored` (Ingestion) | "Only closed candles are ever persisted" (`historical_ingestion.py:10`) is false even with an exact clock: the exchange answers while a candle is in progress, the candle closes during the trip, and `market_data.py:174` then calls its row closed. The next page starts after it, so nothing corrects it unless the stream delivers it later. `market_data.py:4` says that wall-clock proximity never decides this. `Ingestion.cfg` reaches it, and so do the exact clock and the one pair of `Ingestion_hole.cfg`. |
| `ApprovedRisksMoreThanFees` (Assessment) | A trade whose "round-trip fees meet or exceed the amount risked" is said to be refused (`position_sizing.py:178`, `tests/unit/test_position_sizing.py:166`). Line 174 compares the fees with the risk budget; a quantity cut by a cap uses up only a part of it and is approved with fees above what it risks. `RiskEngine.cfg` reaches it. |
| `NoEntryAfterDailyLoss` (PaperAccount) | `max_daily_loss` is judged on the realised result of the account's whole life (`simulator.py:82`), so profits of an earlier day hide today's loss. Needs `MaxTime` of two days and a limit above one losing trade. |
| `NoEntryUnderEmergencyStop` (PaperAccount) | An entry is approved under a persisted EMERGENCY_STOP (`src/docs/TRADING_MODES.md:26`): `open_paper_trade` passes a default `SystemState` (`account.py:256`). Needs `EngineStates` with both states. |
| `RefusedOnlyWhenClosed` (PaperAccount) | A position bought while no metadata was cached rounds to zero on the grid cached after a restart: "No open paper position", for good. Needs a grid coarser than the position and both `MetadataStates`. |
| `StopNeverFlatters` (Backtest) | A bar that trades wholly below the stop is sold at the stop, which `simulator.py:242-254` calls the assumption that cannot flatter. `Backtest.cfg` reaches it. |
| `WithinMaxConnections` (Stream) | Sockets that arrive together are all admitted beyond `max_connections`: the capacity is looked at (`api/v1/websocket.py:26`) before two awaits and the connection is counted after them. `Stream.cfg` reaches it. |

Visible in the models as what a step does, without a property:

* `ConnectFails`: a connection that fails at startup is never tried again and the streams
  are never started; `lifespan.py:208-210` says the application "keeps running and
  reconnecting".
* `Resume`: a 429 answered to the nested request for the time is not honoured by the loop
  around it, whose backoff looks at its own last error; `rest_client.py:187` says "never
  shorter than a served Retry-After".
* `Unsubscribed`: a client that has unsubscribed from everything has the empty set as its
  filter, and `current or set(EventType)` (`manager.py:143`) takes it for no filter: its
  next unsubscription subscribes it to all but what it named.
* `Succeed`: `exchange_info` installs empty windows (`rate_limiter.py:112`), and what was
  sent before is forgotten. `LimitsInForce` therefore counts what was sent under the
  rules in force, and `HandoverWithinBothLimits` allows an old limit on top of the declared
  one; that both together stay within the declared limit is false.
* `RefuseModel`: a version that is the best of its status but has lost its files fails
  every signal until someone changes its row, not only the model's part of it
  (`signals/service.py:124`); the check at startup demotes only PRODUCTION rows, which
  signals do not use, and looks at `model.txt` only (`registry.py:80-92`).
* `Crash`: a run whose job was killed stays RUNNING in `training_runs`.

Met while reading: a losing streak is called a cooldown (`config/risk_config.py:75`,
`src/docs/RISK_ENGINE.md:32`) and is a permanent halt (`HaltedForGood` states what the code
does); RISK_ENGINE.md:59 says every decision is persisted, approvals are not; the order
documented in `risk/engine.py:9-12` is not the order of `evaluate`; affordability ignores
slippage (`position_sizing.py:163`), so an approved size may be refused by the portfolio;
`_run_backfill` says that a failure on one pair "must not abort the others"
(`api/v1/market.py:249`), but they share the failed session (`BackfillPair` with
`job.broken`); the features of a history longer than the driver's limit are never stored
(`BackfillFeaturesFail`).

### Bounds, and why they are enough

* Prices: two or three values that lie on both sides of the stop (9) and reach the
  target (12) or raise a trailing stop; 1 % slippage and fee (`Slippage`, `FeeRate`
  over `D` = 100) keep every rounding visible.
* `MaxPositions` = 2 or 3 rows: two rows of one symbol (a duplicate, or a close
  followed by a reopening) plus one of another symbol; the halts need
  `MaxConsecutiveLosses` = 2 closed rows and one more entry to be wrong about.
* `Clients` = 1 in `validated` and `fair`, beside the monitor: two handlers that overlap
  (the theorems have any number), 2 in `overlap` and `duplicate`: with the monitor that is
  three handlers.
* `MaxTime` = 1 with a cooldown of 1 in `validated`: within and at the boundary.
  Runs about interleaving stop the clock, which plays no part in them.
* `MaxQuantity` bounds the grains of one row from above; no reachable entry of the
  configurations is cut off by it. `MaxPositions` does cut: the entry after the
  last row is not explored.
* `Backtest`: five bars (flat, up, down, one that spans stop and target, one that
  gaps below the stop), two orders (stop and target; trailing), six bars: two losing
  trades, the cooldown of one bar, and the halt after them.
* `RiskEngine` and `Backtest` are checked with `CHECK_DEADLOCK FALSE`: an assessment and a
  run end. Everywhere else deadlock is checked.
* `Ingestion`: a pair of two candles, beside one without any (a job with a pair that has
  nothing to do, next to one that may break the session), and pages of two: a full page, a
  partial one, and, when the clock is ahead, a second page that holds the candle in progress.
  `MaxPages` = 2 ends a backfill at the limit and before it; `StatementRows` = 2 is passed
  by a history of three and not by a page. The clock may be a candle behind or ahead
  (`Behind` = `Ahead` = 1): ahead by more makes no difference, because a page holds no
  candle after the one in progress. `Ingestion_hole` has one pair of three candles and an
  exact clock (`Behind` = `Ahead` = 0).
* `Models`: two jobs, so that a newer version may be worse than an older one and a backup
  may be taken between them; frames of 3 rows (refused) and of 20 (split), with a horizon
  of two; a row whose sub-scores agree and one whose sub-scores disagree, each with a
  prediction up and down. A behaviour stores bars and asks, or takes a backup and restores
  it: the two meet only in the registry and the files, which both explore in full. One
  restore, because what it leaves does not depend on how many there were.
* `RiskEngine`: accounts in and out of each halt, with the position held in the symbol of the
  request or in another (the asset cap and the portfolio cap bind in turn), prices and stops
  on both sides of one another, with and without a lot grid, `max_qty` and `min_notional`.
* `RestClient`: limits of 2 and 3 that two tasks reach at once, rules before and after
  `exchangeInfo`, a request too heavy for any window, one retry, a clock off by 3 beyond a
  `recvWindow` of 1, a `Retry-After` longer than the backoff. Two calls suffice for one to
  wait for the other.
* `Stream`: one slot and two sockets, so that a page meets its own former connection; a
  patience of two intervals; one control message; a queue of two. A behaviour starts with
  one of two `Budgets`: two events and one fault, or four events and none. With four, one is
  held by the pump, two wait in order and the older of them is dropped, or two are dropped one
  after the other. For the queue a stalled
  peer is a `Deliver` that comes late, and it may come as late as one likes without a fault;
  that events are accounted for with any number of both is `EventsAreAccountedFor`
  (section 4). The budget of events cuts the publishers off, nothing else.
* `Lifecycle`: a second start after a stop, a crash or a failed start; one outage of each of
  the three; ages up to one past the limit and the timeout (`Never`).
* Requests are interchangeable in `overlap`, symbols in `validated`: symmetry is used
  there, and never in a run with a liveness property.

### Fairness

`FairSpec` assumes weak fairness of each step of the monitor (the scheduler's loop
catches whatever a tick raises and sleeps again, `scheduler/service.py:79-103`, and
asyncio resumes a coroutine whose statement has answered); strong fairness of a
row's check against the failure of its ticker (the exchange answers infinitely
often, not always); and that the process is eventually no longer restarted. Nothing
is assumed of requests, of the market or of the clock. `StopEventuallyHonoured` is
checked with one client and a grid that does not change: a duplicate and a coarser grid
are the two ways in which it is lost otherwise.

In `Ingestion`, weak fairness of the job's and the stream's steps: a statement and a
request to the exchange are answered, with a result or an error. `UpsertPage` has
strong fairness because PostgreSQL queues the waiters of a row lock: the stream, which
takes the same locks again and again, cannot keep the job waiting for ever. Nothing is
assumed of candles, requests or restarts.

In `Models`, weak fairness of the job's steps and of the request's: asyncio resumes a task
whose statement has answered. A job may always fail, a process may always be killed; both
end it. Nothing is assumed of operators, backups or restarts.

In `RestClient`, weak fairness of `Tick` and of each task: time passes and what is ready
runs. `Latency` is the client's timeout, after which a request has failed. That a waiter is
not overtaken for ever is a result, not an assumption, for the calls of the run.

In `Stream`, weak fairness of every task of a connection, of the page's reconnection, and
of `GivenUp`: the keepalive of the web server (uvicorn's ping timeout) gives up a peer that
reads nothing. Without it a stalled peer blocks the heartbeat that is to find it. `OnClose` is
part of the reconnection, and its fairness is an assumption about the browser: the page
reconnects only from `onclose` (`src/frontend/src/lib/websocket.ts:53-57`) and has no
watchdog of its own, so a connection that vanished silently is replaced only if the browser
reports it in the end. Nothing is assumed of publishers, users or the network.

In `Lifecycle`, weak fairness of startup, shutdown and both tasks, and of the end of an
outage. `FeedRecovers` says nothing about an exchange that stays away.

## 4. What is proved

All for every value of the constants that the modules' ASSUMEs allow: any symbols,
prices, plans, clients, limits, filters, bars and bounds. No fact is left without a
proof. Two assumptions are worth naming: limits are fractions in 1..D, and slippage
is below one.

* **TypeCorrect** (`PaperAccountProofs`). `TypeOK` is inductive by itself once it says
  that a close in flight works on a row that exists and that every trade
  names one. One lemma per group of actions (`RequestSteps`, `OpenFillStep`,
  `CloseSteps`, `CheckSteps`, `TickSteps`, `WorldSteps`), combined in `TypeNext`.
* **ClosedRowsHaveTrades** (`ClosedIffTraded`). Only four kinds of step touch the
  tables (`TableSteps`): an entry appends an OPEN row with a new id, a close marks
  the row and appends its trade in one commit, a flush changes stops only. Needs
  `TypeOK` for "the row exists".
* **StopsOnlyRise** (`StopNeverLowered`). Not inductive alone: the monitor writes
  stops computed from rows it loaded earlier. The strengthening `TickFollowsRows` says
  that a row still to be checked has the stop the tick loaded, and that a pending
  stop is no lower than the row's; it holds because nobody else writes stops and
  the monitor has one tick at a time.
* **HistoryIsKept.** The tables only grow: a row keeps what was bought, CLOSED is for ever,
  no trade is rewritten. From `TableSteps`: the monitor's flush writes the stop alone.

What the code's checks are good for, of `Spec`, where nothing is validated:

* **OneEntryOneRow, OneEntryWithinMax** (`OneOpenPerSymbol`, `WithinMaxPositions`, as long as
  no two entries are in flight together). The rows an entry has read may be out of date,
  because closes and the monitor go on, but never too few: `EntriesKnowRows` says that every
  open row is among them. So the check for an open position and the limit hold at
  the commit although nothing locks what was read. With two entries both are
  false (`PaperAccount_duplicate`), which is why the theorems have that hypothesis.
* **OneSellerSellsOnce** (as long as no two handlers are closing one row): no row is sold
  twice. The row a seller selected stays open until it commits (`SellersFindOpen`), and an
  open row has no trade.
* **OverlapBoundsRows, OverlapBoundsSymbols, OverlapBoundsSales**: without any hypothesis on what
  overlaps, a symbol has at most as many open rows as there are clients, the open symbols
  exceed the limit by at most one less than there are clients, and a row has at most one trade
  per client and one of the monitor. Each rests on a potential: an open row of the symbol, or
  an entry in flight that saw none, counts one (`RowsBound`); an open symbol, or an entry that
  saw fewer symbols than the limit (`SymbolsBound`); a trade of a closed row, or a handler still
  about to sell it (`SalesBound`). A commit turns one kind into the other, and once a row is
  open, the limit reached or a row closed, whoever reads it then is refused (`ReadersSee`,
  `NobodyJoins`). The first bound is reached: the trace of `PaperAccount_duplicate` ends with
  two clients and two open rows of one symbol.

What the account promises when handlers commit only what is still true:

* **ValidatedWithinMax, ValidatedOneRow, ValidatedNeverInDebt, ValidatedAccountIsLedger,
  ValidatedEntryRespectsLedger** (under `ValidatedSpec`). The inductive invariant `AccountInv`
  has the open symbols distinct, no two trades of one row, `ClosedIffTraded`, the
  balance in the last snapshot equal to the capital plus what the trades returned minus what the
  open rows cost (`Balanced`), and that balance not negative. Nothing in it is about what
  handlers have read: `Current` gives that at each commit. A restart between two commits keeps
  all of it, because what is stored last is the snapshot of the same commit. The refinement
  then has one lemma per kind of step of the `Ledger` (`LedgerEnter`, `LedgerEnd`,
  `LedgerStutters`). For the halts, the equity that `account_state` computes from the plan's
  portfolio is compared with the one of the stored ledger.
* **SerialIsValidated**: a handler that is alone reads what the tables hold and finds it so at
  its commit (`SerialInv`, with `ReadsCurrent`). So everything above holds of handlers run
  one at a time (`SerialWithinMax`, `SerialAccountIsLedger`, `SerialEntryRespectsLedger`).

The others:

* **RoundTripNeverGains** (`RiskEngineProofs`). What is bought and sold again at no higher a
  reference price loses at least its fees, for every quantity, slippage and pair of lot grids.
* **ApprovedSizeIsLegal** (`RiskEngineProofs`). For all integers, an approved size is
  positive, within the risk budget, every cap, the balance with its fee, `max_qty`,
  `min_qty`, `min_notional`, and on the lot grid: `SizedQuantityBounds` shows that
  rounding down after taking the tightest cap cannot leave it.
* **ApprovedIsLargestLegal, HaltPauses** (`RiskEngineProofs`). The two properties
  of `Assessment` that hold, as invariants of `AssessmentSpec`: any typed account and request,
  any system state, and no verdict yet or the one `Evaluate` gives (`CaseOK`). The first is the
  converse of the theorem before it: one lot more would break the cap that was
  tightest, because the quotient is the largest below it (`UpToQuotient`) and the next
  multiple of the grid is above that (`RoundedToGrid`, `SizedQuantityIsLargest`).
* **TypeCorrect, RunEndsFlat, ReplayImplementsLedger** (`BacktestProofs`). The
  invariant `Inv` adds to the type: the books balance (balance = capital + realised
  − cost of what is held, realised = sum of the trades), the curve has one
  point per bar, the run's end leaves nothing open, and the account is solvent
  (an exit never returns less than nothing: `FillBounds`). `RunEndsFlat` follows;
  the refinement adds that an approved purchase costs something (from
  `ApprovedByEveryCheck`) and that an exit returns at least nothing.
* **CooldownAlwaysSeparates, StreakHaltsForGood, PeakAlwaysCovers, BarsNeverFlatter**
  (`BacktestProofs`). `PositionStep` reduces a step to an exit, an approved entry or
  neither, and `ApprovedEntry` says what an approval excludes: a running cooldown and a
  full streak. `PeakCoversCurve` is not inductive alone, because the forced exit rewrites
  the last point of the curve without moving the peak: `PeakCovers` adds that between two
  bars the equity at the last close is under the peak, and `CloseAtMost` that selling at a
  price never returns more than the position is worth at it.
* **TypeCorrect, BackfillLeavesNoHole, ResumesFromStored, CountIsCautious**
  (`IngestionProofs`). None is inductive alone. `IInv` adds, for every handler between
  two awaits, what it may still believe of the tables (`HandlerOK`: the rows it is about
  to count as new are still missing, the count it read is still covered, its page follows
  something stored, as does the page that is still on its way, its resume point is stored), that no two handlers hold a row in
  common (`LocksDisjoint`), and that a pair with candles has a metadata row. Steps are of
  three kinds, with a lemma each: a handler reads (`ReadStep`), a commit (`CommitStep`,
  on `WrittenIsTrue`), and the world. `TypeCorrect` says which candles a table may hold: those
  the corrected clock was past, which are closed if that clock is never ahead (`Ahead` = 0);
  and that features are those of stored candles. It claims nothing of the values; that
  those are final is false (`OnlyFinalCandlesStored`, section 3). The three other theorems hold however far the clock is off. `CountIsCautious` needs all of it: the count
  written is computed from a row read before an await, and stays below the truth only
  because the rows counted are locked from the upsert to the commit.
* **ModelsTypeCorrect, FramesDoNotLeak, RunsAreDurable, BackupsAreSelfContained,
  ProductionHasItsFiles** (`ModelsProofs`). `SplitIsLeakFree` is arithmetic on the
  boundaries, for every number of rows, horizon and pair of fractions. The other three
  hold one another up: the job in flight owns its number and nothing exists yet beyond it
  (`JobIsTracked`, `NothingAhead`), its position says which of files, row and run are
  written (`WhatIsDone`), so a dump never registers what is not yet on disk and the trees,
  archived later, only have more (`ArchiveCovers`) unless a restore runs, which cannot run
  beside a backup (`RestoreIsRecorded`).
* **SignalsAreExplained** (`ModelsProofs`). A signal is written several awaits after its
  parts were read, so `SignalsInv` says of a request on its way what it will write: a
  prediction it carries is stored and about its bar or a later one (`RequestFollows`), and
  what a backup carries is as sound as what it was taken from (`DumpIsBacked`). That an
  average cannot lean where none of its parts does is `AddsBelow`, on the sum over a set as the
  fold defines it, by induction on finite sets written out as a least counterexample; from it
  `FusedTradeIsBacked` follows for all weights.
* **TypeCorrect, DeclaredLimitsHold, RetryBudgetHolds, ClockWithinHalfTrip**
  (`RestClientProofs`), from one invariant in three parts. The limiter (`LimiterOK`): a window
  counts exactly what the requests sent under its rule cost (`WindowsFollow`), a longer
  span counts no less, and what was sent before fitted the rules before; a request leaves only if
  it fits, whoever else woke up with it; the excess of a handover follows (`HandoverCosts`).
  The calls (`CallsOK`): each attempt of a request
  may send itself and one request for the time with all its attempts, so a call at attempt
  n has sent at most n - 1 rounds of that size and what is out (`Budgeted`); frames
  nest no deeper than two because only a signed request is timestamped (`FrameOK`). The clock
  (`ClockOK`): the answer was stamped between leaving and arriving, so the midpoint is off by
  at most half.
* **TasksEndFirst, ReportsAreFresh** (`LifecycleProofs`). The second needs what the check in
  progress has seen: if it has seen nothing but ONLINE, the exchange was reached, the
  scheduler ran, and the stream's last message is no older than the limit plus the time the
  check has taken (`CheckIsSound`), while nothing stops before the check has ended.
* **EventsAreAccountedFor, SlotsFollowConnections** (`StreamProofs`). Per connection
  (`Honest`): what is sent, being sent and queued is one increasing sequence of numbers no
  larger than the last offered, and its length with what was skipped and dropped is
  what was offered. Steps that touch one connection are separated from those that touch
  all (`Publish`).
* Sums. `SumTo` is a recursive function, the sums over sets are the folds of the
  community modules. The lemmas about both (that the recursion has a value, is an
  integer, ignores what lies outside and moves by the difference when one value changes)
  stand at the head of the proofs that need them and are shown by least counterexample.

Every invariant, action property and refinement that a passing run checks is stated by a
theorem; the types of `Models` and `RestClient` are proved and not spent a run on.
Only model-checked is liveness, because the prover does neither fairness nor ENABLED:
`StopEventuallyHonoured`, `JobFinishes`, `JobsEnd`, `CallsEnd`, `LostPeersAreReleased`,
`PageIsServed`, `FeedRecovers`. The two runs that expect a violation show what is false.

## 5. What is left out

Inside the modelled parts: failures of a commit itself, other than the collision of two
inserts in `Ingestion`; what an integrity report says and the results of a job; reporting fields (slippage
cost, excursions, risk-event rows, order rows); liquidity limits, which no caller of
the account or the backtest passes; the open price of a bar; the initial
`portfolio_snapshots` row stands for "none recorded". `engine` is external: no code
of the repository writes `trading.engine_state` after its default.

In `Models`, `pg_restore` is one step although it runs statement by statement without a
transaction, and two operators are not modelled. In `RestClient`, the jitter of a sleep, the
signature and the payloads. In `Stream`, the wording of what is sent and the growing delay
of the page's reconnection. In `Lifecycle`, the random delay of the backoff, Redis beyond
its check, and everything a request does.

Whole parts: see `components` in `PROJECT.json` for each with its reason. The pages of the
frontend, schemas, migrations, settings and logging hold no state of the system; the
indicator, market-structure and model numerics are floating-point formulas outside TLC's
reach; the packages `llm`, `news`, `patterns`, `trading` and `utils` are empty; risk events
are written and never read back by a decision.

## 6. The plan

Done, each with its MC module or cfgs, mutants and map: Fills, PositionSizing, RiskEngine,
Assessment;
Ledger, Sums, PaperAccount; Backtest; Ingestion; TrainingData, SignalFusion, Models;
RestClient; Stream; Lifecycle. All have proofs; SignalFusion's are in `ModelsProofs`.

What would add most from here:

1. What a feature row was computed from, in Ingestion: a stale overwrite by
   `compute_and_store_all` is reachable and not yet stated.
2. The stored record and the metrics of a backtest as functions of the curve and the trades.
3. What keeps a call or a job from running for ever is a number that falls (attempts left,
   pages left). Stated as action properties, those could be proved where liveness cannot.
4. Which row the trigger of a monitor's exit was computed from, kept beside the trade: the one
   hazard of overlapping handlers that no property covers.
