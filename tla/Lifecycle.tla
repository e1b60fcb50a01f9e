----------------------------- MODULE Lifecycle ------------------------------
(***************************************************************************)
(* The backend process from start to stop: the startup checks and the      *)
(* shutdown of lifespan.py, the connection to the exchange                 *)
(* (binance/service.py), the market stream (binance/ws_client.py,          *)
(* workers/market_stream.py), the scheduler's loop (scheduler/service.py)  *)
(* and the health report that describes them (monitoring/health.py).       *)
(*                                                                         *)
(* One action is what one task does between two awaits.  A Tick is one     *)
(* unit of the stale-data protection.                                      *)
(***************************************************************************)
EXTENDS Integers, FiniteSets, FiniteSetsExt

CONSTANTS
  StaleAfter,        \* stale_data_protection_seconds, in ticks
  ProbeTimeout,      \* PROBE_TIMEOUT_SECONDS, in ticks
  FailureThreshold,  \* api_failure_protection_threshold
  StoredModes,       \* what system_settings may hold when the process starts
  LiveEnabled,       \* live_trading_enabled
  MaxOutages, MaxStarts, MaxCalls   \* bounds

ASSUME LifecycleAssumption ==
  /\ StaleAfter \in Nat /\ ProbeTimeout \in Nat /\ FailureThreshold \in Nat \ {0}
  /\ LiveEnabled \in BOOLEAN
  /\ \A stored \in StoredModes : stored.armed \in BOOLEAN
  /\ MaxOutages \in Nat /\ MaxStarts \in Nat /\ MaxCalls \in Nat

VARIABLES
  proc,        \* where lifespan is
  problems,    \* app.state.startup_problems
  stored,      \* system_settings
  mode,        \* app.state.trading_mode
  rest,        \* BinanceService and its REST client
  stream,      \* BinanceStreamClient and its task
  scheduler,   \* SchedulerService and its task
  health,      \* HealthService: the check being made, the last report
  up,          \* the outside: exchange, database, redis
  budget       \* what is left of the bounds

vars == <<proc, problems, stored, mode, rest, stream, scheduler, health, up, budget>>

Never == StaleAfter + ProbeTimeout + 1   \* the age of no message, and the oldest told apart
Outside == {"exchange", "database", "redis"}
NoRest == [connected |-> FALSE, stage |-> "ping", synced |-> FALSE, failures |-> 0]
NoStream ==
  [task |-> "none", stop |-> FALSE, connected |-> FALSE, subscribed |-> FALSE, age |-> Never]
NoScheduler == [task |-> "none", running |-> FALSE, failed |-> FALSE]
NoCheck == [pending |-> {}, seen |-> {}, since |-> 0, overall |-> "none"]

Init ==
  /\ proc = "down" /\ problems = {}
  /\ stored \in [mode : StoredModes, clean : {FALSE}] /\ mode = "UNKNOWN"
  /\ rest = NoRest /\ stream = NoStream /\ scheduler = NoScheduler /\ health = NoCheck
  /\ up = Outside
  /\ budget = [outages |-> MaxOutages, starts |-> MaxStarts, calls |-> MaxCalls]

Goes(from, to) == proc = from /\ proc' = to

-----------------------------------------------------------------------------
(* Starting: _startup_checks, _start_binance, _start_scheduler.            *)

\* load_application_state: LIVE needs the arm flag and the setting.
Restored(saved) ==
  IF saved.mode = "LIVE" /\ ~(saved.armed /\ LiveEnabled) THEN "PAPER" ELSE saved.mode

Start ==
  /\ Goes("down", "database")
  /\ budget.starts > 0 /\ budget' = [budget EXCEPT !.starts = @ - 1]
  /\ problems' = {} /\ mode' = "UNKNOWN"
  /\ rest' = NoRest /\ stream' = NoStream /\ scheduler' = NoScheduler /\ health' = NoCheck
  /\ UNCHANGED <<stored, up>>

\* check_database, record_startup, load_application_state; a failure is noted
\* and the start goes on.
CheckDatabase ==
  /\ Goes("database", "redis")
  /\ IF "database" \in up
     THEN /\ stored' = [stored EXCEPT !.clean = FALSE]
          /\ mode' = Restored(stored.mode)
          /\ UNCHANGED problems
     ELSE problems' = problems \cup {"database"} /\ UNCHANGED <<stored, mode>>
  /\ UNCHANGED <<rest, stream, scheduler, health, up, budget>>

CheckRedis ==
  /\ Goes("redis", "exchange")
  /\ problems' = problems \cup ({"redis"} \ up)
  /\ UNCHANGED <<stored, mode, rest, stream, scheduler, health, up, budget>>

\* connect: ping, server time, exchangeInfo.
Connect ==
  /\ proc = "exchange" /\ "exchange" \in up
  /\ \/ /\ rest.stage = "ping" /\ rest' = [rest EXCEPT !.stage = "time", !.failures = 0]
        /\ UNCHANGED proc
     \/ /\ rest.stage = "time"
        /\ rest' = [rest EXCEPT !.stage = "info", !.synced = TRUE, !.failures = 0]
        /\ UNCHANGED proc
     \/ /\ rest.stage = "info"
        /\ rest' = [rest EXCEPT !.stage = "done", !.connected = TRUE, !.failures = 0]
        /\ proc' = "streams"
  /\ UNCHANGED <<problems, stored, mode, stream, scheduler, health, up, budget>>

\* Nothing tries again: the streams are not started either.
ConnectFails ==
  /\ proc = "exchange" /\ "exchange" \notin up
  /\ proc' = "scheduler"
  /\ problems' = problems \cup {"exchange"}
  /\ rest' = [rest EXCEPT !.failures = @ + 1]
  /\ UNCHANGED <<stored, mode, stream, scheduler, health, up, budget>>

\* start_market_streams, BinanceStreamClient.start.
StartStreams ==
  /\ Goes("streams", "scheduler")
  /\ stream' = [NoStream EXCEPT !.task = "connecting", !.subscribed = TRUE]
  /\ UNCHANGED <<problems, stored, mode, rest, scheduler, health, up, budget>>

\* SchedulerService.start; the probes are registered and requests are served.
StartScheduler ==
  /\ Goes("scheduler", "up")
  /\ scheduler' = [NoScheduler EXCEPT !.task = "ticking", !.running = TRUE]
  /\ UNCHANGED <<problems, stored, mode, rest, stream, health, up, budget>>

-----------------------------------------------------------------------------
(* The stream's task: _run and _consume.                                   *)

Streams(task) == stream.task = task
StreamOnly == UNCHANGED <<proc, problems, stored, mode, rest, scheduler, health, up, budget>>

Accepted ==
  /\ Streams("connecting") /\ "exchange" \in up
  /\ stream' = [stream EXCEPT !.task = "consuming", !.connected = TRUE]
  /\ StreamOnly

\* Mutant: what is not an error of the connection ends the loop.
LostForGood(state) == [state EXCEPT !.task = "done", !.connected = FALSE]

\* However the connection ended, the loop backs off and connects again,
\* unless it was told to stop.
Lost(state) ==
  [state EXCEPT !.task = IF state.stop THEN "done" ELSE "backoff", !.connected = FALSE]

NotAccepted ==
  Streams("connecting") /\ "exchange" \notin up /\ stream' = Lost(stream) /\ StreamOnly
Dropped ==
  Streams("consuming") /\ "exchange" \notin up /\ stream' = Lost(stream) /\ StreamOnly

\* wait_for on the stop event, with a random delay.
BackoffEnds ==
  /\ Streams("backoff")
  /\ stream' = [stream EXCEPT !.task = IF stream.stop THEN "done" ELSE "connecting"]
  /\ StreamOnly

\* What is decoded counts as a message.  Tickers and open candles are dealt
\* with at once, a closed candle is stored before it is published, and an
\* envelope that is not an object breaks the connection.
Frame ==
  /\ Streams("consuming") /\ "exchange" \in up /\ ~stream.stop
  /\ LET seen == [stream EXCEPT !.age = 0]
     IN  stream' \in {seen, [seen EXCEPT !.task = "storing"], Lost(seen)}
  /\ StreamOnly

\* _persist_and_compute_features: whether it succeeds or not, the candle is
\* published and the next frame read.
CandleHandled ==
  /\ Streams("storing")
  /\ stream' = [stream EXCEPT !.task = "consuming"]
  /\ StreamOnly

\* The cancelled task has ended.
StreamEnds ==
  /\ Streams("cancelled")
  /\ stream' = [stream EXCEPT !.task = "done"]
  /\ StreamOnly

-----------------------------------------------------------------------------
(* The scheduler's task, and what the requests being served do.            *)

\* _tick: a pass over the open positions; it needs the database.
TickEnds(failed) ==
  /\ scheduler.task = "ticking"
  /\ "database" \notin up => failed
  /\ scheduler' = [scheduler EXCEPT !.task = "sleeping", !.failed = failed]
  /\ UNCHANGED <<proc, problems, stored, mode, rest, stream, health, up, budget>>

NextTick ==
  /\ scheduler.task = "sleeping"
  /\ scheduler' = [scheduler EXCEPT !.task = IF scheduler.running THEN "ticking" ELSE "done"]
  /\ UNCHANGED <<proc, problems, stored, mode, rest, stream, health, up, budget>>

SchedulerEnds ==
  /\ scheduler.task = "cancelled"
  /\ scheduler' = [scheduler EXCEPT !.task = "done"]
  /\ UNCHANGED <<proc, problems, stored, mode, rest, stream, health, up, budget>>

\* A request asks the exchange: RestClient says what a call does.
ApiCall ==
  /\ proc = "up" /\ budget.calls > 0 /\ budget' = [budget EXCEPT !.calls = @ - 1]
  /\ rest' = [rest EXCEPT !.failures = IF "exchange" \in up THEN 0 ELSE @ + 1]
  /\ UNCHANGED <<proc, problems, stored, mode, stream, scheduler, health, up>>

-----------------------------------------------------------------------------
(* The health report.                                                      *)

\* BinanceService.health
ExchangeHealth ==
  CASE ~rest.connected -> "OFFLINE"
    [] rest.connected /\ rest.failures >= FailureThreshold -> "ERROR"
    [] rest.connected /\ rest.failures < FailureThreshold ->
         IF rest.failures > 0 \/ ~rest.synced THEN "DEGRADED" ELSE "ONLINE"

\* Mutant: a stream that has delivered nothing yet is not stale.
StaleOnceSeen == stream.age # Never /\ stream.age > StaleAfter

\* data_is_stale
DataIsStale == stream.age > StaleAfter

\* market_data_health
MarketDataHealth ==
  IF ~stream.subscribed THEN "OFFLINE"
  ELSE IF ~stream.connected THEN "ERROR"
  ELSE IF DataIsStale THEN "DEGRADED" ELSE "ONLINE"

\* SchedulerService.probe
SchedulerHealth ==
  IF ~scheduler.running THEN "OFFLINE" ELSE IF scheduler.failed THEN "DEGRADED" ELSE "ONLINE"

\* _run_probe: what does not answer raises or runs into the timeout.
Answers(needed) == IF needed \in up THEN {"ONLINE"} ELSE {"ERROR", "DEGRADED"}

\* These await; the model registry's probe fares as the database's does.
AwaitingProbes == {"database", "redis"}

\* HealthReport.overall
Overall(seen) ==
  CASE "ERROR" \in seen -> "ERROR"
    [] "ERROR" \notin seen /\ "OFFLINE" \in seen -> "OFFLINE"
    [] seen \cap {"ERROR", "OFFLINE"} = {} /\ "DEGRADED" \in seen -> "DEGRADED"
    [] seen \cap {"ERROR", "OFFLINE", "DEGRADED"} = {} -> "ONLINE"

\* The probes run side by side: those that await nothing at once.
CheckHealth ==
  /\ proc = "up" /\ health.pending = {}
  /\ budget.calls > 0 /\ budget' = [budget EXCEPT !.calls = @ - 1]
  /\ health' = [NoCheck EXCEPT !.pending = AwaitingProbes,
                              !.seen = {ExchangeHealth, MarketDataHealth, SchedulerHealth}]
  /\ UNCHANGED <<proc, problems, stored, mode, rest, stream, scheduler, up>>

\* The last to answer makes the report.
Probe(probe) ==
  /\ probe \in health.pending
  /\ \E status \in Answers(probe) :
       LET pending == health.pending \ {probe}
           seen == health.seen \cup {status}
       IN  health' = IF pending = {} THEN [NoCheck EXCEPT !.overall = Overall(seen)]
                     ELSE [health EXCEPT !.pending = pending, !.seen = seen]
  /\ UNCHANGED <<proc, problems, stored, mode, rest, stream, scheduler, up, budget>>

-----------------------------------------------------------------------------
(* Stopping: the finally of lifespan.                                      *)

Cancelled(task) == IF task \in {"none", "done"} THEN task ELSE "cancelled"

\* The requests in flight are answered first.
Stop ==
  /\ Goes("up", "stopping") /\ health.pending = {}
  /\ scheduler' = [scheduler EXCEPT !.running = FALSE, !.task = Cancelled(@)]
  /\ UNCHANGED <<problems, stored, mode, rest, stream, health, up, budget>>

SchedulerStopped ==
  /\ Goes("stopping", "recording") /\ scheduler.task \in {"none", "done"}
  /\ scheduler' = [scheduler EXCEPT !.task = "none"]
  /\ UNCHANGED <<problems, stored, mode, rest, stream, health, up, budget>>

\* record_shutdown
RecordShutdown ==
  /\ Goes("recording", "closing")
  /\ stored' = IF "database" \in up THEN [stored EXCEPT !.clean = TRUE] ELSE stored
  /\ stream' = [stream EXCEPT !.stop = TRUE, !.task = Cancelled(@)]
  /\ UNCHANGED <<problems, mode, rest, scheduler, health, up, budget>>

\* Mutant: the cancelled task is not awaited.
CloseAtOnce ==
  /\ Goes("closing", "disposing")
  /\ stream' = [stream EXCEPT !.connected = FALSE]
  /\ rest' = [rest EXCEPT !.connected = FALSE]
  /\ UNCHANGED <<problems, stored, mode, scheduler, health, up, budget>>

\* BinanceService.close: the stream's task has been awaited.
CloseExchange ==
  /\ Goes("closing", "disposing") /\ stream.task \in {"none", "done"}
  /\ stream' = [stream EXCEPT !.task = "none", !.connected = FALSE]
  /\ rest' = [rest EXCEPT !.connected = FALSE]
  /\ UNCHANGED <<problems, stored, mode, scheduler, health, up, budget>>

\* close_redis, dispose_engine
Dispose ==
  /\ Goes("disposing", "down")
  /\ UNCHANGED <<problems, stored, mode, rest, stream, scheduler, health, up, budget>>

\* The process is killed.
Crash ==
  /\ proc # "down" /\ proc' = "down"
  /\ stream' = NoStream /\ scheduler' = NoScheduler /\ health' = NoCheck /\ rest' = NoRest
  /\ UNCHANGED <<problems, stored, mode, up, budget>>

-----------------------------------------------------------------------------
(* The outside, and time.                                                  *)

Outage(x) ==
  /\ x \in up /\ up' = up \ {x}
  /\ budget.outages > 0 /\ budget' = [budget EXCEPT !.outages = @ - 1]
  /\ UNCHANGED <<proc, problems, stored, mode, rest, stream, scheduler, health>>

Recovery(x) ==
  /\ x \in Outside \ up /\ up' = up \cup {x}
  /\ UNCHANGED <<proc, problems, stored, mode, rest, stream, scheduler, health, budget>>

\* A check takes no longer than its timeout.
Tick ==
  /\ health.pending # {} => health.since < ProbeTimeout
  /\ stream' = [stream EXCEPT !.age = Min({@ + 1, Never})]
  /\ health' = [health EXCEPT !.since = IF health.pending = {} THEN 0 ELSE @ + 1]
  /\ UNCHANGED <<proc, problems, stored, mode, rest, scheduler, up, budget>>

-----------------------------------------------------------------------------
Startup ==
  \/ CheckDatabase \/ CheckRedis \/ Connect \/ ConnectFails \/ StartStreams \/ StartScheduler

StreamTask ==
  Accepted \/ NotAccepted \/ Dropped \/ BackoffEnds \/ CandleHandled \/ StreamEnds

SchedulerTask == (\E failed \in BOOLEAN : TickEnds(failed)) \/ NextTick \/ SchedulerEnds

Shutdown == SchedulerStopped \/ RecordShutdown \/ CloseExchange \/ Dispose

Next ==
  \/ Start \/ Startup \/ StreamTask \/ Frame \/ SchedulerTask
  \/ ApiCall \/ CheckHealth \/ (\E probe \in AwaitingProbes : Probe(probe))
  \/ Stop \/ Shutdown \/ Crash \/ Tick
  \/ \E x \in Outside : Outage(x) \/ Recovery(x)

Spec == Init /\ [][Next]_vars

\* The event loop runs what is ready, and an outage ends.
Fairness ==
  /\ WF_vars(Startup) /\ WF_vars(Shutdown)
  /\ WF_vars(StreamTask) /\ WF_vars(SchedulerTask)
  /\ \A x \in Outside : WF_vars(Recovery(x))

FairSpec == Spec /\ Fairness

-----------------------------------------------------------------------------
(* Properties.                                                             *)

\* No pass over the positions runs once the shutdown is recorded, and no
\* candle is being stored once the database is disposed of, wherever the
\* tasks were when they were cancelled (lifespan, SchedulerService.stop,
\* BinanceStreamClient.stop).
ShutdownIsOrderly ==
  /\ proc \in {"recording", "closing", "disposing", "down"} => scheduler.task = "none"
  /\ proc \in {"disposing", "down"} => stream.task = "none" /\ ~stream.connected

Reported(overall) ==
  health.pending # {} /\ health'.pending = {} /\ health'.overall = overall

\* A report that says ONLINE is about a backend that reached the exchange and
\* whose data is at most a probe's timeout older than the protection allows,
\* though its probes look at different moments (HealthService.check).
HealthyIsFresh ==
  [][Reported("ONLINE") =>
       /\ rest.connected /\ scheduler.running
       /\ stream.subscribed /\ stream.age <= StaleAfter + ProbeTimeout]_vars

\* Once started, the stream comes back after every interruption, and neither
\* a start nor a stop hangs (_run, lifespan).
FeedRecovers ==
  /\ proc = "up" /\ stream.subscribed ~> stream.connected \/ proc # "up"
  /\ proc \notin {"down", "up"} ~> proc \in {"down", "up"}
=============================================================================
