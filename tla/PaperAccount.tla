---------------------------- MODULE PaperAccount ----------------------------
(***************************************************************************)
(* The persistent paper account (paper_trading/account.py over             *)
(* simulator.py and portfolio.py): requests that open and close positions  *)
(* and the scheduler's monitor share the tables paper_positions, trades    *)
(* and portfolio_snapshots.                                                *)
(*                                                                         *)
(* Every handler is a coroutine.  It gives way to the others at every      *)
(* awaited statement and at the ticker, so one action here is what runs    *)
(* between two awaits: a SELECT, or the ticker's answer with the           *)
(* computation and the commit that follow it.  The database runs READ      *)
(* COMMITTED: a SELECT sees what is committed when it runs, and a handler  *)
(* commits once, at its end.  What a handler has read is kept in proc.     *)
(***************************************************************************)
EXTENDS RiskEngine, Sums, Sequences, FiniteSetsExt, TLC

CONSTANTS
  Symbols, Prices,       \* the market: symbols and their ticker prices
  Plans,                 \* what a request may ask: [stop, target, trail]
  Clients, Monitor,      \* the API requests in flight, the scheduler's tick
  InitialBalance,        \* paper_trading.initial_balance
  MetadataStates,        \* what the fetch at startup may leave cached
  EngineStates,          \* the values system_settings gives trading.engine_state
  DayLength,             \* clock units in a day
  FiltersOf,             \* the exchange's filters of each symbol
  MaxPositions, MaxQuantity, MaxTime   \* bounds: rows, grains of one row, clock

ASSUME AccountAssumption ==
  /\ Prices \subseteq Nat \ {0}
  /\ Plans \subseteq [stop : Int, target : OptInt, trail : OptInt]
  /\ Monitor \notin Clients
  /\ InitialBalance \in Nat \ {0}
  /\ DayLength \in Nat \ {0}
  /\ MetadataStates \subseteq BOOLEAN
  /\ FiltersOf \in [Symbols -> FilterType]
  /\ MaxPositions \in Nat /\ MaxQuantity \in Nat /\ MaxTime \in Nat

VARIABLES
  positions,     \* paper_positions: a row per entry, its index is its id
  trades,        \* trades, in the order of exit_time
  snapshot,      \* the latest row of portfolio_snapshots
  peak,          \* the largest equity in portfolio_snapshots, 0 if none
  proc,          \* what each handler in flight has read
  tick,          \* the monitor's loop over the rows it loaded
  price,         \* the exchange's ticker
  metadata,      \* is exchange metadata cached in this process
  engine,        \* the persisted engine state
  now            \* the clock

ledger == <<positions, trades, snapshot, peak>>
world == <<price, metadata, engine, now>>
vars == <<ledger, proc, tick, world>>

Procs == Clients \cup {Monitor}

EmptyMap == [x \in {} |-> 0]
With(map, x, value) ==
  [y \in DOMAIN map \cup {x} |-> IF y = x THEN value ELSE map[y]]

NoView == [trades |-> 0, rows |-> EmptyMap, peak |-> 0]
NoPlan == [stop |-> 0, target |-> NoPrice, trail |-> NoPrice]

\* A coroutine that is not running.
Idle == [pc |-> "idle", symbol |-> NoPrice, plan |-> NoPlan, row |-> 0,
         ref |-> NoPrice, view |-> NoView]

NoTick == [pc |-> "idle", rows |-> EmptyMap, pending |-> EmptyMap,
           prices |-> EmptyMap]

Init ==
  /\ positions = <<>>
  /\ trades = <<>>
  /\ snapshot = [balance |-> InitialBalance, equity |-> InitialBalance, open |-> 0]
  /\ peak = 0
  /\ proc = [p \in Procs |-> Idle]
  /\ tick = NoTick
  /\ price \in [Symbols -> Prices]
  /\ metadata \in MetadataStates
  /\ engine \in EngineStates
  /\ now = 0

-----------------------------------------------------------------------------
(* The portfolio a handler rebuilds from what it read.                     *)

OpenIds == {id \in DOMAIN positions : positions[id].status = "OPEN"}
OpenIn(symbol) == {id \in OpenIds : positions[id].symbol = symbol}

Cost(row) == row.quantity * row.entry * D + row.fees

\* Mutant: the last trade is not counted yet.
StreakBeforeLast(n) ==
  n - Max({0, 1} \cup {i \in 1..n : trades[i].net > 0})

\* A win is net of fees; anything else extends the streak.
Streak(n) == n - Max({0} \cup {i \in 1..n : trades[i].net > 0})

LastExit(symbol, n) ==
  LET exits == {trades[i].time : i \in {j \in 1..n : trades[j].symbol = symbol}}
  IN  IF exits = {} THEN NoPrice ELSE Max(exits)

\* Sums over the ledger: realised results, what the open rows have cost.
Realised(n) == SumTo([i \in DOMAIN trades |-> trades[i].net], n)

\* The sum of an amount over the rows it is given for.
SumRows(amount) ==
  SumTo([id \in DOMAIN positions |->
           IF id \in DOMAIN amount THEN amount[id] ELSE 0], Len(positions))

OpenCost(rows) == SumRows([id \in DOMAIN rows |-> Cost(rows[id])])

\* The dictionary of positions: one row per symbol, the last one the query
\* returned (it has no ORDER BY) when a symbol has several.
HeldChoices(rows) ==
  {held \in SUBSET DOMAIN rows :
     \A id \in DOMAIN rows :
       \E k \in held : {h \in held : rows[h].symbol = rows[id].symbol} = {k}}

\* load_portfolio, from the rows of the three SELECTs.
Portfolio(view) ==
  LET realised == Realised(view.trades)
  IN  [balance  |-> InitialBalance + realised - OpenCost(view.rows),
       realised |-> realised,
       peak     |-> Max({InitialBalance, InitialBalance + realised, view.peak})]

\* A position without a price is marked at its entry.
MarkOf(row, prices) ==
  IF row.symbol \in DOMAIN prices THEN prices[row.symbol] * D ELSE row.entry

MarketValue(row, prices) == row.quantity * MarkOf(row, prices) * D

Value(rows, held, prices) ==
  SumRows([id \in held |-> MarketValue(rows[id], prices)])

Unrealised(rows, held, prices) ==
  SumRows([id \in held |-> MarketValue(rows[id], prices) - Cost(rows[id])])

Exposure(rows, held, prices) ==
  [s \in {rows[id].symbol : id \in held} |->
     MarketValue(rows[CHOOSE id \in held : rows[id].symbol = s], prices)]

\* account_state: realised_pnl_today is the whole realised P&L of the ledger.
AccountState(view, held, prices) ==
  LET pf == Portfolio(view)
  IN  [equity     |-> pf.balance + Value(view.rows, held, prices),
       available  |-> pf.balance,
       peak       |-> pf.peak,
       realised   |-> pf.realised,
       unrealised |-> Unrealised(view.rows, held, prices),
       streak     |-> Streak(view.trades),
       open       |-> Cardinality(held),
       exposure   |-> Exposure(view.rows, held, prices)]

Filters(symbol) == IF metadata THEN FiltersOf[symbol] ELSE NoFilters

\* _record_snapshot
RecordSnapshot(balance, value, open) ==
  /\ snapshot' = [balance |-> balance, equity |-> balance + value, open |-> open]
  /\ peak' = Max({peak, balance + value})

Reply(p) == proc' = [proc EXCEPT ![p] = Idle]
Await(p, next) == proc' = [proc EXCEPT ![p] = next]

\* The three SELECTs of load_portfolio.
SelectTrades(p, pc) ==
  Await(p, [proc[p] EXCEPT !.pc = pc, !.view.trades = Len(trades)])
OpenRows == [id \in OpenIds |-> positions[id]]
SelectRows(p, pc) ==
  Await(p, [proc[p] EXCEPT !.pc = pc, !.view.rows = OpenRows])
SelectPeak(p, pc) ==
  Await(p, [proc[p] EXCEPT !.pc = pc, !.view.peak = peak])

-----------------------------------------------------------------------------
(* open_paper_trade                                                        *)

RequestOpen(c) ==
  /\ proc[c].pc = "idle"
  /\ \E s \in Symbols, plan \in Plans :
       Await(c, [Idle EXCEPT !.pc = "openRows", !.symbol = s, !.plan = plan,
                             !.view.trades = Len(trades)])
  /\ UNCHANGED <<ledger, tick, world>>

OpenSelectRows(c) ==
  /\ proc[c].pc = "openRows"
  /\ SelectRows(c, "openPeak")
  /\ UNCHANGED <<ledger, tick, world>>

\* Mutant: the symbol is not looked up among the open rows.
OpenSelectPeakUnchecked(c) ==
  /\ proc[c].pc = "openPeak"
  /\ SelectPeak(c, "openFill")
  /\ UNCHANGED <<ledger, tick, world>>

\* A symbol that is already held is refused before the ticker is asked.
OpenSelectPeak(c) ==
  /\ proc[c].pc = "openPeak"
  /\ IF \E id \in DOMAIN proc[c].view.rows :
          proc[c].view.rows[id].symbol = proc[c].symbol
     THEN Reply(c)
     ELSE SelectPeak(c, "openFill")
  /\ UNCHANGED <<ledger, tick, world>>

\* What the risk engine is asked: the other positions are marked at entry, and
\* the system is assumed healthy.
EntryVerdict(p, held) ==
  LET r    == proc[p]
      ref  == price[r.symbol]
      exit == LastExit(r.symbol, r.view.trades)
  IN  Evaluate([symbol |-> r.symbol, entry |-> ref, stop |-> r.plan.stop,
                filters |-> Filters(r.symbol), spread |-> NoPrice,
                atr |-> NoPrice, slippage |-> NoPrice,
                sinceExit |-> IF exit = NoPrice THEN NoPrice ELSE now - exit],
               AccountState(r.view, held, EmptyMap),
               HealthySystem)

EntryFill(p, verdict) ==
  SimulateFill(verdict.quantity, price[proc[p].symbol], "BUY", NoPrice,
               Filters(proc[p].symbol).step)

NewRow(p, fill) ==
  [symbol |-> proc[p].symbol, status |-> "OPEN",
   quantity |-> fill.quantity, entry |-> fill.price,
   stop |-> proc[p].plan.stop, target |-> proc[p].plan.target,
   trail |-> proc[p].plan.trail, fees |-> fill.fee]

\* The entry is committed only when approved, filled and paid for by the
\* balance the handler computed.
Fills(p, held) ==
  LET verdict == EntryVerdict(p, held)
      fill    == EntryFill(p, verdict)
  IN  /\ verdict.decision = "APPROVED"
      /\ fill.quantity > 0
      /\ Cost(NewRow(p, fill)) <= Portfolio(proc[p].view).balance

OpenFill(c) ==
  /\ proc[c].pc = "openFill"
  /\ \E held \in HeldChoices(proc[c].view.rows) :
       LET r    == proc[c]
           fill == EntryFill(c, EntryVerdict(c, held))
           row  == NewRow(c, fill)
       IN  /\ Fills(c, held)
           /\ fill.quantity \in 1..MaxQuantity
           /\ Len(positions) < MaxPositions
           /\ positions' = Append(positions, row)
           /\ RecordSnapshot(Portfolio(r.view).balance - Cost(row),
                             Value(r.view.rows, held, EmptyMap)
                               + row.quantity * price[r.symbol] * Unit,
                             Cardinality(held) + 1)
  /\ Reply(c)
  /\ UNCHANGED <<trades, tick, world>>

\* Refused by the risk engine (a risk event is recorded), by the fill or by
\* the balance: nothing is written to the account.
OpenRefused(c) ==
  /\ proc[c].pc = "openFill"
  /\ \E held \in HeldChoices(proc[c].view.rows) : ~Fills(c, held)
  /\ Reply(c)
  /\ UNCHANGED <<ledger, tick, world>>

-----------------------------------------------------------------------------
(* close_paper_trade, called by a request (ref = NoPrice: it asks the      *)
(* ticker) or by the monitor (ref: the trigger price).                     *)

\* scalar_one_or_none: no row is a ValidationError, several rows an error the
\* caller does not expect; neither changes the state of a request.
CloseSelectRow(p, symbol, ref) ==
  \E id \in OpenIn(symbol) :
    /\ OpenIn(symbol) = {id}
    /\ Await(p, [Idle EXCEPT !.pc = "closeTrades", !.symbol = symbol,
                             !.row = id, !.ref = ref])

RequestClose(c) ==
  /\ proc[c].pc = "idle"
  /\ \E s \in Symbols : CloseSelectRow(c, s, NoPrice)
  /\ UNCHANGED <<ledger, tick, world>>

CloseSelectTrades(p) ==
  /\ proc[p].pc = "closeTrades"
  /\ SelectTrades(p, "closeRows")
  /\ UNCHANGED <<ledger, tick, world>>

CloseSelectRows(p) ==
  /\ proc[p].pc = "closeRows"
  /\ SelectRows(p, "closePeak")
  /\ UNCHANGED <<ledger, tick, world>>

CloseSelectPeak(p) ==
  /\ proc[p].pc = "closePeak"
  /\ SelectPeak(p, "closeFill")
  /\ UNCHANGED <<ledger, tick, world>>

ExitFill(p, row) ==
  SimulateFill(row.quantity,
               IF proc[p].ref # NoPrice THEN proc[p].ref ELSE price[proc[p].symbol],
               "SELL", NoPrice, Filters(proc[p].symbol).step)

\* Mutant: the fee paid on entry is forgotten in the net result.
ExitTradeEntryFeeForgotten(p, row, fill) ==
  [position |-> proc[p].row, symbol |-> row.symbol, quantity |-> row.quantity,
   entry |-> row.entry, fees |-> fill.fee, time |-> now,
   net |-> (fill.price - row.entry) * row.quantity * D - fill.fee]

\* Mutant: the trade is recorded for the row before.
ExitTradeOfRowBefore(p, row, fill) ==
  [position |-> proc[p].row - 1, symbol |-> row.symbol, quantity |-> row.quantity,
   entry |-> row.entry, fees |-> row.fees + fill.fee, time |-> now,
   net |-> (fill.price - row.entry) * row.quantity * D - row.fees - fill.fee]

\* The position leaves the portfolio whole, whatever the fill was rounded to.
ExitTrade(p, row, fill) ==
  LET fees == row.fees + fill.fee
  IN  [position |-> proc[p].row, symbol |-> row.symbol, quantity |-> row.quantity,
       entry |-> row.entry, fees |-> fees, time |-> now,
       net |-> (fill.price - row.entry) * row.quantity * D - fees]

\* Mutant: the whole row is written back as it was loaded.
FlushedWhole(p) ==
  [id \in DOMAIN positions |->
     IF p = Monitor /\ id \in DOMAIN tick.pending
     THEN [positions[id] EXCEPT !.stop = tick.pending[id], !.status = "OPEN"]
     ELSE positions[id]]

\* The trailing stops a monitor has set are flushed by its next commit.
Flushed(p) ==
  [id \in DOMAIN positions |->
     IF p = Monitor /\ id \in DOMAIN tick.pending
     THEN [positions[id] EXCEPT !.stop = tick.pending[id]] ELSE positions[id]]

ClosedRow(p, trade) ==
  [Flushed(p) EXCEPT ![proc[p].row].status = "CLOSED",
                     ![proc[p].row].fees = trade.fees]

CloseFill(p) ==
  /\ proc[p].pc = "closeFill"
  /\ \E held \in HeldChoices(proc[p].view.rows) : \E id \in held :
       LET view  == proc[p].view
           row   == view.rows[id]
           fill  == ExitFill(p, row)
           trade == ExitTrade(p, row, fill)
       IN  /\ row.symbol = proc[p].symbol
           /\ fill.quantity > 0
           /\ positions' = ClosedRow(p, trade)
           /\ trades' = Append(trades, trade)
           /\ RecordSnapshot(Portfolio(view).balance
                               + row.quantity * fill.price * D - fill.fee,
                             Value(view.rows, held \ {id}, EmptyMap),
                             Cardinality(held) - 1)
  /\ Reply(p)
  /\ tick' = IF p = Monitor THEN [tick EXCEPT !.pending = EmptyMap] ELSE tick
  /\ UNCHANGED world

\* ValidationError: the symbol is no longer held, or the fill rounds to zero.
CloseRefused(p) ==
  /\ proc[p].pc = "closeFill"
  /\ \E held \in HeldChoices(proc[p].view.rows) :
       \A id \in held :
         LET row == proc[p].view.rows[id]
         IN  row.symbol = proc[p].symbol => ExitFill(p, row).quantity = 0
  /\ Reply(p)
  /\ UNCHANGED <<ledger, tick, world>>

\* The ticker a request is waiting for fails: 503, nothing written.
RequestFails(c) ==
  /\ \/ proc[c].pc = "openFill"
     \/ proc[c].pc = "closeFill" /\ proc[c].ref = NoPrice
  /\ Reply(c)
  /\ UNCHANGED <<ledger, tick, world>>

-----------------------------------------------------------------------------
(* monitor_open_positions, run by the scheduler.                           *)

MonitorRuns == tick.pc = "checking" /\ proc[Monitor].pc = "idle"

MonitorLoad ==
  /\ tick.pc = "idle"
  /\ OpenIds # {}
  /\ tick' = [NoTick EXCEPT !.pc = "checking",
                            !.rows = [id \in OpenIds |-> positions[id].stop]]
  /\ UNCHANGED <<ledger, proc, world>>

\* The row has been seen: its symbol's price goes to the tick's prices.
Checked(id, prices, pending) ==
  tick' = [tick EXCEPT !.rows = Restrict(tick.rows, DOMAIN tick.rows \ {id}),
                       !.prices = prices, !.pending = pending]

PricesWith(symbol) == With(tick.prices, symbol, price[symbol])

Trigger(id) ==
  ExitReason(price[positions[id].symbol], price[positions[id].symbol],
             tick.rows[id], positions[id].target)

\* Mutant: the stop follows the price down as well.
WithMovedStop(id) ==
  IF positions[id].trail = NoPrice THEN tick.pending
  ELSE With(tick.pending, id, price[positions[id].symbol] - positions[id].trail)

\* The trailing stops to write: a stop is only ever raised.
WithRaisedStop(id) ==
  LET stop    == tick.rows[id]
      newStop == UpdateTrailingStop(stop, price[positions[id].symbol],
                                    positions[id].trail)
  IN  IF newStop # NoPrice /\ (stop = NoPrice \/ newStop > stop)
      THEN With(tick.pending, id, newStop) ELSE tick.pending

\* A row that has not hit its stop or target has its trailing stop raised.
MonitorTrail(id) ==
  /\ MonitorRuns /\ id \in DOMAIN tick.rows
  /\ Trigger(id) = "NONE"
  /\ Checked(id, PricesWith(positions[id].symbol), WithRaisedStop(id))
  /\ UNCHANGED <<ledger, proc, world>>

\* An exit closes whatever row of the symbol is open now, at the stop or target
\* of the row that was loaded; no open row is a ValidationError it skips.
MonitorExit(id) ==
  LET row    == positions[id]
      reason == Trigger(id)
      at     == IF reason = "STOP_LOSS" THEN tick.rows[id] ELSE row.target
  IN  /\ MonitorRuns /\ id \in DOMAIN tick.rows
      /\ reason # "NONE"
      /\ \/ CloseSelectRow(Monitor, row.symbol, at)
         \/ OpenIn(row.symbol) = {} /\ UNCHANGED proc
      /\ Checked(id, PricesWith(row.symbol), tick.pending)
      /\ UNCHANGED <<ledger, world>>

\* Several open rows of the symbol: MultipleResultsFound ends the whole tick,
\* and the session rolls back the trailing stops not yet committed.
MonitorAborts(id) ==
  /\ MonitorRuns /\ id \in DOMAIN tick.rows
  /\ Trigger(id) # "NONE"
  /\ Cardinality(OpenIn(positions[id].symbol)) > 1
  /\ tick' = NoTick
  /\ UNCHANGED <<ledger, proc, world>>

MonitorTickerFails(id) ==
  /\ MonitorRuns /\ id \in DOMAIN tick.rows
  /\ Checked(id, tick.prices, tick.pending)
  /\ UNCHANGED <<ledger, proc, world>>

\* The commit after the loop; without a price there is nothing to mark.
MonitorCommit ==
  /\ MonitorRuns /\ DOMAIN tick.rows = {}
  /\ positions' = Flushed(Monitor)
  /\ tick' = IF DOMAIN tick.prices = {} THEN NoTick
             ELSE [tick EXCEPT !.pc = "marking", !.pending = EmptyMap]
  /\ UNCHANGED <<trades, snapshot, peak, proc, world>>

MonitorSelectTrades ==
  /\ tick.pc = "marking" /\ proc[Monitor].pc = "idle"
  /\ SelectTrades(Monitor, "markRows")
  /\ UNCHANGED <<ledger, tick, world>>

MonitorSelectRows ==
  /\ proc[Monitor].pc = "markRows"
  /\ SelectRows(Monitor, "markPeak")
  /\ UNCHANGED <<ledger, tick, world>>

\* Marks the account to market and records the snapshot.
MonitorMark ==
  /\ proc[Monitor].pc = "markPeak"
  /\ \E held \in HeldChoices(proc[Monitor].view.rows) :
       LET view == proc[Monitor].view
       IN  RecordSnapshot(Portfolio(view).balance,
                          Value(view.rows, held, tick.prices), Cardinality(held))
  /\ tick' = NoTick
  /\ Reply(Monitor)
  /\ UNCHANGED <<positions, trades, world>>

-----------------------------------------------------------------------------
(* The surroundings: the market, the clock, and a restart of the process.  *)

MarketMoves ==
  /\ \E s \in Symbols, p \in Prices : price' = [price EXCEPT ![s] = p]
  /\ UNCHANGED <<ledger, proc, tick, metadata, engine, now>>

TimePasses ==
  /\ now < MaxTime
  /\ now' = now + 1
  /\ UNCHANGED <<ledger, proc, tick, price, metadata, engine>>

\* The row trading.engine_state of system_settings is written from outside.
EngineStateSet ==
  /\ engine' \in EngineStates
  /\ UNCHANGED <<ledger, proc, tick, price, metadata, now>>

\* Nothing uncommitted survives; the metadata is fetched once, at startup.
Restart ==
  /\ proc' = [p \in Procs |-> Idle]
  /\ tick' = NoTick
  /\ metadata' \in MetadataStates
  /\ UNCHANGED <<ledger, price, engine, now>>

Opens(c) == RequestOpen(c) \/ OpenSelectRows(c) \/ OpenSelectPeak(c)
              \/ OpenFill(c) \/ OpenRefused(c)
Closes(p) == CloseSelectTrades(p) \/ CloseSelectRows(p) \/ CloseSelectPeak(p)
               \/ CloseFill(p) \/ CloseRefused(p)

Checks(id) == MonitorTrail(id) \/ MonitorExit(id) \/ MonitorAborts(id)
                \/ MonitorTickerFails(id)

Next ==
  \/ \E c \in Clients : Opens(c) \/ RequestClose(c) \/ RequestFails(c)
  \/ \E p \in Procs : Closes(p)
  \/ MonitorLoad
  \/ \E id \in DOMAIN tick.rows : Checks(id)
  \/ MonitorCommit \/ MonitorSelectTrades \/ MonitorSelectRows \/ MonitorMark
  \/ MarketMoves \/ TimePasses \/ EngineStateSet \/ Restart

Spec == Init /\ [][Next]_vars

-----------------------------------------------------------------------------
(* Handlers that do not overlap: one request, or one tick, at a time.      *)

Alone(p) ==
  /\ \A q \in Procs \ {p} : proc[q].pc = "idle"
  /\ p = Monitor \/ tick.pc = "idle"

SerialStep ==
  /\ \A p \in Procs : proc'[p] # proc[p] => Alone(p) \/ proc'[p] = Idle
  /\ tick' # tick => Alone(Monitor) \/ tick' = NoTick

SerialNext == Next /\ SerialStep
SerialSpec == Init /\ [][SerialNext]_vars

-----------------------------------------------------------------------------
(* Handlers that overlap, but commit only what is still true: what a check  *)
(* at the commit, which the code does not make, would have to establish.    *)

Current(r) ==
  /\ r.pc \in {"openFill", "closeFill", "markPeak"} =>
       r.view.trades = Len(trades) /\ r.view.rows = OpenRows
  /\ r.pc = "openFill" => r.view.peak = peak
  /\ r.pc = "closeFill" => r.row \in OpenIds /\ positions[r.row].symbol = r.symbol

ValidatedStep ==
  ledger' # ledger => \A p \in Procs : proc'[p] # proc[p] => Current(proc[p])

ValidatedNext == Next /\ ValidatedStep
ValidatedSpec == Init /\ [][ValidatedNext]_vars

-----------------------------------------------------------------------------
(* Properties.                                                             *)

RowType == [symbol : Symbols, status : {"OPEN", "CLOSED"},
            quantity : 1..MaxQuantity, entry : Int, stop : OptInt,
            target : OptInt, trail : OptInt, fees : Int]
TradeType == [position : Nat, symbol : Symbols, quantity : 1..MaxQuantity,
              entry : Int, fees : Int, time : Nat, net : Int]

PcType == {"idle", "openRows", "openPeak", "openFill",
           "closeTrades", "closeRows", "closePeak", "closeFill",
           "markRows", "markPeak"}

\* f gives some of the rows in ids a value of S.
OnRows(f, S, ids) == DOMAIN f \subseteq ids /\ f \in [DOMAIN f -> S]

\* With the rows in ids and n trades in the tables.
RequestOK(r, ids, n) ==
  /\ DOMAIN r = DOMAIN Idle
  /\ r.pc \in PcType
  /\ r.symbol \in Symbols \cup {NoPrice}
  /\ r.pc \notin {"idle", "markRows", "markPeak"} => r.symbol \in Symbols
  /\ r.plan \in Plans \cup {NoPlan}
  /\ r.row \in Nat
  /\ r.pc \in {"closeTrades", "closeRows", "closePeak", "closeFill"} => r.row \in ids
  /\ r.ref \in OptInt
  /\ DOMAIN r.view = DOMAIN NoView
  /\ r.view.trades \in 0..n
  /\ OnRows(r.view.rows, RowType, ids)
  /\ r.view.peak \in Int

TickOK(t, ids) ==
  /\ DOMAIN t = DOMAIN NoTick
  /\ t.pc \in {"idle", "checking", "marking"}
  /\ OnRows(t.rows, OptInt, ids)
  /\ OnRows(t.pending, Int, ids)
  /\ DOMAIN t.prices \subseteq Symbols
  /\ t.prices \in [DOMAIN t.prices -> Prices]

\* Every variable has its type, and a close works on a row there is.
TypeOK ==
  /\ positions \in Seq(RowType)
  /\ trades \in Seq(TradeType)
  /\ \A i \in DOMAIN trades : trades[i].position \in DOMAIN positions
  /\ snapshot \in [balance : Int, equity : Int, open : Int]
  /\ peak \in Int
  /\ DOMAIN proc = Procs
  /\ \A p \in Procs : RequestOK(proc[p], DOMAIN positions, Len(trades))
  /\ TickOK(tick, DOMAIN positions)
  /\ price \in [Symbols -> Prices]
  /\ metadata \in BOOLEAN
  /\ engine \in EngineStates
  /\ now \in 0..MaxTime

TradesOf(id) == {i \in DOMAIN trades : trades[i].position = id}

\* A row is CLOSED exactly when the ledger holds a trade for it, whatever
\* handlers overlap: the derived balance counts each entry as a cost or as a
\* realised result, never as neither (load_portfolio adds up both tables).
ClosedIffTraded ==
  \A id \in DOMAIN positions :
    positions[id].status = "CLOSED" <=> TradesOf(id) # {}

\* A protective stop is never lowered, although the monitor writes stops it
\* computed from rows it loaded before other handlers committed.
StopNeverLowered ==
  [][\A id \in DOMAIN positions :
       positions[id].stop # NoPrice =>
         /\ positions'[id].stop # NoPrice
         /\ positions'[id].stop >= positions[id].stop]_vars

\* What StopNeverLowered rests on: a row the tick has still to check has the
\* stop the tick loaded, and a stop it is about to write is no lower than the
\* row's.
TickFollowsRows ==
  /\ \A id \in DOMAIN tick.rows : tick.rows[id] = positions[id].stop
  /\ DOMAIN tick.rows \cap DOMAIN tick.pending = {}
  /\ \A id \in DOMAIN tick.pending :
       positions[id].stop # NoPrice => tick.pending[id] >= positions[id].stop

\* A symbol has at most one open row, what close_paper_trade relies on
\* (scalar_one_or_none) and open_paper_trade refuses to break.
OneOpenPerSymbol == \A s \in Symbols : Cardinality(OpenIn(s)) <= 1

\* Never more open positions than max_simultaneous_positions.
WithinMaxPositions == Cardinality(OpenIds) <= MaxSimultaneousPositions

\* The account is a ledger: the balance the handlers compute and record with
\* every commit (Portfolio's own cash) moves by exactly the cost of each row
\* that opens and, once per row, by its cost and the net result of its trade.
AsLedger == INSTANCE Ledger WITH
  Initial <- InitialBalance,
  Ids     <- 1..MaxPositions,
  cash    <- snapshot.balance,
  held    <- [id \in OpenIds |-> Cost(positions[id])],
  result  <- [id \in DOMAIN positions \ OpenIds |->
                SumFunctionOnSet([i \in DOMAIN trades |-> trades[i].net],
                                 TradesOf(id))]

ImplementsLedger == AsLedger!Spec

Entered == Len(positions') > Len(positions)

\* The halts and the cooldown are judged on the ledger as it is when the entry
\* commits: no entry follows a full losing streak, a drawdown or a recent exit
\* that the tables already show.
EntryRespectsLedger ==
  [][Entered =>
       LET n      == Len(trades)
           equity == InitialBalance + Realised(n)
                       - SumRows([id \in OpenIds |-> positions[id].fees])
           symbol == positions'[Len(positions')].symbol
           exit   == LastExit(symbol, n)
       IN  /\ n >= MaxConsecutiveLosses =>
                \E i \in n - MaxConsecutiveLosses + 1..n : trades[i].net > 0
           /\ (Max({InitialBalance, peak}) - equity) * D
                < MaxDrawdown * Max({InitialBalance, peak})
           /\ exit = NoPrice \/ now - exit >= Cooldown]_vars

\* What the documentation says and the code does not do: no run asks for the
\* three properties below (README, "Disagreements").
\* No entry while the persisted engine state is EMERGENCY_STOP.
NoEntryUnderEmergencyStop == [][Entered => engine # "EMERGENCY_STOP"]_vars

NetToday ==
  SumFunctionOnSet([i \in DOMAIN trades |-> trades[i].net],
                   {i \in DOMAIN trades :
                      trades[i].time \div DayLength = now \div DayLength})

\* No entry once the trades closed today have lost the daily limit.
NoEntryAfterDailyLoss ==
  [][Entered =>
       (0 - NetToday) * D < MaxDailyLoss * (InitialBalance + Realised(Len(trades)))]_vars

\* A close is refused with "No open paper position" only when there is none.
RefusedOnlyWhenClosed ==
  [][\A p \in Procs : CloseRefused(p) => OpenIn(proc[p].symbol) = {}]_vars

-----------------------------------------------------------------------------
(* Liveness: the scheduler keeps ticking, the ticker answers again after a *)
(* failure, and the process is eventually no longer restarted.             *)

Fairness ==
  /\ WF_vars(MonitorLoad) /\ WF_vars(MonitorCommit)
  /\ WF_vars(MonitorSelectTrades) /\ WF_vars(MonitorSelectRows)
  /\ WF_vars(MonitorMark)
  /\ WF_vars(CloseSelectTrades(Monitor)) /\ WF_vars(CloseSelectRows(Monitor))
  /\ WF_vars(CloseSelectPeak(Monitor))
  /\ WF_vars(CloseFill(Monitor) \/ CloseRefused(Monitor))
  /\ \A id \in 1..MaxPositions :
       SF_vars(id \in DOMAIN tick.rows
                 /\ (MonitorTrail(id) \/ MonitorExit(id) \/ MonitorAborts(id)))
  /\ <>[][~Restart]_vars

FairSpec == Spec /\ Fairness

BelowStop(id) ==
  /\ id \in OpenIds
  /\ positions[id].stop # NoPrice
  /\ price[positions[id].symbol] <= positions[id].stop

\* A position whose price stays at or below its stop is closed by the monitor:
\* it does not stay open below its stop for ever.
StopEventuallyHonoured == \A id \in 1..MaxPositions : []<>~BelowStop(id)
=============================================================================
