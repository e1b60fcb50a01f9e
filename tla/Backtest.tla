------------------------------ MODULE Backtest ------------------------------
(***************************************************************************)
(* Replaying history (backtesting/engine.py over the simulator of          *)
(* paper_trading/simulator.py): one symbol, one bar after the other; the   *)
(* bar first exits what it can, then the strategy decides, then the equity *)
(* is recorded; what is still held after the last bar is closed by force.  *)
(*                                                                         *)
(* The strategy and the bars are arbitrary members of small sets.  A time  *)
(* is the number of a bar.  The open of a bar and the excursions kept for  *)
(* the report play no part in any decision and are left out.               *)
(***************************************************************************)
EXTENDS RiskEngine, Sequences, FiniteSetsExt

CONSTANTS
  Bars,              \* closed candles: [high, low, close]
  Orders,            \* what a strategy may buy with: [risk, reward, trail]
  InitialCapital,
  LotFilters,        \* resolve_symbol_filters, once for the run
  BarSeconds,        \* the timeframe
  MaxBars            \* bound: candles in the range

ASSUME BacktestAssumption ==
  /\ \A b \in Bars : /\ b \in [high : Nat, low : Nat \ {0}, close : Nat]
                     /\ b.low <= b.close /\ b.close <= b.high
  /\ Orders \subseteq [risk : Nat \ {0}, reward : Nat, trail : OptInt]
  /\ InitialCapital \in Nat \ {0}
  /\ LotFilters \in FilterType
  /\ BarSeconds \in Nat \ {0}
  /\ MaxBars \in Nat

VARIABLES
  pc,                  \* "bar", "strategy", "record", then "done" or "failed"
  total,               \* candles in the range
  index, bar,          \* the bar being processed
  balance, realised,   \* quote_balance, realised_pnl
  position,            \* the open position, or NoPosition
  trades,              \* closed_trades, with the bars they began and ended in
  peak, curve,         \* peak_equity, equity_curve
  inMarket, rejected   \* bars_in_market, rejected_count

portfolio == <<balance, realised, position, trades>>
counts == <<total, curve, inMarket, rejected>>
vars == <<pc, index, bar, peak, counts, portfolio>>

NoPosition == [quantity |-> 0]
NoBar == [high |-> 0, low |-> 0, close |-> 0]
Holding == position # NoPosition

\* run_backtest wants two candles at least.
Init ==
  /\ pc = "bar"
  /\ total \in 2..MaxBars
  /\ index = 0 /\ bar = NoBar
  /\ balance = InitialCapital /\ realised = 0 /\ position = NoPosition
  /\ trades = <<>>
  /\ peak = InitialCapital /\ curve = <<>>
  /\ inMarket = 0 /\ rejected = 0

-----------------------------------------------------------------------------
(* The portfolio.                                                          *)

CostOf(p) == p.quantity * p.entry * D + p.fees

Equity(cash, held, close) == cash + held.quantity * close * Unit

\* Mutant: a bar does not move the peak.
PeakUnmoved(equity) == peak

\* update_peak_equity
PeakWith(equity) == IF equity > peak THEN equity ELSE peak

\* Mutant: the trade just closed is not counted.
StreakBeforeLast ==
  Max({0, Len(trades) - 1}) - Max({0} \cup {i \in DOMAIN trades : trades[i].net > 0})

\* consecutive_losses
Streak == Len(trades) - Max({0} \cup {i \in DOMAIN trades : trades[i].net > 0})

\* Mutant: only an exit the strategy asked for starts the cooldown.
SinceStrategyExit ==
  IF trades = <<>> THEN NoPrice
  ELSE IF trades[Len(trades)].reason # "STRATEGY_EXIT" THEN NoPrice
  ELSE (index - trades[Len(trades)].to) * BarSeconds

\* seconds_since_last_exit
SinceExit ==
  IF trades = <<>> THEN NoPrice
  ELSE (index - trades[Len(trades)].to) * BarSeconds

TradeOf(fill, reason, time) ==
  [from |-> position.since, to |-> time, reason |-> reason, exit |-> fill.price,
   net |-> (fill.price - position.entry) * position.quantity * D
             - position.fees - fill.fee]

\* Mutant: the position stays in the dictionary with nothing in it.
PositionEmptied == [position EXCEPT !.quantity = 0]

PositionPopped == NoPosition

\* close_position: the position leaves whole, unless the fill is empty.
Close(ref, reason, time, step) ==
  LET fill  == SimulateFill(position.quantity, ref, "SELL", NoPrice, step)
      trade == TradeOf(fill, reason, time)
  IN  IF fill.quantity = 0 THEN UNCHANGED portfolio
      ELSE /\ balance' = balance + position.quantity * fill.price * D - fill.fee
           /\ realised' = realised + trade.net
           /\ position' = PositionPopped
           /\ trades' = Append(trades, trade)

-----------------------------------------------------------------------------
(* process_bar                                                             *)

NextBar(b) ==
  /\ pc = "bar" /\ index < total
  /\ index' = index + 1 /\ bar' = b
  /\ pc' = "strategy"
  /\ peak' = PeakWith(Equity(balance', position', b.close))
  /\ UNCHANGED counts

BarWhileFlat(b) ==
  /\ ~Holding
  /\ UNCHANGED portfolio
  /\ NextBar(b)

\* Mutant: the bar raises the trailing stop before it is tested against it.
StopRaisedByBar(b) == UpdateTrailingStop(position.stop, b.high, position.trail)

\* A bar is tested against the stop as it stood entering the bar.
StopEntering(b) == position.stop

BarReason(b) == ExitReason(b.high, b.low, StopEntering(b), position.target)

\* Only a bar that does not exit raises the trailing stop.
BarHolds(b) ==
  /\ Holding /\ BarReason(b) = "NONE"
  /\ position' = [position EXCEPT
                    !.stop = UpdateTrailingStop(position.stop, b.high, position.trail)]
  /\ UNCHANGED <<balance, realised, trades>>
  /\ NextBar(b)

BarExits(b) ==
  /\ Holding /\ BarReason(b) # "NONE"
  /\ Close(IF BarReason(b) = "STOP_LOSS" THEN StopEntering(b) ELSE position.target,
           BarReason(b), index + 1, LotFilters.step)
  /\ NextBar(b)

-----------------------------------------------------------------------------
(* The strategy's decision, and _apply.                                    *)

Decided == pc = "strategy" /\ UNCHANGED <<index, bar, peak, total, curve, inMarket>>

\* No decision, or one that changes nothing: EXIT while flat, BUY while holding.
Waits ==
  /\ Decided
  /\ pc' = "record"
  /\ UNCHANGED <<portfolio, rejected>>

StrategyExit ==
  /\ Decided /\ Holding
  /\ Close(bar.close, "STRATEGY_EXIT", index, LotFilters.step)
  /\ pc' = "record"
  /\ UNCHANGED rejected

BuyVerdict(order) ==
  Evaluate([symbol |-> "symbol", entry |-> bar.close, stop |-> bar.close - order.risk,
            filters |-> LotFilters, spread |-> NoPrice, atr |-> NoPrice,
            slippage |-> NoPrice, sinceExit |-> SinceExit],
           [equity |-> balance, available |-> balance, peak |-> peak,
            realised |-> realised, unrealised |-> 0, streak |-> Streak,
            open |-> 0, exposure |-> [x \in {} |-> 0]],
           HealthySystem)

BuyFill(order) ==
  SimulateFill(BuyVerdict(order).quantity, bar.close, "BUY", NoPrice, LotFilters.step)

Bought(order) ==
  [quantity |-> BuyFill(order).quantity, entry |-> BuyFill(order).price,
   fees |-> BuyFill(order).fee, stop |-> bar.close - order.risk,
   target |-> bar.close + order.reward, trail |-> order.trail, since |-> index]

\* A strategy never buys with a stop that is not positive.
Buys(order) == Decided /\ ~Holding /\ bar.close > order.risk

BuyRejected(order) ==
  /\ Buys(order)
  /\ BuyVerdict(order).decision # "APPROVED"
  /\ rejected' = rejected + 1
  /\ pc' = "record"
  /\ UNCHANGED portfolio

\* Mutant: the entry fee is not paid from the balance.
BalanceWithoutEntryFee(p) == balance - p.quantity * p.entry * D

BalanceAfter(p) == balance - CostOf(p)

Buy(order) ==
  LET p == Bought(order)
  IN  /\ Buys(order)
      /\ BuyVerdict(order).decision = "APPROVED"
      /\ CostOf(p) <= balance
      /\ IF p.quantity = 0 THEN UNCHANGED <<balance, position>>
         ELSE balance' = BalanceAfter(p) /\ position' = p
      /\ pc' = "record"
      /\ UNCHANGED <<realised, trades, rejected>>

\* Slippage makes an approved size cost more than the balance: the portfolio
\* raises ValueError, and the whole run is recorded as FAILED.
BuyFails(order) ==
  /\ Buys(order)
  /\ BuyVerdict(order).decision = "APPROVED"
  /\ CostOf(Bought(order)) > balance
  /\ pc' = "failed"
  /\ UNCHANGED <<portfolio, rejected>>

-----------------------------------------------------------------------------

Record ==
  /\ pc = "record"
  /\ inMarket' = IF Holding THEN inMarket + 1 ELSE inMarket
  /\ peak' = PeakWith(Equity(balance, position, bar.close))
  /\ curve' = Append(curve, Equity(balance, position, bar.close))
  /\ pc' = "bar"
  /\ UNCHANGED <<total, index, bar, rejected, portfolio>>

\* Mutant: the curve keeps the equity the last bar was recorded with.
CurveAsRecorded(equity) == curve

CurveEnding(equity) == [curve EXCEPT ![Len(curve)] = equity]

\* force_close_all, which ignores the lot grid; the last point of the curve
\* becomes the final equity.
Finish ==
  /\ pc = "bar" /\ index = total
  /\ IF Holding THEN Close(bar.close, "BACKTEST_END", index, NoPrice)
     ELSE UNCHANGED portfolio
  /\ curve' = CurveEnding(Equity(balance', position', bar.close))
  /\ pc' = "done"
  /\ UNCHANGED <<total, index, bar, peak, inMarket, rejected>>

Next ==
  \/ \E b \in Bars : BarWhileFlat(b) \/ BarHolds(b) \/ BarExits(b)
  \/ Waits \/ StrategyExit
  \/ \E o \in Orders : BuyRejected(o) \/ Buy(o) \/ BuyFails(o)
  \/ Record \/ Finish

Spec == Init /\ [][Next]_vars

-----------------------------------------------------------------------------
(* Properties.                                                             *)

PositionType == [quantity : Nat \ {0}, entry : Nat \ {0}, fees : Nat,
                 stop : Int, target : Int, trail : OptInt, since : Nat]
TradeType == [from : Nat, to : Nat, exit : Nat, net : Int,
              reason : {"STOP_LOSS", "TAKE_PROFIT", "STRATEGY_EXIT", "BACKTEST_END"}]

\* Every variable has its type; quantities and entry prices are positive.
TypeOK ==
  /\ pc \in {"bar", "strategy", "record", "done", "failed"}
  /\ total \in 2..MaxBars /\ index \in 0..total
  /\ bar \in Bars \cup {NoBar}
  /\ index > 0 => bar \in Bars
  /\ balance \in Int /\ realised \in Int /\ peak \in Int
  /\ position \in PositionType \cup {NoPosition}
  /\ trades \in Seq(TradeType)
  /\ curve \in Seq(Int)
  /\ inMarket \in Nat /\ rejected \in Nat

\* The replayed account keeps the same books as the paper account: an entry is
\* paid in full, ends once, and everything it returns is in the balance.
AsLedger == INSTANCE Ledger WITH
  Initial <- InitialCapital,
  Ids     <- 1..MaxBars,
  cash    <- balance,
  held    <- [i \in IF Holding THEN {Len(trades) + 1} ELSE {} |-> CostOf(position)],
  result  <- [i \in DOMAIN trades |-> trades[i].net]

ImplementsLedger == AsLedger!Spec

\* Whatever a run does, it ends flat: every position is closed, and the last
\* point of the equity curve, which the metrics are computed from, is the
\* capital plus the net result of every trade and nothing else.
EndsFlat ==
  pc = "done" =>
    /\ ~Holding
    /\ Len(curve) = total
    /\ curve[total] = InitialCapital + realised
    /\ balance = InitialCapital + realised

\* A bar never gives a better exit than the data justify: if it touched the
\* stop known before the bar, the exit is at that stop, whatever else it
\* touched; otherwise it is at the target.
BarExitsArePessimistic ==
  [][index' > index /\ Len(trades') > Len(trades) =>
       LET exit == trades'[Len(trades')].exit
       IN  IF bar'.low <= position.stop
           THEN exit = ApplySlippage(position.stop, "SELL")
           ELSE /\ bar'.high >= position.target
                /\ exit = ApplySlippage(position.target, "SELL")]_vars

\* The cooldown separates every entry from the exit before it, whatever the
\* exit was: a stop, a target or the strategy's own.
CooldownSeparatesTrades ==
  /\ \A i \in 2..Len(trades) :
       (trades[i].from - trades[i - 1].to) * BarSeconds >= Cooldown
  /\ Holding /\ trades # <<>> =>
       (position.since - trades[Len(trades)].to) * BarSeconds >= Cooldown

\* The drawdown halt is measured from a peak that no recorded equity exceeds.
PeakCoversCurve == \A i \in DOMAIN curve : curve[i] <= peak

\* A losing streak halts the run for good: with no trade to end the streak, no
\* bar after it is ever traded.
HaltedForGood ==
  [][~Holding /\ Len(trades) >= MaxConsecutiveLosses
       /\ (\A i \in Len(trades) - MaxConsecutiveLosses + 1 .. Len(trades) :
             trades[i].net <= 0)
       => UNCHANGED position]_vars

\* A stop never fills above every price of the bar that triggered it: what a
\* comment says and the code does not do (README, "Disagreements").
StopNeverFlatters ==
  [][index' > index /\ Len(trades') > Len(trades)
       /\ trades'[Len(trades')].reason = "STOP_LOSS"
       => trades'[Len(trades')].exit <= ApplySlippage(bar'.high, "SELL")]_vars
=============================================================================
