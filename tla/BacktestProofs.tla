--------------------------- MODULE BacktestProofs ---------------------------
(***************************************************************************)
(* What holds of every replay, for every candle, strategy, capital and     *)
(* lot grid: the books balance, a run ends flat, the cooldown and the      *)
(* losing streak are respected, the peak covers the curve, and the         *)
(* replayed account implements the abstract Ledger.                        *)
(***************************************************************************)
EXTENDS Backtest, RiskEngineProofs

Cost == IF Holding THEN CostOf(position) ELSE 0

\* The cash, what the open position has cost and the realised result add up.
BooksBalance == balance = InitialCapital + realised - Cost

Entries == Len(trades) + (IF Holding THEN 1 ELSE 0)

\* A bar is entered at most once, and recorded once it has been decided.
BarsCounted ==
  /\ pc \in {"strategy", "record", "failed"} => index > 0 /\ Len(curve) = index - 1
  /\ pc \in {"bar", "done"} => Len(curve) = index
  /\ Entries <= IF pc = "strategy" THEN index - 1 ELSE index

Ended == pc = "done" => index = total /\ ~Holding /\ curve[total] = balance

\* A run never spends more than it has.
Solvent == balance >= 0

Inv == TypeOK /\ BooksBalance /\ BarsCounted /\ Ended /\ Solvent

-----------------------------------------------------------------------------
(* The portfolio.                                                          *)

LEMMA PositionTypes ==
  ASSUME TypeOK, Holding
  PROVE  /\ position \in PositionType
         /\ position.quantity \in Nat \ {0} /\ position.entry \in Nat \ {0}
         /\ position.fees \in Nat /\ position.stop \in Int /\ position.target \in Int
         /\ position.trail \in OptInt /\ position.since \in Nat
BY DEF TypeOK, Holding, PositionType

\* What a position costs is positive.
LEMMA CostOfType ==
  ASSUME NEW p, p.quantity \in Nat \ {0}, p.entry \in Nat \ {0}, p.fees \in Nat
  PROVE  CostOf(p) \in Nat \ {0}
<1>1. D \in Nat \ {0} BY UnitType
<1>2. p.quantity * p.entry \in Nat \ {0} OBVIOUS
<1>3. p.quantity * p.entry * D \in Nat \ {0} BY <1>1, <1>2
<1> QED BY <1>3 DEF CostOf

LEMMA EquityType ==
  ASSUME NEW cash \in Int, NEW held, held.quantity \in Nat, NEW close \in Nat
  PROVE  Equity(cash, held, close) \in Int
<1>1. held.quantity * close \in Int OBVIOUS
<1>2. held.quantity * close * Unit \in Int BY <1>1, UnitType
<1> QED BY <1>2 DEF Equity

LEMMA PeakWithType ==
  ASSUME TypeOK, NEW equity \in Int
  PROVE  PeakWith(equity) \in Int
BY DEF TypeOK, PeakWith

\* What closing the position does to the account: nothing, or the position is
\* gone, its trade is the last one, and what it returned is in the balance.
Closed(reason, time) ==
  /\ position' = NoPosition
  /\ \E back \in Nat, exit \in Nat :
       /\ balance' = balance + back
       /\ realised' = realised + (back - CostOf(position))
       /\ trades' = Append(trades, [from |-> position.since, to |-> time,
                                    reason |-> reason, exit |-> exit,
                                    net |-> back - CostOf(position)])

LEMMA CloseEffect ==
  ASSUME TypeOK, Holding, NEW ref \in Int, NEW reason, NEW time \in Nat,
         NEW step \in OptInt, Close(ref, reason, time, step)
  PROVE  /\ \/ UNCHANGED portfolio
            \/ Closed(reason, time)
         /\ step = NoPrice /\ ref > 0 => Closed(reason, time)
<1> DEFINE fill == SimulateFill(position.quantity, ref, "SELL", NoPrice, step)
           q    == position.quantity
           back == q * fill.price * D - fill.fee
<1>1. q \in Nat \ {0} /\ position.entry \in Nat \ {0} /\ position.fees \in Nat
      /\ position.since \in Nat
  BY PositionTypes
<1>2. ASSUME fill.quantity # 0 PROVE Closed(reason, time)
  <2>1. /\ fill.price \in Nat \ {0} /\ fill.fee \in Nat
        /\ fill.fee <= q * fill.price * D
    BY <1>1, <1>2, FillBounds
  <2>2. /\ balance' = balance + q * fill.price * D - fill.fee
        /\ realised' = realised + TradeOf(fill, reason, time).net
        /\ position' = NoPosition
        /\ trades' = Append(trades, TradeOf(fill, reason, time))
    BY <1>2 DEF Close, PositionPopped
  <2> DEFINE price == fill.price
             fee   == fill.fee
  <2>3. TradeOf(fill, reason, time)
          = [from |-> position.since, to |-> time, reason |-> reason, exit |-> price,
             net |-> (price - position.entry) * q * D - position.fees - fee]
    BY DEF TradeOf
  <2> HIDE DEF fill, q
  <2>4. price \in Nat /\ fee \in Nat /\ fee <= q * price * D /\ D \in Nat
    BY <2>1, UnitType
  <2> HIDE DEF price, fee
  <2>5. q * price * D \in Nat BY <1>1, <2>4
  <2>6. (price - position.entry) * q * D = q * price * D - q * position.entry * D
    BY <1>1, <2>4
  <2>7. q * price * D - fee \in Nat BY <2>4, <2>5
  <2>8. q * position.entry * D \in Nat BY <1>1, <2>4
  <2>9. (price - position.entry) * q * D - position.fees - fee
          = (q * price * D - fee) - CostOf(position)
    BY <1>1, <2>4, <2>5, <2>6, <2>8 DEF CostOf, q
  <2>10. balance' = balance + (q * price * D - fee)
    BY <2>2, <2>4, <2>5 DEF TypeOK, price, fee
  <2> QED BY <2>2, <2>3, <2>4, <2>7, <2>9, <2>10 DEF Closed
<1>3. fill.quantity = 0 => UNCHANGED portfolio BY DEF Close
<1>4. step = NoPrice /\ ref > 0 => fill.quantity # 0
  BY <1>1, FillWithoutGrid
<1> QED BY <1>2, <1>3, <1>4

\* The part of the invariant that is about the portfolio alone.
PortfolioOK ==
  /\ balance \in Nat /\ realised \in Int
  /\ position \in PositionType \cup {NoPosition}
  /\ trades \in Seq(TradeType)
  /\ BooksBalance

LEMMA PortfolioFromInv == Inv => PortfolioOK
BY DEF Inv, PortfolioOK, TypeOK, Solvent

Reasons == {"STOP_LOSS", "TAKE_PROFIT", "STRATEGY_EXIT", "BACKTEST_END"}

LEMMA ClosedKeepsBooks ==
  ASSUME PortfolioOK, TypeOK, Holding, NEW reason \in Reasons, NEW time \in Nat,
         Closed(reason, time)
  PROVE  PortfolioOK' /\ Entries' = Entries /\ ~Holding'
<1>1. PICK back \in Nat, exit \in Nat :
        /\ balance' = balance + back
        /\ realised' = realised + (back - CostOf(position))
        /\ trades' = Append(trades, [from |-> position.since, to |-> time,
                                     reason |-> reason, exit |-> exit,
                                     net |-> back - CostOf(position)])
  BY DEF Closed
<1>2. CostOf(position) \in Nat BY PositionTypes, CostOfType
<1>3. position' = NoPosition BY DEF Closed
<1>4. ~Holding' BY <1>3 DEF Holding
<1>5. balance' \in Nat /\ realised' \in Int BY <1>1, <1>2 DEF PortfolioOK
<1>6. [from |-> position.since, to |-> time, reason |-> reason, exit |-> exit,
       net |-> back - CostOf(position)] \in TradeType
  BY <1>2, PositionTypes DEF TradeType, Reasons
<1>7. trades' \in Seq(TradeType) /\ Len(trades') = Len(trades) + 1
  BY <1>1, <1>6 DEF PortfolioOK
<1>8. BooksBalance'
  <2>1. balance = InitialCapital + realised - CostOf(position)
    BY DEF PortfolioOK, BooksBalance, Cost
  <2>2. InitialCapital \in Int BY BacktestAssumption
  <2> DEFINE cost == CostOf(position)
  <2>3. balance' = InitialCapital + realised'
    <3>1. balance \in Int /\ realised \in Int /\ cost \in Int BY <1>2 DEF PortfolioOK
    <3>2. balance' = balance + back /\ realised' = realised + (back - cost) BY <1>1
    <3> HIDE DEF cost
    <3>3. balance = InitialCapital + realised - cost BY <2>1 DEF cost
    <3> QED BY <2>2, <3>1, <3>2, <3>3
  <2> QED BY <1>4, <1>5, <2>2, <2>3 DEF BooksBalance, Cost
<1>9. Entries' = Entries
  BY <1>4, <1>7 DEF Entries, PortfolioOK
<1> QED BY <1>3, <1>4, <1>5, <1>7, <1>8, <1>9 DEF PortfolioOK

LEMMA SamePortfolio ==
  ASSUME PortfolioOK, UNCHANGED portfolio
  PROVE  PortfolioOK' /\ Entries' = Entries /\ Holding' = Holding
BY DEF PortfolioOK, portfolio, Entries, Holding, BooksBalance, Cost, CostOf

\* An exit of any kind: nothing, or a closed position.
LEMMA CloseKeepsBooks ==
  ASSUME Inv, Holding, NEW ref \in Int, NEW reason \in Reasons, NEW time \in Nat,
         NEW step \in OptInt, Close(ref, reason, time, step)
  PROVE  /\ PortfolioOK' /\ Entries' = Entries
         /\ step = NoPrice /\ ref > 0 => ~Holding'
<1>1. PortfolioOK /\ TypeOK BY PortfolioFromInv DEF Inv
<1>2. CASE UNCHANGED portfolio /\ ~Closed(reason, time)
  BY <1>1, <1>2, SamePortfolio, CloseEffect
<1>3. CASE Closed(reason, time)
  BY <1>1, <1>3, ClosedKeepsBooks
<1> QED BY <1>1, <1>2, <1>3, CloseEffect

\* The invariant holds after a step that leaves the portfolio in order.
LEMMA InvAfter ==
  ASSUME PortfolioOK',
         pc' \in {"bar", "strategy", "record", "done", "failed"},
         total' \in 2..MaxBars, index' \in 0..total',
         bar' \in Bars \cup {NoBar}, index' > 0 => bar' \in Bars,
         peak' \in Int, curve' \in Seq(Int), inMarket' \in Nat, rejected' \in Nat,
         BarsCounted', Ended'
  PROVE  Inv'
BY DEF Inv, TypeOK, PortfolioOK, Solvent

LEMMA BarTypes ==
  ASSUME NEW b \in Bars
  PROVE  b.high \in Int /\ b.low \in Int /\ b.close \in Nat \ {0}
BY BacktestAssumption

LEMMA NextPeakType ==
  ASSUME TypeOK, PortfolioOK', NEW b \in Bars
  PROVE  PeakWith(Equity(balance', position', b.close)) \in Int
<1>1. position'.quantity \in Nat BY DEF PortfolioOK, PositionType, NoPosition
<1>2. balance' \in Int BY DEF PortfolioOK
<1>3. b.close \in Nat BY BarTypes
<1>4. Equity(balance', position', b.close) \in Int BY <1>1, <1>2, <1>3, EquityType
<1> QED BY <1>4, PeakWithType

-----------------------------------------------------------------------------
(* One lemma per group of actions.                                         *)

\* Every action of process_bar ends with NextBar.
LEMMA NextBarStep ==
  ASSUME Inv, PortfolioOK', Entries' = Entries, NEW b \in Bars, NextBar(b)
  PROVE  Inv'
<1>1. /\ pc = "bar" /\ index < total /\ index' = index + 1 /\ bar' = b
      /\ pc' = "strategy" /\ UNCHANGED counts
      /\ peak' = PeakWith(Equity(balance', position', b.close))
  BY DEF NextBar
<1>2. peak' \in Int BY <1>1, NextPeakType DEF Inv
<1>3. /\ total \in 2..MaxBars /\ index \in 0..total /\ curve \in Seq(Int)
      /\ inMarket \in Nat /\ rejected \in Nat /\ MaxBars \in Nat
  BY BacktestAssumption DEF Inv, TypeOK
<1>4. total' = total /\ curve' = curve /\ inMarket' = inMarket /\ rejected' = rejected
  BY <1>1 DEF counts
<1>5. index' \in 0..total' BY <1>1, <1>3, <1>4
<1>6. BarsCounted'
  <2>1. Len(curve) = index /\ Entries <= index BY <1>1 DEF Inv, BarsCounted
  <2> QED BY <1>1, <1>3, <1>4, <2>1 DEF BarsCounted
<1>7. Ended' BY <1>1 DEF Ended
<1> QED BY <1>1, <1>2, <1>3, <1>4, <1>5, <1>6, <1>7, InvAfter

LEMMA BarHoldsStep ==
  ASSUME Inv, NEW b \in Bars, BarHolds(b)
  PROVE  Inv'
<1>1. /\ position' = [position EXCEPT !.stop =
                        UpdateTrailingStop(position.stop, b.high, position.trail)]
      /\ UNCHANGED <<balance, realised, trades>> /\ NextBar(b) /\ Holding
  BY DEF BarHolds
<1>2. UpdateTrailingStop(position.stop, b.high, position.trail) \in Int
  <2>1. /\ position.stop \in Int /\ position.trail \in OptInt /\ b.high \in Int
    BY <1>1, PositionTypes, BarTypes DEF Inv
  <2> QED BY <2>1, FillsAssumption DEF UpdateTrailingStop, OptInt
<1>3. position' \in PositionType /\ CostOf(position') = CostOf(position)
  <2>1. position \in PositionType BY <1>1, PositionTypes DEF Inv
  <2> QED BY <1>1, <1>2, <2>1 DEF PositionType, CostOf
<1>4. Holding' BY <1>3 DEF Holding, PositionType, NoPosition
<1>5. PortfolioOK BY PortfolioFromInv
<1>6. PortfolioOK' /\ Entries' = Entries
  BY <1>1, <1>3, <1>4, <1>5 DEF PortfolioOK, BooksBalance, Cost, Entries
<1> QED BY <1>1, <1>6, NextBarStep

LEMMA BarExitsStep ==
  ASSUME Inv, NEW b \in Bars, BarExits(b)
  PROVE  Inv'
<1> DEFINE reason == BarReason(b)
           ref    == IF reason = "STOP_LOSS" THEN StopEntering(b) ELSE position.target
<1>1. Holding /\ reason # "NONE" /\ Close(ref, reason, index + 1, LotFilters.step)
      /\ NextBar(b)
  BY DEF BarExits
<1>2. reason \in Reasons
  BY <1>1 DEF BarReason, ExitReason, Reasons
<1>3. ref \in Int BY <1>1, PositionTypes DEF Inv, StopEntering
<1>4. LotFilters.step \in OptInt BY BacktestAssumption DEF FilterType
<1>5. index + 1 \in Nat BY DEF Inv, TypeOK
<1> HIDE DEF reason, ref
<1>6. PortfolioOK' /\ Entries' = Entries
  BY <1>1, <1>2, <1>3, <1>4, <1>5, CloseKeepsBooks
<1> QED BY <1>1, <1>6, NextBarStep

\* A decision leaves the bar to be recorded, or fails the run.
LEMMA DecidedStep ==
  ASSUME Inv, PortfolioOK', Decided, pc' \in {"record", "failed"},
         Entries' <= Entries + 1, rejected' \in {rejected, rejected + 1}
  PROVE  Inv'
<1>1. /\ pc = "strategy" /\ index' = index /\ bar' = bar /\ peak' = peak
      /\ total' = total /\ curve' = curve /\ inMarket' = inMarket
  BY DEF Decided
<1>2. rejected' \in Nat BY DEF Inv, TypeOK
<1>3. BarsCounted'
  <2>1. index > 0 /\ Len(curve) = index - 1 /\ Entries <= index - 1 /\ index \in Nat
    BY <1>1 DEF Inv, BarsCounted, TypeOK
  <2>2. Entries \in Int /\ Entries' \in Int
    <3>1. trades \in Seq(TradeType) /\ trades' \in Seq(TradeType)
      BY DEF Inv, TypeOK, PortfolioOK
    <3> QED BY <3>1 DEF Entries
  <2> QED BY <1>1, <2>1, <2>2 DEF BarsCounted
<1>4. Ended' BY DEF Ended
<1> QED BY <1>1, <1>2, <1>3, <1>4, InvAfter DEF Inv, TypeOK

LEMMA WaitsStep ==
  ASSUME Inv, Waits
  PROVE  Inv'
<1>1. PortfolioOK' /\ Entries' = Entries
  BY PortfolioFromInv, SamePortfolio DEF Waits
<1>2. Entries \in Int BY DEF Entries, Inv, TypeOK
<1>3. Decided /\ pc' = "record" /\ rejected' = rejected BY DEF Waits
<1> QED BY <1>1, <1>2, <1>3, DecidedStep

LEMMA StrategyExitStep ==
  ASSUME Inv, StrategyExit
  PROVE  Inv'
<1>1. /\ Decided /\ Holding /\ pc' = "record" /\ rejected' = rejected
      /\ Close(bar.close, "STRATEGY_EXIT", index, LotFilters.step)
  BY DEF StrategyExit
<1>2. bar.close \in Int /\ index \in Nat
  BY <1>1, BarTypes DEF Decided, Inv, TypeOK, BarsCounted
<1>3. LotFilters.step \in OptInt BY BacktestAssumption DEF FilterType
<1>4. "STRATEGY_EXIT" \in Reasons BY DEF Reasons
<1>5. PortfolioOK' /\ Entries' = Entries
  BY <1>1, <1>2, <1>3, <1>4, CloseKeepsBooks
<1>6. Entries \in Int BY DEF Entries, Inv, TypeOK
<1> QED BY <1>1, <1>5, <1>6, DecidedStep

LEMMA BuyRejectedStep ==
  ASSUME Inv, NEW order \in Orders, BuyRejected(order) \/ BuyFails(order)
  PROVE  Inv'
<1>1. PortfolioOK' /\ Entries' = Entries
  BY PortfolioFromInv, SamePortfolio DEF BuyRejected, BuyFails
<1>2. Entries \in Int BY DEF Entries, Inv, TypeOK
<1>3. Decided /\ pc' \in {"record", "failed"} /\ rejected' \in {rejected, rejected + 1}
  BY DEF BuyRejected, BuyFails, Buys
<1> QED BY <1>1, <1>2, <1>3, DecidedStep

\* What the risk engine approves is a positive quantity.
LEMMA ApprovedQuantity ==
  ASSUME Inv, NEW order \in Orders, Buys(order),
         BuyVerdict(order).decision = "APPROVED"
  PROVE  BuyVerdict(order).quantity \in Nat \ {0}
<1> DEFINE request ==
             [symbol |-> "symbol", entry |-> bar.close, stop |-> bar.close - order.risk,
              filters |-> LotFilters, spread |-> NoPrice, atr |-> NoPrice,
              slippage |-> NoPrice, sinceExit |-> SinceExit]
           none == [x \in {} |-> 0]
           account ==
             [equity |-> balance, available |-> balance, peak |-> peak,
              realised |-> realised, unrealised |-> 0, streak |-> Streak,
              open |-> 0, exposure |-> none]
<1>1. BuyVerdict(order) = Evaluate(request, account, HealthySystem)
  BY DEF BuyVerdict
<1>2. bar.close \in Int BY BarTypes DEF Buys, Decided, Inv, TypeOK, BarsCounted
<1>3. order.risk \in Int BY BacktestAssumption
<1>4. AssetExposure(account, request.symbol) = 0 /\ TotalExposure(account) = 0
  BY NoExposure DEF AssetExposure, TotalExposure
<1>5. account.equity \in Int /\ account.available \in Int BY DEF Inv, TypeOK
<1>6. request.entry \in Int /\ request.stop \in OptInt /\ request.filters \in FilterType
  <2>1. request.entry = bar.close /\ request.stop = bar.close - order.risk
        /\ request.filters = LotFilters
    OBVIOUS
  <2>2. bar.close - order.risk \in Int BY <1>2, <1>3
  <2>3. LotFilters \in FilterType BY BacktestAssumption
  <2> HIDE DEF request
  <2> QED BY <1>2, <2>1, <2>2, <2>3 DEF OptInt
<1> HIDE DEF request, account
<1>7. LET size == CalculatePositionSize(account.equity, account.available, request.entry,
                    request.stop, request.filters, 0, 0)
      IN  size.approved /\ BuyVerdict(order).quantity = size.quantity
  BY <1>1, <1>4, ApprovedByEveryCheck
<1>8. 0 \in Int OBVIOUS
<1> DEFINE size == CalculatePositionSize(account.equity, account.available, request.entry,
                                         request.stop, request.filters, 0, 0)
<1>9. size.approved => size.quantity \in Nat \ {0}
  BY <1>5, <1>6, <1>8, ApprovedSizeIsLegal, Zenon
<1> HIDE DEF size
<1> QED BY <1>7, <1>9 DEF size

LEMMA BoughtType ==
  ASSUME Inv, NEW order \in Orders, Buys(order),
         BuyVerdict(order).decision = "APPROVED", Bought(order).quantity # 0
  PROVE  /\ Bought(order) \in PositionType
         /\ CostOf(Bought(order)) \in Nat \ {0}
<1> DEFINE requested == BuyVerdict(order).quantity
           fill == SimulateFill(requested, bar.close, "BUY", NoPrice, LotFilters.step)
           p == Bought(order)
<1>1. requested \in Nat \ {0} BY ApprovedQuantity
<1>2. bar.close \in Int /\ index \in Nat
  BY BarTypes DEF Buys, Decided, Inv, TypeOK, BarsCounted
<1>3. LotFilters.step \in OptInt BY BacktestAssumption DEF FilterType
<1>4. order.risk \in Int /\ order.reward \in Int /\ order.trail \in OptInt
  BY BacktestAssumption
<1>5. BuyFill(order) = fill BY DEF BuyFill
<1>6. fill.quantity # 0 BY <1>5 DEF Bought
<1> HIDE DEF requested
<1>7. fill.quantity \in 1..requested /\ fill.price \in Nat \ {0} /\ fill.fee \in Nat
  BY <1>1, <1>2, <1>3, <1>6, FillBounds
<1> HIDE DEF fill
<1>8. p = [quantity |-> fill.quantity, entry |-> fill.price, fees |-> fill.fee,
           stop |-> bar.close - order.risk, target |-> bar.close + order.reward,
           trail |-> order.trail, since |-> index]
  BY <1>5 DEF Bought
<1> HIDE DEF p
<1>9. p \in PositionType BY <1>1, <1>2, <1>4, <1>7, <1>8 DEF PositionType
<1>10. CostOf(p) \in Nat \ {0}
  <2>1. p.quantity \in Nat \ {0} /\ p.entry \in Nat \ {0} /\ p.fees \in Nat
    BY <1>9 DEF PositionType
  <2> QED BY <2>1, CostOfType
<1> QED BY <1>9, <1>10 DEF p

\* What an entry does to the account.
Entered ==
  /\ ~Holding /\ Holding'
  /\ position' \in PositionType
  /\ CostOf(position') \in Nat \ {0}
  /\ balance' = balance - CostOf(position') /\ balance' >= 0
  /\ UNCHANGED <<realised, trades>>

LEMMA BuyEffect ==
  ASSUME Inv, NEW order \in Orders, Buy(order)
  PROVE  Entered \/ UNCHANGED portfolio
<1> DEFINE p == Bought(order)
<1>1. /\ Buys(order) /\ BuyVerdict(order).decision = "APPROVED"
      /\ CostOf(p) <= balance
      /\ IF p.quantity = 0 THEN UNCHANGED <<balance, position>>
         ELSE balance' = balance - CostOf(p) /\ position' = p
      /\ UNCHANGED <<realised, trades>>
  BY DEF Buy, BalanceAfter
<1>2. CASE p.quantity = 0 BY <1>1, <1>2 DEF portfolio
<1>3. CASE p.quantity # 0
  <2>1. p \in PositionType /\ CostOf(p) \in Nat \ {0} BY <1>1, <1>3, BoughtType
  <2> HIDE DEF p
  <2>2. position' = p /\ balance' = balance - CostOf(p) BY <1>1, <1>3
  <2>3. Holding' BY <2>1, <2>2 DEF Holding, PositionType, NoPosition
  <2>4. balance' >= 0 BY <1>1, <2>1, <2>2 DEF Inv, TypeOK
  <2> QED BY <1>1, <2>1, <2>2, <2>3, <2>4 DEF Entered, Buys
<1> QED BY <1>2, <1>3

LEMMA EnteredKeepsBooks ==
  ASSUME PortfolioOK, Entered
  PROVE  PortfolioOK' /\ Entries' = Entries + 1
<1>1. /\ balance' \in Nat /\ realised' = realised /\ trades' = trades
      /\ position' \in PositionType
  BY DEF Entered, PortfolioOK
<1>2. BooksBalance'
  <2>1. balance = InitialCapital + realised /\ InitialCapital \in Int
    BY BacktestAssumption DEF PortfolioOK, BooksBalance, Cost, Entered
  <2> QED BY <1>1, <2>1 DEF Entered, BooksBalance, Cost, PortfolioOK
<1>3. Entries' = Entries + 1 BY <1>1 DEF Entered, Entries, PortfolioOK
<1> QED BY <1>1, <1>2, <1>3 DEF PortfolioOK

LEMMA BuyStep ==
  ASSUME Inv, NEW order \in Orders, Buy(order)
  PROVE  Inv'
<1>1. PortfolioOK BY PortfolioFromInv
<1>2. Entries \in Int BY DEF Entries, Inv, TypeOK
<1>3. PortfolioOK' /\ Entries' \in {Entries, Entries + 1}
  BY <1>1, BuyEffect, EnteredKeepsBooks, SamePortfolio
<1>4. Decided /\ pc' = "record" /\ rejected' = rejected BY DEF Buy, Buys
<1> QED BY <1>2, <1>3, <1>4, DecidedStep

\* The equity at the close of a bar.
LEMMA EquityNow ==
  ASSUME Inv, bar \in Bars
  PROVE  Equity(balance, position, bar.close) \in Int
<1>1. position.quantity \in Nat BY DEF Inv, TypeOK, PositionType, NoPosition
<1>2. balance \in Int /\ bar.close \in Nat BY BarTypes DEF Inv, TypeOK
<1> QED BY <1>1, <1>2, EquityType

LEMMA RecordStep ==
  ASSUME Inv, Record
  PROVE  Inv'
<1> DEFINE equity == Equity(balance, position, bar.close)
<1>1. /\ pc = "record" /\ pc' = "bar" /\ peak' = PeakWith(equity)
      /\ curve' = Append(curve, equity)
      /\ inMarket' = IF Holding THEN inMarket + 1 ELSE inMarket
      /\ total' = total /\ index' = index /\ bar' = bar /\ rejected' = rejected
      /\ UNCHANGED portfolio
  BY DEF Record
<1>2. index > 0 /\ Len(curve) = index - 1 /\ Entries <= index /\ bar \in Bars
  BY <1>1 DEF Inv, BarsCounted, TypeOK
<1>3. equity \in Int BY <1>2, EquityNow
<1>4. peak' \in Int BY <1>1, <1>3, PeakWithType DEF Inv
<1> HIDE DEF equity
<1>5. PortfolioOK' /\ Entries' = Entries BY <1>1, PortfolioFromInv, SamePortfolio
<1>6. curve' \in Seq(Int) /\ Len(curve') = index
  BY <1>1, <1>2, <1>3 DEF Inv, TypeOK
<1>7. BarsCounted' BY <1>1, <1>2, <1>5, <1>6 DEF BarsCounted
<1>8. Ended' BY <1>1 DEF Ended
<1>9. inMarket' \in Nat BY <1>1 DEF Inv, TypeOK
<1> QED BY <1>1, <1>4, <1>5, <1>6, <1>7, <1>8, <1>9, InvAfter DEF Inv, TypeOK

\* The forced exit ignores the lot grid and sells at a close, which is
\* positive: whatever is held is sold.
LEMMA FinishLeavesFlat ==
  ASSUME Inv, Finish
  PROVE  PortfolioOK' /\ Entries' = Entries /\ ~Holding'
<1>1. bar \in Bars /\ index \in Nat BY DEF Finish, Inv, TypeOK
<1>2. bar.close \in Int /\ bar.close > 0 BY <1>1, BarTypes
<1>3. CASE Holding
  <2>1. Close(bar.close, "BACKTEST_END", index, NoPrice) BY <1>3 DEF Finish
  <2>2. NoPrice \in OptInt /\ "BACKTEST_END" \in Reasons BY DEF OptInt, Reasons
  <2> QED BY <1>1, <1>2, <1>3, <2>1, <2>2, CloseKeepsBooks
<1>4. CASE ~Holding
  <2>1. UNCHANGED portfolio BY <1>4 DEF Finish
  <2> QED BY <1>4, <2>1, PortfolioFromInv, SamePortfolio
<1> QED BY <1>3, <1>4

LEMMA FinishStep ==
  ASSUME Inv, Finish
  PROVE  Inv'
<1> DEFINE equity == Equity(balance', position', bar.close)
<1>1. PortfolioOK' /\ Entries' = Entries /\ ~Holding' BY FinishLeavesFlat
<1>2. /\ pc = "bar" /\ index = total /\ pc' = "done"
      /\ curve' = [curve EXCEPT ![Len(curve)] = equity]
      /\ total' = total /\ index' = index /\ bar' = bar /\ peak' = peak
      /\ inMarket' = inMarket /\ rejected' = rejected
  BY DEF Finish, CurveEnding
<1>3. equity = balance' /\ balance' \in Int
  <2>1. position' = NoPosition BY <1>1 DEF Holding
  <2>2. balance' \in Int BY <1>1 DEF PortfolioOK
  <2>3. bar \in Bars BY <1>2 DEF Inv, TypeOK
  <2>4. bar.close \in Int /\ Unit \in Int BY <2>3, BarTypes, UnitType
  <2>5. position'.quantity = 0 BY <2>1 DEF NoPosition
  <2>6. 0 * bar.close * Unit = 0 BY <2>4
  <2> QED BY <2>2, <2>5, <2>6 DEF Equity
<1> HIDE DEF equity
<1>4. Len(curve) = index /\ index \in Nat /\ index > 0 /\ curve \in Seq(Int)
      /\ Entries <= index
  BY <1>2 DEF Inv, TypeOK, BarsCounted
<1>5. curve' \in Seq(Int) /\ Len(curve') = index /\ curve'[index] = balance'
  <2>1. index \in 1..Len(curve) BY <1>4
  <2> QED BY <1>2, <1>3, <1>4, <2>1
<1>6. BarsCounted' BY <1>1, <1>2, <1>4, <1>5 DEF BarsCounted
<1>7. Ended' BY <1>1, <1>2, <1>5 DEF Ended
<1> QED BY <1>1, <1>2, <1>5, <1>6, <1>7, InvAfter DEF Inv, TypeOK

LEMMA BarWhileFlatStep ==
  ASSUME Inv, NEW b \in Bars, BarWhileFlat(b)
  PROVE  Inv'
<1>1. PortfolioOK' /\ Entries' = Entries /\ NextBar(b)
  BY PortfolioFromInv, SamePortfolio DEF BarWhileFlat
<1> QED BY <1>1, NextBarStep

LEMMA InvInit == Init => Inv
<1> SUFFICES ASSUME Init PROVE Inv OBVIOUS
<1>1. InitialCapital \in Nat BY BacktestAssumption
<1>2. ~Holding BY DEF Init, Holding
<1>3. Entries = 0 /\ Len(curve) = 0 BY <1>2 DEF Init, Entries
<1>4. TypeOK BY <1>1, BacktestAssumption DEF Init, TypeOK
<1> QED BY <1>1, <1>2, <1>3, <1>4
     DEF Init, Inv, BooksBalance, Cost, BarsCounted, Ended, Solvent

LEMMA InvStep == Inv /\ [Next]_vars => Inv'
<1> SUFFICES ASSUME Inv, [Next]_vars PROVE Inv' OBVIOUS
<1>1. CASE UNCHANGED vars
  <2>1. UNCHANGED <<pc, index, bar, peak, total, curve, inMarket, rejected>>
        /\ UNCHANGED portfolio
    BY <1>1 DEF vars, counts
  <2>2. PortfolioOK' /\ Entries' = Entries /\ Holding' = Holding
    BY <2>1, PortfolioFromInv, SamePortfolio
  <2>3. BarsCounted' BY <2>1, <2>2 DEF Inv, BarsCounted
  <2>4. Ended' BY <2>1, <2>2 DEF Inv, Ended, portfolio
  <2> QED BY <2>1, <2>2, <2>3, <2>4, InvAfter DEF Inv, TypeOK
<1>2. ASSUME NEW b \in Bars, BarWhileFlat(b) \/ BarHolds(b) \/ BarExits(b) PROVE Inv'
  BY <1>2, BarWhileFlatStep, BarHoldsStep, BarExitsStep
<1>3. CASE Waits \/ StrategyExit
  BY <1>3, WaitsStep, StrategyExitStep
<1>4. ASSUME NEW o \in Orders, BuyRejected(o) \/ Buy(o) \/ BuyFails(o) PROVE Inv'
  BY <1>4, BuyRejectedStep, BuyStep
<1>5. CASE Record \/ Finish BY <1>5, RecordStep, FinishStep
<1> QED BY <1>1, <1>2, <1>3, <1>4, <1>5 DEF Next

LEMMA InvHolds == Spec => []Inv
BY InvInit, InvStep, PTL DEF Spec

\* Every variable keeps its type through any replay: quantities and entry
\* prices stay positive, and every trade has one of the four exit reasons.
THEOREM TypeCorrect == Spec => []TypeOK
<1>1. Inv => TypeOK BY DEF Inv
<1> QED BY <1>1, InvHolds, PTL

\* Whatever the candles, the strategy, the capital and the lot grid, a run that
\* completes has closed its position, and the last point of the equity curve
\* is the capital plus the net result of every trade (run, engine.py:208-217).
THEOREM RunEndsFlat == Spec => []EndsFlat
<1>1. Inv => EndsFlat
  <2> SUFFICES ASSUME Inv, pc = "done"
               PROVE  /\ ~Holding /\ Len(curve) = total
                      /\ curve[total] = InitialCapital + realised
                      /\ balance = InitialCapital + realised
    BY DEF EndsFlat
  <2>1. index = total /\ ~Holding /\ curve[total] = balance BY DEF Inv, Ended
  <2>2. Len(curve) = total BY <2>1 DEF Inv, BarsCounted
  <2>3. balance = InitialCapital + realised - 0
    BY <2>1 DEF Inv, BooksBalance, Cost
  <2>4. InitialCapital \in Int /\ realised \in Int BY BacktestAssumption DEF Inv, TypeOK
  <2> QED BY <2>1, <2>2, <2>3, <2>4
<1> QED BY <1>1, InvHolds, PTL

-----------------------------------------------------------------------------
(* The cooldown and the losing streak.                                     *)

\* What an approved entry has to answer to.
LEMMA ApprovedEntry ==
  ASSUME NEW order, BuyVerdict(order).decision = "APPROVED"
  PROVE  /\ SinceExit = NoPrice \/ ~(SinceExit < Cooldown)
         /\ ~(Streak >= MaxConsecutiveLosses)
<1> DEFINE request ==
             [symbol |-> "symbol", entry |-> bar.close, stop |-> bar.close - order.risk,
              filters |-> LotFilters, spread |-> NoPrice, atr |-> NoPrice,
              slippage |-> NoPrice, sinceExit |-> SinceExit]
           account ==
             [equity |-> balance, available |-> balance, peak |-> peak,
              realised |-> realised, unrealised |-> 0, streak |-> Streak,
              open |-> 0, exposure |-> [x \in {} |-> 0]]
<1>1. BuyVerdict(order) = Evaluate(request, account, HealthySystem)
  BY DEF BuyVerdict
<1>2. request.sinceExit = SinceExit /\ account.streak = Streak OBVIOUS
<1> HIDE DEF request, account
<1>3. CheckAccountHalts(account) = "none" /\ CheckTradeConditions(request, account) = "none"
  BY <1>1, ApprovedByEveryCheck
<1>4. ~(account.streak >= MaxConsecutiveLosses) BY <1>3 DEF CheckAccountHalts
<1>5. ~(request.sinceExit # NoPrice /\ request.sinceExit < Cooldown)
  BY <1>3 DEF CheckTradeConditions
<1> QED BY <1>2, <1>4, <1>5

\* What a step does to the position and the trades: nothing that matters here,
\* an exit, or an approved entry at the bar being decided.
Kept ==
  /\ trades' = trades /\ Holding' = Holding
  /\ Holding => position'.since = position.since

Exited == Holding /\ \E reason, time : Closed(reason, time)

EntryMade ==
  /\ ~Holding /\ trades' = trades /\ position'.since = index
  /\ \E o \in Orders : BuyVerdict(o).decision = "APPROVED"

LEMMA Exits ==
  ASSUME Inv, Holding, NEW ref \in Int, NEW reason, NEW time \in Nat,
         NEW step \in OptInt, Close(ref, reason, time, step)
  PROVE  Kept \/ Exited
BY CloseEffect DEF Inv, Kept, Exited, portfolio, Holding

LEMMA PositionStep ==
  ASSUME Inv, [Next]_vars
  PROVE  Kept \/ Exited \/ EntryMade
<1>1. UNCHANGED portfolio => Kept BY DEF Kept, portfolio, Holding
<1>2. CASE UNCHANGED vars BY <1>1, <1>2 DEF vars
<1>3. ASSUME NEW b \in Bars, BarHolds(b) PROVE Kept
  <2>1. /\ position \in PositionType /\ trades' = trades
        /\ position' = [position EXCEPT !.stop =
                          UpdateTrailingStop(position.stop, b.high, position.trail)]
    BY <1>3, PositionTypes DEF BarHolds, Inv
  <2>2. position'.since = position.since /\ position'.quantity = position.quantity
    BY <2>1 DEF PositionType
  <2>3. Holding /\ Holding' BY <2>1, <2>2, <1>3 DEF BarHolds, Holding, NoPosition, PositionType
  <2> QED BY <2>1, <2>2, <2>3 DEF Kept
<1>4. ASSUME NEW b \in Bars, BarExits(b) PROVE Kept \/ Exited
  <2> DEFINE ref == IF BarReason(b) = "STOP_LOSS" THEN StopEntering(b) ELSE position.target
  <2>1. Holding /\ Close(ref, BarReason(b), index + 1, LotFilters.step)
    BY <1>4 DEF BarExits
  <2>2. ref \in Int BY <2>1, PositionTypes DEF Inv, StopEntering
  <2>3. LotFilters.step \in OptInt /\ index + 1 \in Nat
    BY BacktestAssumption DEF FilterType, Inv, TypeOK
  <2> HIDE DEF ref
  <2> QED BY <2>1, <2>2, <2>3, Exits
<1>5. CASE StrategyExit
  <2>1. Holding /\ Close(bar.close, "STRATEGY_EXIT", index, LotFilters.step)
    BY <1>5 DEF StrategyExit
  <2>2. bar.close \in Int /\ index \in Nat
    BY <1>5, BarTypes DEF StrategyExit, Decided, Inv, TypeOK, BarsCounted
  <2>3. LotFilters.step \in OptInt BY BacktestAssumption DEF FilterType
  <2> QED BY <2>1, <2>2, <2>3, Exits
<1>6. ASSUME NEW o \in Orders, Buy(o) PROVE Kept \/ EntryMade
  <2>1. /\ ~Holding /\ trades' = trades /\ BuyVerdict(o).decision = "APPROVED"
        /\ IF Bought(o).quantity = 0 THEN UNCHANGED <<balance, position>>
           ELSE position' = Bought(o)
    BY <1>6 DEF Buy, Buys
  <2>2. CASE Bought(o).quantity = 0
    BY <2>1, <2>2 DEF Kept, Holding
  <2>3. CASE Bought(o).quantity # 0
    <3>1. position'.since = index BY <2>1, <2>3 DEF Bought
    <3> QED BY <2>1, <3>1 DEF EntryMade
  <2> QED BY <2>2, <2>3
<1>7. CASE Finish
  <2>1. CASE Holding
    <3>1. Close(bar.close, "BACKTEST_END", index, NoPrice) BY <1>7, <2>1 DEF Finish
    <3>2. bar \in Bars /\ index \in Nat BY <1>7 DEF Finish, Inv, TypeOK
    <3>3. bar.close \in Int /\ NoPrice \in OptInt BY <3>2, BarTypes DEF OptInt
    <3> QED BY <2>1, <3>1, <3>2, <3>3, Exits
  <2>2. CASE ~Holding BY <1>1, <1>7, <2>2 DEF Finish
  <2> QED BY <2>1, <2>2
<1>8. (Waits \/ Record \/ \E b \in Bars : BarWhileFlat(b)) => Kept
  BY <1>1 DEF Waits, Record, BarWhileFlat
<1>9. (\E o \in Orders : BuyRejected(o) \/ BuyFails(o)) => Kept
  BY <1>1 DEF BuyRejected, BuyFails
<1> QED BY <1>2, <1>3, <1>4, <1>5, <1>6, <1>7, <1>8, <1>9 DEF Next

LEMMA CooldownStep == Inv /\ CooldownSeparatesTrades /\ [Next]_vars => CooldownSeparatesTrades'
<1> SUFFICES ASSUME Inv, CooldownSeparatesTrades, [Next]_vars
             PROVE  CooldownSeparatesTrades'
  OBVIOUS
<1>1. trades \in Seq(TradeType) BY DEF Inv, TypeOK
<1>2. CASE Kept BY <1>2 DEF Kept, CooldownSeparatesTrades
<1>3. CASE Exited
  <2>1. PICK last : trades' = Append(trades, last) /\ last.from = position.since
    BY <1>3 DEF Exited, Closed
  <2>2. ~Holding' /\ Holding BY <1>3 DEF Exited, Closed, Holding
  <2>3. Len(trades') = Len(trades) + 1 BY <1>1, <2>1
  <2>4. ASSUME NEW i \in 2..Len(trades')
        PROVE  (trades'[i].from - trades'[i - 1].to) * BarSeconds >= Cooldown
    <3>1. CASE i \in 2..Len(trades)
      <4>1. trades'[i] = trades[i] /\ trades'[i - 1] = trades[i - 1]
        BY <1>1, <2>1, <3>1
      <4> QED BY <3>1, <4>1 DEF CooldownSeparatesTrades
    <3>2. CASE i = Len(trades) + 1
      <4>1. trades'[i] = last /\ trades'[i - 1] = trades[Len(trades)] /\ trades # <<>>
        BY <1>1, <2>1, <2>4, <3>2
      <4> QED BY <2>1, <2>2, <4>1 DEF CooldownSeparatesTrades
    <3> QED BY <1>1, <2>3, <3>1, <3>2
  <2> QED BY <2>2, <2>4 DEF CooldownSeparatesTrades
<1>4. CASE EntryMade
  <2>1. PICK o \in Orders : BuyVerdict(o).decision = "APPROVED" BY <1>4 DEF EntryMade
  <2>2. SinceExit = NoPrice \/ ~(SinceExit < Cooldown) BY <2>1, ApprovedEntry
  <2>3. trades' = trades /\ position'.since = index BY <1>4 DEF EntryMade
  <2>4. ASSUME trades # <<>>
        PROVE  (index - trades[Len(trades)].to) * BarSeconds >= Cooldown
    <3>1. trades[Len(trades)] \in TradeType BY <1>1, <2>4
    <3>2. trades[Len(trades)].to \in Int /\ index \in Int
      BY <3>1 DEF TradeType, Inv, TypeOK
    <3>3. SinceExit = (index - trades[Len(trades)].to) * BarSeconds
      BY <2>4 DEF SinceExit
    <3>4. SinceExit \in Int /\ Cooldown \in Int
      <4>1. BarSeconds \in Int BY BacktestAssumption
      <4>2. index - trades[Len(trades)].to \in Int BY <3>2
      <4> QED BY <3>3, <4>1, <4>2, RiskAssumption
    <3>5. SinceExit # NoPrice BY <3>4, FillsAssumption
    <3> QED BY <2>2, <3>3, <3>4, <3>5
  <2> QED BY <2>3, <2>4 DEF CooldownSeparatesTrades
<1> QED BY <1>2, <1>3, <1>4, PositionStep

\* No entry of any replay comes sooner after the exit before it than the
\* cooldown, whichever of the four exits that was (evaluate through
\* seconds_since_last_exit, simulator.py:225).
THEOREM CooldownAlwaysSeparates == Spec => []CooldownSeparatesTrades
<1>1. Init => CooldownSeparatesTrades
  BY DEF Init, CooldownSeparatesTrades, Holding
<1> QED BY <1>1, CooldownStep, InvHolds, PTL DEF Spec

\* The last of some trades is one of them, or none.
LEMMA LastOf ==
  ASSUME NEW n \in Nat, NEW W, W \subseteq 1..n
  PROVE  Max({0} \cup W) \in {0} \cup W
<1> DEFINE T == {0} \cup W
           U == {u \in 0..n : \A k \in T : k <= u}
<1>1. U \subseteq Nat /\ n \in U OBVIOUS
<1>2. PICK u \in U : \A v \in U : u <= v
  <2> HIDE DEF U
  <2> QED BY <1>1, LeastElement
<1>3. u \in T
  <2> SUFFICES ASSUME u \notin T PROVE FALSE OBVIOUS
  <2>1. u \in Nat /\ u # 0 /\ \A k \in T : k <= u BY <1>2
  <2>2. u - 1 \in U
    <3>1. ASSUME NEW k \in T PROVE k <= u - 1 BY <2>1, <1>2
    <3> QED BY <2>1, <1>2, <3>1
  <2> QED BY <1>2, <2>1, <2>2
<1>4. \E x \in T : \A y \in T : x >= y BY <1>2, <1>3
<1> QED BY <1>4 DEF Max

\* No replay trades again once its last MaxConsecutiveLosses trades all lost:
\* only a trade could end the streak, and the streak forbids it
\* (_check_account_halts through consecutive_losses, portfolio.py:235).
THEOREM StreakHaltsForGood == Spec => HaltedForGood
<1> DEFINE Losing == \A i \in Len(trades) - MaxConsecutiveLosses + 1 .. Len(trades) :
                       trades[i].net <= 0
           W == {i \in DOMAIN trades : trades[i].net > 0}
<1>1. ASSUME Inv, [Next]_vars, ~Holding, Len(trades) >= MaxConsecutiveLosses, Losing
      PROVE  UNCHANGED position
  <2>1. trades \in Seq(TradeType) /\ MaxConsecutiveLosses \in Nat \ {0}
    BY <1>1, RiskAssumption DEF Inv, TypeOK
  <2>2. Len(trades) \in Nat /\ DOMAIN trades = 1..Len(trades) BY <2>1
  <2>3. ASSUME NEW i \in DOMAIN trades PROVE trades[i].net \in Int
    <3>1. trades[i] \in TradeType BY <2>1, <2>2
    <3> QED BY <3>1 DEF TradeType
  <2>4. \A i \in W : i <= Len(trades) - MaxConsecutiveLosses BY <1>1, <2>1, <2>2, <2>3
  <2>5. W \subseteq 1..Len(trades) BY <2>2
  <2> HIDE DEF W
  <2>6. Max({0} \cup W) \in {0} \cup W BY <2>2, <2>5, LastOf
  <2>7. Max({0} \cup W) \in Int /\ Max({0} \cup W) <= Len(trades) - MaxConsecutiveLosses
    <3>1. ASSUME NEW m \in {0} \cup W PROVE m \in Int /\ m <= Len(trades) - MaxConsecutiveLosses
      <4>1. CASE m = 0 BY <1>1, <2>1, <2>2, <4>1
      <4>2. CASE m \in W BY <2>2, <2>4, <2>5, <4>2
      <4> QED BY <4>1, <4>2
    <3> QED BY <2>6, <3>1
  <2>8. Streak = Len(trades) - Max({0} \cup W) BY DEF Streak, W
  <2>9. Streak >= MaxConsecutiveLosses BY <2>1, <2>2, <2>7, <2>8
  <2>10. ~EntryMade BY <2>9, ApprovedEntry DEF EntryMade
  <2>11. Kept BY <1>1, <2>10, PositionStep DEF Exited
  <2> QED BY <1>1, <2>11 DEF Kept, Holding
<1>2. Inv /\ [Next]_vars =>
        (~Holding /\ Len(trades) >= MaxConsecutiveLosses /\ Losing => UNCHANGED position)
  BY <1>1
<1> QED BY <1>2, InvHolds, PTL DEF Spec, HaltedForGood

-----------------------------------------------------------------------------
(* The peak.                                                               *)

\* Between two bars the equity last recorded is under the peak too, which is
\* what the forced exit, marked at the same close, starts from.
PeakCovers ==
  /\ PeakCoversCurve
  /\ pc = "bar" /\ index > 0 => Equity(balance, position, bar.close) <= peak

\* Selling at a price never returns more than the position is worth at it.
LEMMA CloseAtMost ==
  ASSUME Inv, Holding, NEW ref \in Nat \ {0}, NEW reason, NEW time,
         Close(ref, reason, time, NoPrice)
  PROVE  position' = NoPosition /\ balance' <= Equity(balance, position, ref)
<1> DEFINE fill == SimulateFill(position.quantity, ref, "SELL", NoPrice, NoPrice)
           q    == position.quantity
<1>1. q \in Nat \ {0} BY PositionTypes DEF Inv
<1>2. fill.quantity # 0 BY <1>1, FillWithoutGrid
<1>3. position' = NoPosition /\ balance' = balance + q * fill.price * D - fill.fee
  BY <1>2 DEF Close, PositionPopped
<1>4. NoPrice \in OptInt BY DEF OptInt
<1>5. fill.fee \in Nat /\ fill.price \in Nat BY <1>1, <1>2, <1>4, FillBounds
<1>6. fill.price = ref * (D - Slippage)
  <2>1. fill.quantity # NoFill.quantity BY <1>2 DEF NoFill
  <2> QED BY <1>1, <2>1 DEF SimulateFill, ApplySlippage
<1> DEFINE price == fill.price
           fee   == fill.fee
<1> HIDE DEF fill
<1>7. price <= ref * D
  <2>1. D \in Nat /\ Slippage \in Nat BY FillsAssumption
  <2>2. ref * (D - Slippage) = ref * D - ref * Slippage /\ ref * Slippage \in Nat
    BY <2>1
  <2>3. ref * D \in Nat BY <2>1
  <2> QED BY <1>6, <2>2, <2>3
<1>8. q * price * D <= q * ref * Unit
  <2>1. D \in Nat /\ price \in Nat BY <1>5, UnitType
  <2>2. ref * D - price \in Nat BY <1>7, <2>1
  <2>3. q * (ref * D - price) * D \in Nat
    <3>1. q * (ref * D - price) \in Nat BY <1>1, <2>2
    <3> QED BY <2>1, <3>1
  <2>4. q * (ref * D - price) * D = q * ref * (D * D) - q * price * D
    BY <1>1, <2>1
  <2>5. q * price * D \in Int /\ q * ref * (D * D) \in Int BY <1>1, <2>1
  <2> QED BY <2>3, <2>4, <2>5 DEF Unit
<1>9. q * price * D \in Int /\ q * ref * Unit \in Int
  <2>1. q * price \in Int /\ q * ref \in Int BY <1>1, <1>5
  <2> QED BY <2>1, UnitType
<1>10. balance \in Int BY DEF Inv, TypeOK
<1>11. balance' <= balance + q * ref * Unit
  <2> HIDE DEF q, price, fee
  <2>1. balance' = balance + q * price * D - fee BY <1>3 DEF price, fee, q
  <2>2. fee \in Nat BY <1>5 DEF fee
  <2> QED BY <1>8, <1>9, <1>10, <2>1, <2>2
<1> QED BY <1>3, <1>11 DEF Equity

LEMMA PeakRises ==
  ASSUME peak \in Int, NEW equity \in Int, peak' = PeakWith(equity)
  PROVE  peak' \in Int /\ peak' >= peak /\ peak' >= equity
BY DEF PeakWith

LEMMA PeakStep == Inv /\ Inv' /\ PeakCovers /\ [Next]_vars => PeakCovers'
<1> SUFFICES ASSUME Inv, Inv', PeakCovers, [Next]_vars PROVE PeakCovers' OBVIOUS
<1>1. /\ peak \in Int /\ curve \in Seq(Int) /\ index \in Nat
      /\ \A i \in DOMAIN curve : curve[i] \in Int /\ curve[i] <= peak
  BY DEF Inv, TypeOK, PeakCovers, PeakCoversCurve
<1>2. CASE UNCHANGED vars
  BY <1>2 DEF vars, counts, portfolio, PeakCovers, PeakCoversCurve, Equity
<1>3. ASSUME NEW b \in Bars, NextBar(b) PROVE PeakCovers'
  <2>1. /\ curve' = curve /\ pc' = "strategy"
        /\ peak' = PeakWith(Equity(balance', position', b.close))
    BY <1>3 DEF NextBar, counts
  <2>2. Equity(balance', position', b.close) \in Int
    <3>1. position'.quantity \in Nat BY DEF Inv, TypeOK, PositionType, NoPosition
    <3>2. balance' \in Int /\ b.close \in Nat BY BarTypes DEF Inv, TypeOK
    <3> QED BY <3>1, <3>2, EquityType
  <2>3. peak' \in Int /\ peak' >= peak BY <1>1, <2>1, <2>2, PeakRises
  <2> QED BY <1>1, <2>1, <2>3 DEF PeakCovers, PeakCoversCurve
<1>4. ASSUME Decided, pc' # "bar" PROVE PeakCovers'
  BY <1>4 DEF Decided, PeakCovers, PeakCoversCurve
<1>5. CASE Record
  <2> DEFINE equity == Equity(balance, position, bar.close)
  <2>1. /\ curve' = Append(curve, equity) /\ peak' = PeakWith(equity)
        /\ UNCHANGED <<balance, position, bar>>
    BY <1>5 DEF Record, portfolio
  <2>2. bar \in Bars BY <1>5 DEF Record, Inv, TypeOK, BarsCounted
  <2>3. equity \in Int BY <2>2, EquityNow
  <2>4. equity' = equity BY <2>1 DEF Equity
  <2>5. peak' \in Int /\ peak' >= peak /\ peak' >= equity
    BY <1>1, <2>1, <2>3, PeakRises
  <2> HIDE DEF equity
  <2>6. ASSUME NEW i \in DOMAIN curve' PROVE curve'[i] <= peak'
    <3>1. CASE i \in DOMAIN curve
      <4>1. curve'[i] = curve[i] BY <1>1, <2>1, <2>3, <3>1
      <4> QED BY <1>1, <2>5, <3>1, <4>1
    <3>2. CASE i = Len(curve) + 1
      <4>1. curve'[i] = equity BY <1>1, <2>1, <3>2
      <4> QED BY <2>3, <2>5, <4>1
    <3> QED BY <1>1, <2>1, <2>3, <3>1, <3>2
  <2>7. Equity(balance, position, bar.close)' <= peak'
    BY <2>3, <2>4, <2>5 DEF equity
  <2> QED BY <2>6, <2>7 DEF PeakCovers, PeakCoversCurve
<1>6. CASE Finish
  <2> DEFINE equity == Equity(balance', position', bar.close)
  <2>1. pc = "bar" /\ index = total /\ pc' = "done" /\ peak' = peak
        /\ curve' = [curve EXCEPT ![Len(curve)] = equity]
    BY <1>6 DEF Finish, CurveEnding
  <2>2. index > 0 /\ bar \in Bars BY <2>1 DEF Inv, TypeOK
  <2>3. bar.close \in Nat \ {0} BY <2>2, BarTypes
  <2>4. Equity(balance, position, bar.close) <= peak BY <2>1, <2>2 DEF PeakCovers
  <2>5. equity <= peak /\ equity \in Int
    <3>1. CASE Holding
      <4>1. Close(bar.close, "BACKTEST_END", index, NoPrice) BY <1>6, <3>1 DEF Finish
      <4>2. position' = NoPosition /\ balance' <= Equity(balance, position, bar.close)
        BY <2>3, <3>1, <4>1, CloseAtMost
      <4>3. equity = balance'
        <5>1. position'.quantity = 0 BY <4>2 DEF NoPosition
        <5>2. 0 * bar.close * Unit = 0 BY <2>3, UnitType
        <5>3. balance' \in Int BY DEF Inv, TypeOK
        <5> QED BY <5>1, <5>2, <5>3 DEF Equity
      <4>4. balance' \in Int BY DEF Inv, TypeOK
      <4>5. Equity(balance, position, bar.close) \in Int BY <2>2, EquityNow
      <4> HIDE DEF equity
      <4> QED BY <1>1, <2>4, <4>2, <4>3, <4>4, <4>5
    <3>2. CASE ~Holding
      <4>1. equity = Equity(balance, position, bar.close)
        BY <1>6, <3>2 DEF Finish, portfolio
      <4> QED BY <2>2, <2>4, <4>1, EquityNow
    <3> QED BY <3>1, <3>2
  <2> HIDE DEF equity
  <2>6. ASSUME NEW i \in DOMAIN curve' PROVE curve'[i] <= peak'
    BY <1>1, <2>1, <2>5
  <2> QED BY <2>1, <2>6 DEF PeakCovers, PeakCoversCurve
<1> QED BY <1>2, <1>3, <1>4, <1>5, <1>6
     DEF Next, BarWhileFlat, BarHolds, BarExits, Waits, StrategyExit,
         BuyRejected, Buy, BuyFails, Buys

\* No point of the equity curve of any replay, the last one rewritten by the
\* forced exit included, exceeds the peak the drawdown halt is measured from
\* (update_peak_equity, simulator.py:257).
THEOREM PeakAlwaysCovers == Spec => []PeakCoversCurve
<1>1. Init => PeakCovers BY DEF Init, PeakCovers, PeakCoversCurve
<1>2. PeakCovers => PeakCoversCurve BY DEF PeakCovers
<1> QED BY <1>1, <1>2, PeakStep, InvHolds, PTL DEF Spec

-----------------------------------------------------------------------------
(* The price of an exit.                                                   *)

\* A close that leaves a trade leaves it at the price with slippage.
LEMMA ExitPrice ==
  ASSUME Inv, Holding, NEW ref \in Int, NEW reason, NEW time, NEW step \in OptInt,
         Close(ref, reason, time, step), Len(trades') > Len(trades)
  PROVE  trades'[Len(trades')].exit = ApplySlippage(ref, "SELL")
<1> DEFINE fill == SimulateFill(position.quantity, ref, "SELL", NoPrice, step)
<1>1. trades \in Seq(TradeType) BY DEF Inv, TypeOK
<1>2. fill.quantity # 0
  <2> SUFFICES ASSUME fill.quantity = 0 PROVE FALSE OBVIOUS
  <2>1. trades' = trades BY DEF Close, portfolio
  <2> QED BY <1>1, <2>1
<1>3. trades' = Append(trades, TradeOf(fill, reason, time)) BY <1>2 DEF Close
<1>4. trades'[Len(trades')] = TradeOf(fill, reason, time)
  <2> DEFINE trade == TradeOf(fill, reason, time)
  <2> HIDE DEF trade
  <2> QED BY <1>1, <1>3 DEF trade
<1>5. fill.price = ApplySlippage(ref, "SELL")
  <2>1. fill.quantity # NoFill.quantity BY <1>2 DEF NoFill
  <2> QED BY <2>1 DEF SimulateFill
<1> QED BY <1>4, <1>5 DEF TradeOf

\* Whatever the bar, the stop and the target, a bar that touched the stop known
\* before it exits at that stop, and any other exit is at a target the bar
\* reached (process_bar, simulator.py:239, with exit_reason_for_bar, fills.py:105).
THEOREM BarsNeverFlatter == Spec => BarExitsArePessimistic
<1> DEFINE Exit == trades'[Len(trades')].exit
           Pessimistic ==
             IF bar'.low <= position.stop
             THEN Exit = ApplySlippage(position.stop, "SELL")
             ELSE /\ bar'.high >= position.target
                  /\ Exit = ApplySlippage(position.target, "SELL")
<1>1. ASSUME Inv, [Next]_vars, index' > index, Len(trades') > Len(trades)
      PROVE  Pessimistic
  <2>1. trades \in Seq(TradeType) /\ index \in Int BY <1>1 DEF Inv, TypeOK
  <2>2. trades' # trades BY <1>1, <2>1
  <2>3. ASSUME NEW b \in Bars, BarExits(b) PROVE Pessimistic
    <3> DEFINE ref == IF BarReason(b) = "STOP_LOSS" THEN StopEntering(b) ELSE position.target
    <3>1. /\ Holding /\ BarReason(b) # "NONE" /\ bar' = b
          /\ Close(ref, BarReason(b), index + 1, LotFilters.step)
      BY <2>3 DEF BarExits, NextBar
    <3>2. position.stop \in Int /\ position.target \in Int
      BY <1>1, <3>1, PositionTypes DEF Inv
    <3>3. position.stop # NoPrice /\ position.target # NoPrice
      BY <3>2, FillsAssumption
    <3>4. ref \in Int BY <3>2 DEF StopEntering
    <3>5. LotFilters.step \in OptInt BY BacktestAssumption DEF FilterType
    <3> HIDE DEF ref
    <3>6. Exit = ApplySlippage(ref, "SELL")
      BY <1>1, <3>1, <3>4, <3>5, ExitPrice
    <3> HIDE DEF Exit
    <3>7. CASE b.low <= position.stop
      <4>1. BarReason(b) = "STOP_LOSS"
        BY <3>3, <3>7 DEF BarReason, ExitReason, StopEntering
      <4> QED BY <3>1, <3>6, <3>7, <4>1 DEF ref, StopEntering
    <3>8. CASE ~(b.low <= position.stop)
      <4>1. b.high >= position.target /\ BarReason(b) = "TAKE_PROFIT"
        BY <3>1, <3>3, <3>8 DEF BarReason, ExitReason, StopEntering
      <4> QED BY <3>1, <3>6, <3>8, <4>1 DEF ref
    <3> QED BY <3>7, <3>8
  <2>4. ~UNCHANGED vars BY <2>2 DEF vars, portfolio
  <2>5. \A b \in Bars : ~BarWhileFlat(b) /\ ~BarHolds(b)
    BY <2>2 DEF BarWhileFlat, BarHolds, portfolio
  <2>6. ~Waits /\ ~StrategyExit /\ ~Record /\ ~Finish
    BY <1>1, <2>1 DEF Waits, StrategyExit, Record, Finish, Decided
  <2>7. \A o \in Orders : ~BuyRejected(o) /\ ~Buy(o) /\ ~BuyFails(o)
    BY <1>1, <2>1 DEF BuyRejected, Buy, BuyFails, Buys, Decided
  <2> QED BY <1>1, <2>3, <2>4, <2>5, <2>6, <2>7 DEF Next
<1>2. Inv /\ [Next]_vars =>
        (index' > index /\ Len(trades') > Len(trades) => Pessimistic)
  BY <1>1
<1> QED BY <1>2, InvHolds, PTL DEF Spec, BarExitsArePessimistic

-----------------------------------------------------------------------------
(* The refinement.                                                         *)

Held == [i \in IF Holding THEN {Len(trades) + 1} ELSE {} |-> CostOf(position)]
Results == [i \in DOMAIN trades |-> trades[i].net]

\* What a step does to the account: nothing, an exit or an entry.
AccountStays == UNCHANGED <<balance, Held, Results>>

LEMMA SameAccount ==
  ASSUME UNCHANGED portfolio
  PROVE  AccountStays
BY DEF portfolio, AccountStays, Held, Results, Holding, CostOf

LEMMA CloseOfAccount ==
  ASSUME Inv, Holding, NEW ref \in Int, NEW reason, NEW time \in Nat,
         NEW step \in OptInt, Close(ref, reason, time, step)
  PROVE  AccountStays \/ \E r, t : Closed(r, t)
BY SameAccount, CloseEffect DEF Inv

LEMMA AccountStep ==
  ASSUME Inv, Next
  PROVE  \/ AccountStays
         \/ (Holding /\ \E reason, time : Closed(reason, time))
         \/ (Entered /\ pc = "strategy")
<1>1. ASSUME NEW b \in Bars, BarWhileFlat(b) PROVE AccountStays
  BY <1>1, SameAccount DEF BarWhileFlat
<1>2. ASSUME NEW b \in Bars, BarHolds(b) PROVE AccountStays
  <2>1. position \in PositionType BY <1>2, PositionTypes DEF BarHolds, Inv
  <2>2. /\ position'.quantity = position.quantity /\ position'.entry = position.entry
        /\ position'.fees = position.fees
    BY <1>2, <2>1 DEF BarHolds, PositionType
  <2>3. Holding /\ Holding'
    BY <1>2, <2>1, <2>2 DEF BarHolds, Holding, NoPosition, PositionType
  <2> QED BY <1>2, <2>2, <2>3 DEF BarHolds, AccountStays, Held, Results, CostOf
<1>3. ASSUME NEW b \in Bars, BarExits(b)
      PROVE  AccountStays \/ (Holding /\ \E reason, time : Closed(reason, time))
  <2> DEFINE ref == IF BarReason(b) = "STOP_LOSS" THEN StopEntering(b) ELSE position.target
  <2>1. Holding /\ Close(ref, BarReason(b), index + 1, LotFilters.step)
    BY <1>3 DEF BarExits
  <2>2. ref \in Int BY <2>1, PositionTypes DEF Inv, StopEntering
  <2>3. LotFilters.step \in OptInt /\ index + 1 \in Nat
    BY BacktestAssumption DEF FilterType, Inv, TypeOK
  <2> HIDE DEF ref
  <2>4. AccountStays \/ \E r, t : Closed(r, t)
    BY <2>1, <2>2, <2>3, CloseOfAccount
  <2> QED BY <2>1, <2>4
<1>4. CASE Waits BY <1>4, SameAccount DEF Waits
<1>5. CASE StrategyExit
  <2>1. Holding /\ Close(bar.close, "STRATEGY_EXIT", index, LotFilters.step)
    BY <1>5 DEF StrategyExit
  <2>2. bar.close \in Int /\ index \in Nat
    BY <1>5, BarTypes DEF StrategyExit, Decided, Inv, TypeOK, BarsCounted
  <2>3. LotFilters.step \in OptInt BY BacktestAssumption DEF FilterType
  <2> QED BY <2>1, <2>2, <2>3, CloseOfAccount
<1>6. ASSUME NEW o \in Orders, BuyRejected(o) \/ BuyFails(o) PROVE AccountStays
  BY <1>6, SameAccount DEF BuyRejected, BuyFails
<1>7. ASSUME NEW o \in Orders, Buy(o) PROVE AccountStays \/ (Entered /\ pc = "strategy")
  <2>1. pc = "strategy" BY <1>7 DEF Buy, Buys, Decided
  <2> QED BY <1>7, <2>1, BuyEffect, SameAccount
<1>8. CASE Record BY <1>8, SameAccount DEF Record
<1>9. CASE Finish
  <2>1. CASE Holding
    <3>1. Close(bar.close, "BACKTEST_END", index, NoPrice) BY <1>9, <2>1 DEF Finish
    <3>2. bar \in Bars /\ index \in Nat BY <1>9 DEF Finish, Inv, TypeOK
    <3>3. bar.close \in Int /\ NoPrice \in OptInt BY <3>2, BarTypes DEF OptInt
    <3> QED BY <2>1, <3>1, <3>2, <3>3, CloseOfAccount
  <2>2. CASE ~Holding BY <1>9, <2>2, SameAccount DEF Finish
  <2> QED BY <2>1, <2>2
<1> QED BY <1>1, <1>2, <1>3, <1>4, <1>5, <1>6, <1>7, <1>8, <1>9 DEF Next

LEMMA ClosedIsEnd ==
  ASSUME Inv, Holding, NEW reason, NEW time, Closed(reason, time)
  PROVE  AsLedger!End
<1> DEFINE id == Len(trades) + 1
<1>1. PICK back \in Nat, exit \in Nat :
        /\ balance' = balance + back
        /\ trades' = Append(trades, [from |-> position.since, to |-> time,
                                     reason |-> reason, exit |-> exit,
                                     net |-> back - CostOf(position)])
  BY DEF Closed
<1>2. trades \in Seq(TradeType) /\ balance \in Int BY DEF Inv, TypeOK
<1>3. ~Holding' BY DEF Closed, Holding
<1>4. Held = [i \in {id} |-> CostOf(position)] BY DEF Held
<1>5. Held' = [x \in DOMAIN Held \ {id} |-> Held[x]]
  <2>1. DOMAIN Held \ {id} = {} BY <1>4
  <2> QED BY <1>3, <2>1 DEF Held
<1>6. CostOf(position) \in Int BY PositionTypes, CostOfType DEF Inv
<1>7. balance' - balance - Held[id] = back - CostOf(position)
  <2>1. Held[id] = CostOf(position) BY <1>4
  <2> QED BY <1>1, <1>2, <1>6, <2>1
<1>8. Results' = [y \in DOMAIN Results \cup {id} |->
                    IF y = id THEN balance' - balance - Held[id] ELSE Results[y]]
  <2>1. DOMAIN trades' = DOMAIN trades \cup {id} /\ DOMAIN Results = DOMAIN trades
    BY <1>1, <1>2 DEF Results
  <2>2. \A y \in DOMAIN trades' :
          trades'[y].net = IF y = id THEN back - CostOf(position) ELSE trades[y].net
    BY <1>1, <1>2
  <2> QED BY <1>7, <2>1, <2>2 DEF Results
<1>9. balance' >= balance BY <1>1, <1>2
<1>10. id \in DOMAIN Held BY <1>4
<1> HIDE DEF id
<1> QED BY <1>5, <1>8, <1>9, <1>10 DEF AsLedger!End, AsLedger!With, Held, Results

LEMMA EnteredIsEnter ==
  ASSUME Inv, Entered, pc = "strategy"
  PROVE  AsLedger!Enter
<1> DEFINE id == Len(trades) + 1
<1>1. /\ ~Holding /\ Holding' /\ CostOf(position') \in Nat \ {0}
      /\ balance' = balance - CostOf(position') /\ balance' >= 0
      /\ realised' = realised /\ trades' = trades
  BY DEF Entered
<1>2. trades \in Seq(TradeType) /\ balance \in Int BY DEF Inv, TypeOK
<1>3. id \in 1..MaxBars
  <2>1. Len(trades) <= index - 1 BY <1>1 DEF Inv, BarsCounted, Entries
  <2>2. index <= MaxBars /\ MaxBars \in Nat /\ index \in Nat
    BY BacktestAssumption DEF Inv, TypeOK
  <2> QED BY <1>2, <2>1, <2>2
<1>4. id \notin DOMAIN Held \cup DOMAIN Results
  BY <1>1, <1>2 DEF Held, Results
<1>5. balance' < balance /\ balance - balance' = CostOf(position') BY <1>1, <1>2
<1>6. Held' = [y \in DOMAIN Held \cup {id} |->
                 IF y = id THEN balance - balance' ELSE Held[y]]
  <2>1. DOMAIN Held = {} BY <1>1 DEF Held
  <2>2. Held' = [i \in {id} |-> CostOf(position')] BY <1>1 DEF Held
  <2> HIDE DEF id
  <2> QED BY <1>5, <2>1, <2>2
<1>7. Results' = Results BY <1>1 DEF Results
<1> HIDE DEF id
<1> QED BY <1>1, <1>3, <1>4, <1>5, <1>6, <1>7
     DEF AsLedger!Enter, AsLedger!With, AsLedger!Used, Held, Results

\* The replayed account implements the abstract Ledger, for every candle,
\* strategy, capital, fee, slippage and lot grid: an entry is paid in full and
\* never from money the account does not have, it ends at most once, and what
\* it returned is in the balance (portfolio.py, simulator.py).
THEOREM ReplayImplementsLedger == Spec => ImplementsLedger
<1>1. Init => AsLedger!Init
  <2> SUFFICES ASSUME Init PROVE AsLedger!Init OBVIOUS
  <2>1. ~Holding /\ trades = <<>> BY DEF Init, Holding
  <2>2. Held = [x \in {} |-> 0] /\ Results = [x \in {} |-> 0]
    BY <2>1 DEF Held, Results
  <2> QED BY <2>2 DEF Init, AsLedger!Init, Held, Results
<1>2. Inv /\ [Next]_vars => [AsLedger!Next]_(AsLedger!vars)
  <2> SUFFICES ASSUME Inv, [Next]_vars
               PROVE  AsLedger!Next \/ UNCHANGED AsLedger!vars
    OBVIOUS
  <2>1. CASE UNCHANGED vars
    <3>1. UNCHANGED portfolio BY <2>1 DEF vars
    <3> QED BY <3>1, SameAccount DEF AccountStays, AsLedger!vars, Held, Results
  <2>2. CASE Next
    <3>1. AccountStays => UNCHANGED AsLedger!vars
      BY DEF AccountStays, AsLedger!vars, Held, Results
    <3>2. (Holding /\ \E reason, time : Closed(reason, time)) => AsLedger!Next
      BY ClosedIsEnd DEF AsLedger!Next
    <3>3. (Entered /\ pc = "strategy") => AsLedger!Next
      BY EnteredIsEnter DEF AsLedger!Next
    <3> QED BY <2>2, <3>1, <3>2, <3>3, AccountStep
  <2> QED BY <2>1, <2>2
<1> QED BY <1>1, <1>2, InvHolds, PTL
     DEF Spec, ImplementsLedger, AsLedger!Spec
=============================================================================
