--------------------------- MODULE PositionSizing ---------------------------
(***************************************************************************)
(* Sizing a long entry against the risk caps and the exchange's filters    *)
(* (risk/position_sizing.py).  A quantity is an integer number of grains,  *)
(* the finest amount the model tells apart; step sizes are multiples of    *)
(* it, and the Decimal quotient of the code is rounded down to a grain.    *)
(* The limits are fractions of equity, as numerators over D.               *)
(***************************************************************************)
EXTENDS Fills

CONSTANTS
  MaxRiskPerTrade, MaxPositionSize, MaxAssetExposure, MaxPortfolioExposure

ASSUME SizingAssumption ==
  /\ MaxRiskPerTrade \in 1..D
  /\ MaxPositionSize \in 1..D
  /\ MaxAssetExposure \in 1..D
  /\ MaxPortfolioExposure \in 1..D

FilterType == [step : OptInt, minQty : OptInt, maxQty : OptInt,
               minNotional : OptInt]

\* SymbolFilters() as it is when no exchange metadata is cached.
NoFilters == [step |-> NoPrice, minQty |-> NoPrice, maxQty |-> NoPrice,
              minNotional |-> NoPrice]

RejectSize(code) == [approved |-> FALSE, code |-> code, quantity |-> 0]

Least(a, b) == IF a <= b THEN a ELSE b

\* The tightest of the four notional caps, times D.
CapNotional(equity, available, assetExposure, totalExposure) ==
  Least(Least(equity * MaxPositionSize,
              equity * MaxAssetExposure - D * assetExposure),
        Least(equity * MaxPortfolioExposure - D * totalExposure,
              D * available))

\* Mutant: the lot grid is rounded up.
SizedQuantityRoundedUp(equity, cap, entry, stop, f) ==
  LET byRisk == (equity * MaxRiskPerTrade) \div (D * Unit * (entry - stop))
      q      == Least(byRisk, cap \div (D * Unit * entry))
      step   == IF f.step = NoPrice THEN 1 ELSE f.step
  IN  RoundDownToStep((IF f.maxQty # NoPrice THEN Least(q, f.maxQty) ELSE q)
                        + step - 1, f.step)

\* What the risk budget, the caps and max_qty leave, on the lot grid.
SizedQuantity(equity, cap, entry, stop, f) ==
  LET byRisk == (equity * MaxRiskPerTrade) \div (D * Unit * (entry - stop))
      byCap  == cap \div (D * Unit * entry)
      q      == Least(byRisk, byCap)
  IN  RoundDownToStep(IF f.maxQty # NoPrice THEN Least(q, f.maxQty) ELSE q,
                      f.step)

Notional(q, entry) == q * entry * Unit

EntryFee(q, entry) == q * entry * D * FeeRate

CalculatePositionSize(equity, available, entry, stop, f, assetExposure, totalExposure) ==
  LET cap == CapNotional(equity, available, assetExposure, totalExposure)
      q   == SizedQuantity(equity, cap, entry, stop, f)
  IN  IF equity <= 0 THEN RejectSize("NO_EQUITY")
      ELSE IF entry <= 0 \/ stop = NoPrice THEN RejectSize("NO_STOP_DISTANCE")
      ELSE IF stop >= entry THEN RejectSize("NO_STOP_DISTANCE")
      ELSE IF cap <= 0 \/ q <= 0 THEN RejectSize("TRADE_NOT_ECONOMIC")
      ELSE IF f.minQty # NoPrice /\ q < f.minQty
           THEN RejectSize("BELOW_MIN_QTY")
      ELSE IF f.minNotional # NoPrice /\ Notional(q, entry) < f.minNotional
           THEN RejectSize("BELOW_MIN_NOTIONAL")
      ELSE IF Notional(q, entry) + EntryFee(q, entry) > available
           THEN RejectSize("INSUFFICIENT_BALANCE")
      ELSE IF 2 * D * EntryFee(q, entry) >= equity * MaxRiskPerTrade
           THEN RejectSize("TRADE_NOT_ECONOMIC")
      ELSE [approved |-> TRUE, code |-> "NONE", quantity |-> q]
=============================================================================
