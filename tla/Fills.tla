------------------------------- MODULE Fills -------------------------------
(***************************************************************************)
(* The fill model shared by paper trading and backtesting                  *)
(* (paper_trading/fills.py): slippage, fees, partial fills, exit triggers  *)
(* and the trailing stop.                                                  *)
(*                                                                         *)
(* The code computes in Decimal.  Here every fraction is a numerator over  *)
(* D, a fill price is an integer number of 1/D quote units and an amount   *)
(* of money an integer number of 1/(D*D) quote units, so that slippage and *)
(* fees are exact, as they are in the code.                                *)
(***************************************************************************)
EXTENDS Integers

CONSTANTS
  D,          \* the denominator of every fraction
  FeeRate,    \* fee_rate * D
  Slippage,   \* slippage_bps / BPS * D
  NoPrice     \* a stop, target, distance or filter that is None

ASSUME FillsAssumption ==
  /\ D \in Nat \ {0}
  /\ FeeRate \in 0..D
  /\ Slippage \in 0..(D - 1)
  /\ NoPrice \notin Int

Unit == D * D

OptInt == Int \cup {NoPrice}

RoundDownToStep(q, step) ==
  IF step = NoPrice \/ step <= 0 THEN q ELSE (q \div step) * step

\* The fill price, in 1/D quote units: always against the trader.
ApplySlippage(ref, side) ==
  IF side = "BUY" THEN ref * (D + Slippage) ELSE ref * (D - Slippage)

NoFill == [quantity |-> 0, price |-> 0, fee |-> 0, partial |-> FALSE]

SimulateFill(requested, ref, side, liquidity, step) ==
  LET offered == IF liquidity # NoPrice /\ liquidity < requested
                 THEN liquidity ELSE requested
      q       == RoundDownToStep(offered, step)
      price   == ApplySlippage(ref, side)
  IN  IF requested <= 0 \/ ref <= 0 \/ q <= 0
      THEN NoFill
      ELSE [quantity |-> q, price |-> price, fee |-> q * price * FeeRate,
            partial |-> q < requested]

\* Mutant: a price that only touches the stop does not trigger it.
ExitReasonStrict(high, low, stop, target) ==
  IF stop # NoPrice /\ low < stop THEN "STOP_LOSS"
  ELSE IF target # NoPrice /\ high >= target THEN "TAKE_PROFIT"
  ELSE "NONE"

\* A bar that spans both the stop and the target exits at the stop.
ExitReason(high, low, stop, target) ==
  IF stop # NoPrice /\ low <= stop THEN "STOP_LOSS"
  ELSE IF target # NoPrice /\ high >= target THEN "TAKE_PROFIT"
  ELSE "NONE"

UpdateTrailingStop(stop, high, distance) ==
  IF distance = NoPrice \/ distance <= 0 THEN stop
  ELSE IF stop = NoPrice \/ stop < high - distance THEN high - distance
  ELSE stop
=============================================================================
