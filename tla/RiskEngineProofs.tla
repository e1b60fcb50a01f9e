-------------------------- MODULE RiskEngineProofs --------------------------
(***************************************************************************)
(* What an approval guarantees, for every account, request, set of limits  *)
(* and exchange filter (risk/position_sizing.py, risk/engine.py).          *)
(*                                                                         *)
(* Only the last part is about states, those of Assessment.  The proofs of *)
(* the account and of the backtest use the parts before it: the variable   *)
(* case does not occur in them.                                            *)
(***************************************************************************)
EXTENDS Assessment, FiniteSetTheorems, WellFoundedInduction, TLAPS

-----------------------------------------------------------------------------
(* Induction over the naturals is done by taking the least counterexample, *)
(* which the well-foundedness of < on Nat provides without a schema over   *)
(* predicates.                                                             *)

\* A non-empty set of naturals has a least element.
LEMMA LeastElement ==
  ASSUME NEW T, T \subseteq Nat, T # {}
  PROVE  \E m \in T : \A k \in T : m <= k
<1> DEFINE R == {ss \in Nat \X Nat : ss[1] < ss[2]}
<1>1. IsWellFoundedOn(R, Nat) BY NatLessThanWellFounded DEF OpToRel
<1>2. \A k, m \in T : <<k, m>> \notin R => m <= k OBVIOUS
<1> HIDE DEF R
<1> QED BY <1>1, <1>2, WFMin, Zenon

-----------------------------------------------------------------------------
(* What the fill model returns, for every price, quantity and lot grid.    *)

LEMMA UnitType == Unit \in Nat \ {0} /\ D \in Nat \ {0}
<1>1. D \in Nat \ {0} BY FillsAssumption
<1>2. D * D \in Nat \ {0} BY <1>1
<1> QED BY <1>1, <1>2 DEF Unit

\* Rounding to the lot grid gives an integer (_round_down_to_step).
LEMMA RoundDownToStepType ==
  ASSUME NEW q \in Int, NEW step \in OptInt
  PROVE  RoundDownToStep(q, step) \in Int
<1>1. CASE step = NoPrice \/ step <= 0 BY <1>1 DEF RoundDownToStep
<1>2. CASE ~(step = NoPrice \/ step <= 0)
  <2>1. step \in Int /\ step > 0 BY <1>2 DEF OptInt
  <2>2. q \div step \in Int BY <2>1
  <2>3. (q \div step) * step \in Int BY <2>1, <2>2
  <2> QED BY <1>2, <2>3 DEF RoundDownToStep
<1> QED BY <1>1, <1>2

LEMMA ApplySlippageType ==
  ASSUME NEW ref \in Int, NEW side
  PROVE  ApplySlippage(ref, side) \in Int
<1>1. D \in Int /\ Slippage \in Int BY FillsAssumption
<1> QED BY <1>1 DEF ApplySlippage

\* The price and the fee of a fill of an integer quantity are integers.
LEMMA FillOfQuantity ==
  ASSUME NEW requested, NEW ref \in Int, NEW side, NEW liquidity, NEW step,
         SimulateFill(requested, ref, side, liquidity, step).quantity \in Int
  PROVE  /\ SimulateFill(requested, ref, side, liquidity, step).price \in Int
         /\ SimulateFill(requested, ref, side, liquidity, step).fee \in Int
<1> DEFINE offered == IF liquidity # NoPrice /\ liquidity < requested
                      THEN liquidity ELSE requested
           q       == RoundDownToStep(offered, step)
           price_  == ApplySlippage(ref, side)
           fill    == [quantity |-> q, price |-> price_, fee |-> q * price_ * FeeRate,
                       partial |-> q < requested]
           none    == requested <= 0 \/ ref <= 0 \/ q <= 0
<1>1. SimulateFill(requested, ref, side, liquidity, step)
        = IF none THEN NoFill ELSE fill
  BY DEF SimulateFill
<1>2. price_ \in Int BY ApplySlippageType
<1>3. FeeRate \in Int BY FillsAssumption
<1>4. CASE none BY <1>1, <1>4 DEF NoFill
<1>5. CASE ~none
  <2> HIDE DEF q, price_, none
  <2>1. q \in Int BY <1>1, <1>5
  <2>2. q * price_ * FeeRate \in Int BY <2>1, <1>2, <1>3
  <2> QED BY <1>1, <1>2, <1>5, <2>2
<1> QED BY <1>4, <1>5

\* An entry of a positive quantity is bought at a positive price.
LEMMA FillPositive ==
  ASSUME NEW requested, NEW ref \in Int, NEW liquidity, NEW step,
         SimulateFill(requested, ref, "BUY", liquidity, step).quantity \in Nat \ {0}
  PROVE  /\ SimulateFill(requested, ref, "BUY", liquidity, step).price \in Nat \ {0}
         /\ SimulateFill(requested, ref, "BUY", liquidity, step).fee \in Nat
<1> DEFINE offered == IF liquidity # NoPrice /\ liquidity < requested
                      THEN liquidity ELSE requested
           q       == RoundDownToStep(offered, step)
           cost    == ApplySlippage(ref, "BUY")
           fill    == SimulateFill(requested, ref, "BUY", liquidity, step)
<1>1. /\ ~(requested <= 0 \/ ref <= 0 \/ q <= 0)
      /\ fill = [quantity |-> q, price |-> cost, fee |-> q * cost * FeeRate,
                 partial |-> q < requested]
  BY DEF SimulateFill, NoFill
<1>2. q \in Nat \ {0} /\ ref \in Nat \ {0} BY <1>1
<1>3. cost \in Nat \ {0}
  <2>1. D + Slippage \in Nat \ {0} BY FillsAssumption
  <2>2. \A a, b \in Nat \ {0} : a * b \in Nat \ {0} OBVIOUS
  <2> QED BY <1>2, <2>1, <2>2 DEF ApplySlippage
<1> HIDE DEF q, cost
<1>4. q * cost * FeeRate \in Nat
  <2>1. \A a, b \in Nat : a * b \in Nat OBVIOUS
  <2>2. FeeRate \in Nat BY FillsAssumption
  <2> QED BY <1>2, <1>3, <2>1, <2>2
<1> QED BY <1>1, <1>3, <1>4

\* So are all three when an integer quantity is asked for.
LEMMA FillType ==
  ASSUME NEW requested \in Int, NEW ref \in Int, NEW side, NEW step \in OptInt
  PROVE  LET fill == SimulateFill(requested, ref, side, NoPrice, step)
         IN  fill.quantity \in Int /\ fill.price \in Int /\ fill.fee \in Int
<1> DEFINE fill == SimulateFill(requested, ref, side, NoPrice, step)
<1>1. fill.quantity \in Int
  <2>1. RoundDownToStep(requested, step) \in Int BY RoundDownToStepType
  <2> QED BY <2>1 DEF SimulateFill, NoFill
<1> QED BY <1>1, FillOfQuantity

\* Rounding to the lot grid never gains.
LEMMA RoundDownToStepBounds ==
  ASSUME NEW q \in Nat, NEW step \in OptInt
  PROVE  RoundDownToStep(q, step) \in 0..q
<1>1. CASE step = NoPrice \/ step <= 0 BY <1>1 DEF RoundDownToStep
<1>2. CASE ~(step = NoPrice \/ step <= 0)
  <2>1. step \in Int /\ step > 0 BY <1>2 DEF OptInt
  <2>2. q \div step \in Nat /\ (q \div step) * step <= q BY <2>1
  <2>3. (q \div step) * step \in Nat BY <2>1, <2>2
  <2> QED BY <1>2, <2>2, <2>3 DEF RoundDownToStep
<1> QED BY <1>1, <1>2

\* A fill that is not empty has a positive price, no more than was asked for,
\* and a fee no larger than what the whole quantity is worth.
LEMMA FillBounds ==
  ASSUME NEW requested \in Nat \ {0}, NEW ref \in Int,
         NEW side \in {"BUY", "SELL"}, NEW step \in OptInt,
         SimulateFill(requested, ref, side, NoPrice, step).quantity # 0
  PROVE  LET fill == SimulateFill(requested, ref, side, NoPrice, step)
         IN  /\ fill.quantity \in 1..requested
             /\ fill.price \in Nat \ {0}
             /\ fill.fee \in Nat
             /\ fill.fee <= requested * fill.price * D
<1> DEFINE fill == SimulateFill(requested, ref, side, NoPrice, step)
           q    == RoundDownToStep(requested, step)
           cost == ApplySlippage(ref, side)
<1>1. /\ ~(requested <= 0 \/ ref <= 0 \/ q <= 0)
      /\ fill = [quantity |-> q, price |-> cost, fee |-> q * cost * FeeRate,
                 partial |-> q < requested]
  BY DEF SimulateFill, NoFill
<1>2. q \in 1..requested
  <2>1. q \in 0..requested BY RoundDownToStepBounds
  <2> HIDE DEF q
  <2> QED BY <1>1, <2>1
<1>3. cost \in Nat \ {0}
  <2>1. ref \in Nat \ {0} BY <1>1
  <2>2. D + Slippage \in Nat \ {0} /\ D - Slippage \in Nat \ {0} BY FillsAssumption
  <2>3. \A a, b \in Nat \ {0} : a * b \in Nat \ {0} OBVIOUS
  <2> QED BY <2>1, <2>2, <2>3 DEF ApplySlippage
<1>4. \A a, b, x, y \in Nat : a <= b /\ x <= y => a * x <= b * y
  <2> SUFFICES ASSUME NEW a \in Nat, NEW b \in Nat, NEW x \in Nat, NEW y \in Nat,
                      a <= b, x <= y
               PROVE  a * x <= b * y
    OBVIOUS
  <2>1. a * x <= b * x OBVIOUS
  <2>2. b * x <= b * y OBVIOUS
  <2> QED BY <2>1, <2>2
<1>5. q * cost * FeeRate \in Nat /\ q * cost * FeeRate <= requested * cost * D
  <2> HIDE DEF q, cost
  <2>1. q * cost \in Nat /\ requested * cost \in Nat BY <1>2, <1>3
  <2>2. q * cost <= requested * cost BY <1>2, <1>3, <1>4
  <2>3. FeeRate \in Nat /\ D \in Nat /\ FeeRate <= D BY FillsAssumption
  <2>4. q * cost * FeeRate \in Nat BY <2>1, <2>3
  <2> QED BY <1>4, <2>1, <2>2, <2>3, <2>4
<1> HIDE DEF q, cost
<1> QED BY <1>1, <1>2, <1>3, <1>5

\* Without a lot grid a sale at a positive price is filled whole.
LEMMA FillWithoutGrid ==
  ASSUME NEW requested \in Nat \ {0}, NEW ref \in Nat \ {0}, NEW side
  PROVE  SimulateFill(requested, ref, side, NoPrice, NoPrice).quantity = requested
BY DEF SimulateFill, RoundDownToStep

\* A position that is bought and sold again at no higher a reference price
\* loses at least its fees, whatever the lot grids round the two fills to: the
\* fill model never lends the trader an edge.  The result is the one a close
\* records, for the whole of what was bought.
THEOREM RoundTripNeverGains ==
  ASSUME NEW requested \in Nat \ {0}, NEW bid \in Nat \ {0}, NEW ask \in Nat \ {0},
         bid <= ask, NEW stepIn \in OptInt, NEW stepOut \in OptInt,
         SimulateFill(requested, ask, "BUY", NoPrice, stepIn).quantity # 0
  PROVE  LET bought == SimulateFill(requested, ask, "BUY", NoPrice, stepIn)
             sold   == SimulateFill(bought.quantity, bid, "SELL", NoPrice, stepOut)
         IN  sold.quantity # 0 =>
               (sold.price - bought.price) * bought.quantity * D - bought.fee - sold.fee
                 <= -(bought.fee + sold.fee)
<1> DEFINE bought == SimulateFill(requested, ask, "BUY", NoPrice, stepIn)
           sold   == SimulateFill(bought.quantity, bid, "SELL", NoPrice, stepOut)
           q      == bought.quantity
<1>1. /\ q \in 1..requested /\ bought.price \in Nat \ {0} /\ bought.fee \in Nat
  BY FillBounds
<1>2. SUFFICES ASSUME sold.quantity # 0
               PROVE  (sold.price - bought.price) * q * D - bought.fee - sold.fee
                        <= -(bought.fee + sold.fee)
  OBVIOUS
<1> q \in Nat \ {0} BY <1>1
<1>3. sold.price \in Nat \ {0} /\ sold.fee \in Nat
  <2> HIDE DEF q
  <2>1. q = bought.quantity BY DEF q
  <2> HIDE DEF bought
  <2> QED BY <1>2, <2>1, FillBounds
<1>4. bought.price = ask * (D + Slippage) BY DEF SimulateFill, ApplySlippage, NoFill
<1>5. sold.price = bid * (D - Slippage) BY <1>2 DEF SimulateFill, ApplySlippage, NoFill
<1> HIDE DEF bought, sold, q
<1>6. sold.price <= bought.price
  <2>1. D - Slippage \in Nat /\ D + Slippage \in Nat /\ D - Slippage <= D + Slippage
    BY FillsAssumption
  <2>2. \A a, b, x, y \in Nat : a <= b /\ x <= y => a * x <= b * y
    <3> SUFFICES ASSUME NEW a \in Nat, NEW b \in Nat, NEW x \in Nat, NEW y \in Nat,
                        a <= b, x <= y
                 PROVE  a * x <= b * y
      OBVIOUS
    <3>1. a * x <= b * x OBVIOUS
    <3>2. b * x <= b * y OBVIOUS
    <3> QED BY <3>1, <3>2
  <2> QED BY <1>4, <1>5, <2>1, <2>2
<1>7. (sold.price - bought.price) * q * D <= 0
  <2>1. D \in Nat /\ q \in Nat BY FillsAssumption
  <2>2. \A x \in Int, n \in Nat : x <= 0 => x * n \in Int /\ x * n <= 0 OBVIOUS
  <2>3. sold.price - bought.price \in Int /\ sold.price - bought.price <= 0
    BY <1>1, <1>3, <1>6
  <2> QED BY <2>1, <2>2, <2>3
<1>8. (sold.price - bought.price) * q * D \in Int
  <2>1. D \in Int /\ q \in Int /\ sold.price - bought.price \in Int
    BY <1>1, <1>3, FillsAssumption
  <2>2. \A a, b \in Int : a * b \in Int OBVIOUS
  <2> QED BY <2>1, <2>2
<1> QED BY <1>1, <1>3, <1>7, <1>8 DEF bought, sold, q

-----------------------------------------------------------------------------
(* Sizing and the verdict.                                                 *)

LEMMA LeastType ==
  ASSUME NEW a \in Int, NEW b \in Int
  PROVE  Least(a, b) \in Int /\ Least(a, b) <= a /\ Least(a, b) <= b
BY DEF Least

\* A quantity up to the quotient never takes more than the dividend.
LEMMA WithinQuotient ==
  ASSUME NEW x \in Int, NEW y \in Nat \ {0}, NEW q \in Nat, q <= x \div y
  PROVE  q * y <= x
<1> DEFINE d == x \div y
<1>1. d \in Int /\ d * y <= x OBVIOUS
<1> HIDE DEF d
<1>2. q <= d BY DEF d
<1>3. d >= 0 BY <1>1, <1>2
<1>4. d - q \in Nat BY <1>1, <1>2
<1>5. (d - q) * y \in Nat BY <1>4
<1>6. d * y = q * y + (d - q) * y BY <1>1, <1>4
<1>7. q * y \in Int OBVIOUS
<1> QED BY <1>1, <1>5, <1>6, <1>7

\* A quantity the grid leaves positive is no larger than what was rounded.
LEMMA RoundedWithin ==
  ASSUME NEW q \in Int, NEW step \in OptInt, RoundDownToStep(q, step) > 0
  PROVE  RoundDownToStep(q, step) <= q
<1>1. CASE step = NoPrice \/ step <= 0 BY <1>1 DEF RoundDownToStep
<1>2. CASE ~(step = NoPrice \/ step <= 0)
  <2>1. step \in Int /\ step > 0 BY <1>2 DEF OptInt
  <2>2. (q \div step) * step <= q BY <2>1
  <2> QED BY <1>2, <2>2 DEF RoundDownToStep
<1> QED BY <1>1, <1>2

LEMMA CapNotionalBounds ==
  ASSUME NEW equity \in Int, NEW available \in Int,
         NEW assetExposure \in Int, NEW totalExposure \in Int
  PROVE  LET cap == CapNotional(equity, available, assetExposure, totalExposure)
         IN  /\ cap \in Int
             /\ cap <= equity * MaxPositionSize
             /\ cap <= equity * MaxAssetExposure - D * assetExposure
             /\ cap <= equity * MaxPortfolioExposure - D * totalExposure
             /\ cap <= D * available
<1> DEFINE a == equity * MaxPositionSize
           b == equity * MaxAssetExposure - D * assetExposure
           c == equity * MaxPortfolioExposure - D * totalExposure
           d == D * available
<1>1. D \in Int /\ MaxPositionSize \in Int /\ MaxAssetExposure \in Int
      /\ MaxPortfolioExposure \in Int
  BY FillsAssumption, SizingAssumption
<1>2. a \in Int /\ b \in Int /\ c \in Int /\ d \in Int BY <1>1
<1>3. CapNotional(equity, available, assetExposure, totalExposure)
        = Least(Least(a, b), Least(c, d))
  BY DEF CapNotional
<1> HIDE DEF a, b, c, d
<1>4. Least(Least(a, b), Least(c, d)) \in Int
      /\ Least(Least(a, b), Least(c, d)) <= a /\ Least(Least(a, b), Least(c, d)) <= b
      /\ Least(Least(a, b), Least(c, d)) <= c /\ Least(Least(a, b), Least(c, d)) <= d
  BY <1>2 DEF Least
<1> QED BY <1>3, <1>4 DEF a, b, c, d

\* The sized quantity respects the risk budget, the cap and max_qty.
LEMMA SizedQuantityBounds ==
  ASSUME NEW equity \in Int, NEW cap \in Int, NEW entry \in Nat \ {0},
         NEW stop \in Int, stop < entry, NEW f \in FilterType,
         SizedQuantity(equity, cap, entry, stop, f) > 0
  PROVE  LET q == SizedQuantity(equity, cap, entry, stop, f)
         IN  /\ q \in Nat \ {0}
             /\ q * (D * Unit * (entry - stop)) <= equity * MaxRiskPerTrade
             /\ q * (D * Unit * entry) <= cap
             /\ f.maxQty # NoPrice => q <= f.maxQty
<1> DEFINE risk   == equity * MaxRiskPerTrade
           each   == D * Unit * (entry - stop)
           price  == D * Unit * entry
           byRisk == risk \div each
           byCap  == cap \div price
           least  == Least(byRisk, byCap)
           most   == IF f.maxQty # NoPrice THEN Least(least, f.maxQty) ELSE least
           q      == RoundDownToStep(most, f.step)
<1>1. SizedQuantity(equity, cap, entry, stop, f) = q BY DEF SizedQuantity
<1>2. D * Unit \in Nat \ {0} BY UnitType
<1>3. entry - stop \in Nat \ {0} OBVIOUS
<1>4. \A a, b \in Nat \ {0} : a * b \in Nat \ {0} OBVIOUS
<1>5. each \in Nat \ {0} /\ price \in Nat \ {0} BY <1>2, <1>3, <1>4
<1>6. risk \in Int BY SizingAssumption
<1> HIDE DEF risk, each, price
<1>7. byRisk \in Int /\ byCap \in Int BY <1>5, <1>6
<1> HIDE DEF byRisk, byCap
<1>8. least \in Int /\ least <= byRisk /\ least <= byCap BY <1>7, LeastType
<1> HIDE DEF least
<1>9. f.maxQty \in OptInt /\ f.step \in OptInt BY DEF FilterType
<1>10. most \in Int /\ most <= least /\ (f.maxQty # NoPrice => most <= f.maxQty)
  <2>1. CASE f.maxQty = NoPrice BY <1>8, <2>1
  <2>2. CASE f.maxQty # NoPrice
    <3>1. f.maxQty \in Int BY <1>9, <2>2 DEF OptInt
    <3> QED BY <1>8, <2>2, <3>1, LeastType
  <2> QED BY <2>1, <2>2
<1> HIDE DEF most
<1>11. q \in Int /\ q > 0 /\ q <= most
  BY <1>1, <1>9, <1>10, RoundDownToStepType, RoundedWithin
<1> HIDE DEF q
<1>12. q \in Nat \ {0} /\ q <= byRisk /\ q <= byCap
  BY <1>7, <1>8, <1>10, <1>11
<1>13. q * each <= risk BY <1>5, <1>6, <1>12, WithinQuotient DEF byRisk
<1>14. q * price <= cap BY <1>5, <1>12, WithinQuotient DEF byCap
<1>15. f.maxQty # NoPrice => q <= f.maxQty
  BY <1>9, <1>10, <1>11 DEF OptInt
<1> QED BY <1>1, <1>12, <1>13, <1>14, <1>15 DEF each, risk, price

\* An approved size is positive, risks no more than the budget at the stop,
\* keeps within every exposure cap, obeys the exchange's filters, can be paid
\* with its fee and is worth its fees (calculate_position_size): for every
\* equity, balance, exposure, price, stop and filter, and whatever the limits.
THEOREM ApprovedSizeIsLegal ==
  ASSUME NEW equity \in Int, NEW available \in Int, NEW entry \in Int,
         NEW stop \in OptInt, NEW f \in FilterType,
         NEW assetExposure \in Int, NEW totalExposure \in Int,
         CalculatePositionSize(equity, available, entry, stop, f,
                               assetExposure, totalExposure).approved
  PROVE  LET q == CalculatePositionSize(equity, available, entry, stop, f,
                                        assetExposure, totalExposure).quantity
         IN  /\ q \in Nat \ {0}
             /\ q * (D * Unit * (entry - stop)) <= equity * MaxRiskPerTrade
             /\ D * Notional(q, entry) <= equity * MaxPositionSize
             /\ D * (Notional(q, entry) + assetExposure) <= equity * MaxAssetExposure
             /\ D * (Notional(q, entry) + totalExposure)
                  <= equity * MaxPortfolioExposure
             /\ Notional(q, entry) + EntryFee(q, entry) <= available
             /\ 2 * D * EntryFee(q, entry) < equity * MaxRiskPerTrade
             /\ f.minQty # NoPrice => q >= f.minQty
             /\ f.maxQty # NoPrice => q <= f.maxQty
             /\ f.minNotional # NoPrice => Notional(q, entry) >= f.minNotional
<1> DEFINE cap == CapNotional(equity, available, assetExposure, totalExposure)
           q   == SizedQuantity(equity, cap, entry, stop, f)
           size == CalculatePositionSize(equity, available, entry, stop, f,
                                         assetExposure, totalExposure)
<1>1. /\ ~(equity <= 0) /\ ~(entry <= 0 \/ stop = NoPrice) /\ ~(stop >= entry)
      /\ ~(cap <= 0 \/ q <= 0)
      /\ ~(f.minQty # NoPrice /\ q < f.minQty)
      /\ ~(f.minNotional # NoPrice /\ Notional(q, entry) < f.minNotional)
      /\ ~(Notional(q, entry) + EntryFee(q, entry) > available)
      /\ ~(2 * D * EntryFee(q, entry) >= equity * MaxRiskPerTrade)
      /\ size.quantity = q
  BY DEF CalculatePositionSize, RejectSize
<1> HIDE DEF size
<1>2. entry \in Nat \ {0} /\ stop \in Int /\ stop < entry BY <1>1 DEF OptInt
<1>3. cap \in Int
      /\ cap <= equity * MaxPositionSize
      /\ cap <= equity * MaxAssetExposure - D * assetExposure
      /\ cap <= equity * MaxPortfolioExposure - D * totalExposure
  BY CapNotionalBounds
<1> HIDE DEF cap
<1>a. q \in Int
  <2>1. D * Unit \in Nat \ {0} BY UnitType
  <2>2. \A a, b \in Nat \ {0} : a * b \in Nat \ {0} OBVIOUS
  <2>3. entry - stop \in Nat \ {0} BY <1>2
  <2> DEFINE each == D * Unit * (entry - stop)
             price == D * Unit * entry
             risk == equity * MaxRiskPerTrade
  <2>4. each \in Nat \ {0} /\ price \in Nat \ {0} /\ risk \in Int
    BY <1>2, <2>1, <2>2, <2>3, SizingAssumption
  <2> HIDE DEF each, price, risk
  <2>5. risk \div each \in Int /\ cap \div price \in Int BY <1>3, <2>4
  <2> DEFINE least == Least(risk \div each, cap \div price)
             most  == IF f.maxQty # NoPrice THEN Least(least, f.maxQty) ELSE least
  <2>6. least \in Int BY <2>5, LeastType
  <2> HIDE DEF least
  <2>7. most \in Int BY <2>6, LeastType DEF FilterType, OptInt
  <2>8. f.step \in OptInt BY DEF FilterType
  <2>9. q = RoundDownToStep(most, f.step)
    BY DEF SizedQuantity, most, least, risk, each, price
  <2> HIDE DEF most, q
  <2> QED BY <2>7, <2>8, <2>9, RoundDownToStepType
<1>4. q > 0 BY <1>1, <1>a
<1>5. /\ q \in Nat \ {0}
      /\ q * (D * Unit * (entry - stop)) <= equity * MaxRiskPerTrade
      /\ q * (D * Unit * entry) <= cap
      /\ f.maxQty # NoPrice => q <= f.maxQty
  BY <1>2, <1>3, <1>4, SizedQuantityBounds
<1> HIDE DEF q
<1>6. Notional(q, entry) \in Int /\ q * (D * Unit * entry) = D * Notional(q, entry)
  <2>1. D \in Int /\ Unit \in Int BY UnitType
  <2>2. q * entry \in Int BY <1>5
  <2>3. q * entry * Unit \in Int BY <2>1, <2>2
  <2>4. q * (D * Unit * entry) = D * (q * entry * Unit) BY <1>5, <2>1
  <2> QED BY <2>3, <2>4 DEF Notional
<1>7. EntryFee(q, entry) \in Int
  <2>1. D \in Int /\ FeeRate \in Int BY FillsAssumption
  <2>2. q * entry * D \in Int BY <1>5, <2>1
  <2> QED BY <2>1, <2>2 DEF EntryFee
<1> DEFINE n   == Notional(q, entry)
           fee == EntryFee(q, entry)
           a == equity * MaxPositionSize
           b == equity * MaxAssetExposure
           c == equity * MaxPortfolioExposure
           r == equity * MaxRiskPerTrade
<1>8. /\ a \in Int /\ b \in Int /\ c \in Int /\ r \in Int /\ D \in Int
      /\ D * n \in Int /\ D * assetExposure \in Int /\ D * totalExposure \in Int
      /\ 2 * D * fee \in Int
      /\ D * (n + assetExposure) = D * n + D * assetExposure
      /\ D * (n + totalExposure) = D * n + D * totalExposure
  <2>1. D \in Int /\ MaxPositionSize \in Int /\ MaxAssetExposure \in Int
        /\ MaxPortfolioExposure \in Int /\ MaxRiskPerTrade \in Int
    BY FillsAssumption, SizingAssumption
  <2> QED BY <1>6, <1>7, <2>1
<1>9. D * n <= a /\ D * (n + assetExposure) <= b /\ D * (n + totalExposure) <= c
  <2>1. D * n <= cap BY <1>5, <1>6
  <2>2. cap <= a /\ cap <= b - D * assetExposure /\ cap <= c - D * totalExposure
    BY <1>3
  <2> HIDE DEF a, b, c, n
  <2> QED BY <1>3, <1>8, <2>1, <2>2
<1>10. n + fee <= available /\ 2 * D * fee < r
  <2>1. ~(n + fee > available) /\ ~(2 * D * fee >= r) BY <1>1
  <2> HIDE DEF n, fee, r
  <2>2. n \in Int /\ fee \in Int BY <1>6, <1>7 DEF n, fee
  <2> QED BY <1>8, <2>1, <2>2
<1>11. (f.minQty # NoPrice => q >= f.minQty)
       /\ (f.minNotional # NoPrice => n >= f.minNotional)
  BY <1>1, <1>5, <1>6 DEF FilterType, OptInt
<1>12. CalculatePositionSize(equity, available, entry, stop, f,
                             assetExposure, totalExposure).quantity = q
  BY <1>1 DEF size
<1> QED BY <1>5, <1>9, <1>10, <1>11, <1>12

\* The risk engine approves a quantity only after sizing approved it, and only
\* when no rule objects (evaluate).
LEMMA ApprovedByEveryCheck ==
  ASSUME NEW request, NEW account, NEW system,
         Evaluate(request, account, system).decision = "APPROVED"
  PROVE  LET size == CalculatePositionSize(
                       account.equity, account.available, request.entry,
                       request.stop, request.filters,
                       AssetExposure(account, request.symbol),
                       TotalExposure(account))
         IN  /\ size.approved
             /\ Evaluate(request, account, system).quantity = size.quantity
             /\ CheckSystemHealth(system) = "none"
             /\ CheckAccountHalts(account) = "none"
             /\ CheckTradeConditions(request, account) = "none"
<1> DEFINE size == CalculatePositionSize(
                     account.equity, account.available, request.entry,
                     request.stop, request.filters,
                     AssetExposure(account, request.symbol),
                     TotalExposure(account))
           health == CheckSystemHealth(system)
           halts  == CheckAccountHalts(account)
           reject == CheckTradeConditions(request, account)
           halt   == IF health # "none" THEN health ELSE halts
<1>1. Evaluate(request, account, system)
        = IF halt # "none" THEN Verdict("PAUSED", halt, 0)
          ELSE IF reject # "none" THEN Verdict("REJECTED", reject, 0)
          ELSE IF ~size.approved THEN Verdict("REJECTED", "position_sizing", 0)
          ELSE Verdict("APPROVED", "approved", size.quantity)
  BY DEF Evaluate
<1> HIDE DEF size, health, halts, reject
<1> QED BY <1>1 DEF Verdict, size, health, halts, reject

\* Nothing held, nothing exposed.
LEMMA NoExposure == SumFunction([x \in {} |-> 0]) = 0
<1> DEFINE iter == CHOOSE iter : iter = [s \in SUBSET {} |->
                     IF s = {} THEN 0
                     ELSE LET x == CHOOSE x \in s : TRUE
                          IN  [y \in {} |-> 0][x] + iter[s \ {x}]]
<1>1. iter[{}] = 0
  <2>1. [s \in SUBSET {} |-> 0] = [s \in SUBSET {} |->
                     IF s = {} THEN 0
                     ELSE LET x == CHOOSE x \in s : TRUE
                          IN  [y \in {} |-> 0][x] + [t \in SUBSET {} |-> 0][s \ {x}]]
    OBVIOUS
  <2>2. iter = [s \in SUBSET {} |->
                     IF s = {} THEN 0
                     ELSE LET x == CHOOSE x \in s : TRUE
                          IN  [y \in {} |-> 0][x] + iter[s \ {x}]]
    BY <2>1
  <2> HIDE DEF iter
  <2>3. {} \in SUBSET {} OBVIOUS
  <2> QED BY <2>2, <2>3
<1>2. SumFunction([x \in {} |-> 0]) = iter[{}]
  BY DEF SumFunction, SumFunctionOnSet, FoldFunctionOnSet, MapThenFoldSet
<1> QED BY <1>1, <1>2

-----------------------------------------------------------------------------
(* What an account has at risk: the sum over the symbols it holds.         *)

Picked(t) == CHOOSE x \in t : TRUE

\* The function that sums f over the subsets of a set, as the equation that
\* defines it.
Adds(s, f, sets) ==
  \A t \in sets : s[t] = IF t = {} THEN 0 ELSE f[Picked(t)] + s[t \ {Picked(t)}]

LEMMA WithoutPicked ==
  ASSUME NEW S, IsFiniteSet(S), NEW t \in SUBSET S
  PROVE  /\ Cardinality(t) \in Nat /\ Cardinality(t) <= Cardinality(S)
         /\ Cardinality(t) = 0 <=> t = {}
         /\ t # {} => /\ Picked(t) \in S /\ t \ {Picked(t)} \in SUBSET S
                      /\ Cardinality(t \ {Picked(t)}) = Cardinality(t) - 1
<1>1. IsFiniteSet(t) /\ Cardinality(t) <= Cardinality(S) BY FS_Subset
<1>2. Cardinality(t) \in Nat /\ (Cardinality(t) = 0 <=> t = {})
  BY <1>1, FS_CardinalityType, FS_EmptySet
<1>3. t # {} => Picked(t) \in t BY DEF Picked
<1>4. t # {} => Cardinality(t \ {Picked(t)}) = Cardinality(t) - 1
  BY <1>1, <1>3, FS_RemoveElement
<1> QED BY <1>1, <1>2, <1>3, <1>4

LEMMA AddsExist ==
  ASSUME NEW S, IsFiniteSet(S), NEW f \in [S -> Int]
  PROVE  \E s \in [SUBSET S -> Int] : Adds(s, f, SUBSET S)
<1> DEFINE Small(n) == {t \in SUBSET S : Cardinality(t) <= n}
           T == {n \in Nat : ~ \E s \in [Small(n) -> Int] : Adds(s, f, Small(n))}
<1>1. \A t \in SUBSET S : /\ Cardinality(t) \in Nat /\ Cardinality(t) <= Cardinality(S)
                          /\ Cardinality(t) = 0 <=> t = {}
                          /\ t # {} => /\ Picked(t) \in S /\ t \ {Picked(t)} \in SUBSET S
                                       /\ Cardinality(t \ {Picked(t)}) = Cardinality(t) - 1
  BY WithoutPicked
<1>2. T = {}
  <2> SUFFICES ASSUME T # {} PROVE FALSE OBVIOUS
  <2>1. PICK n \in T : \A k \in T : n <= k
    <3>1. T \subseteq Nat OBVIOUS
    <3> HIDE DEF T
    <3> QED BY <3>1, LeastElement
  <2>2. n # 0
    <3>1. \A t \in Small(0) : t = {}
      <4> SUFFICES ASSUME NEW t \in Small(0) PROVE t = {} OBVIOUS
      <4>1. t \in SUBSET S /\ Cardinality(t) <= 0 OBVIOUS
      <4>2. Cardinality(t) \in Nat /\ (Cardinality(t) = 0 <=> t = {}) BY <1>1, <4>1
      <4> QED BY <4>1, <4>2
    <3>2. [t \in Small(0) |-> 0] \in [Small(0) -> Int] OBVIOUS
    <3>3. Adds([t \in Small(0) |-> 0], f, Small(0)) BY <3>1 DEF Adds
    <3> QED BY <3>2, <3>3
  <2>3. n - 1 \in Nat /\ n - 1 \notin T
    <3>1. n \in Nat OBVIOUS
    <3> HIDE DEF T
    <3> QED BY <2>1, <2>2, <3>1
  <2>4. PICK s \in [Small(n - 1) -> Int] : Adds(s, f, Small(n - 1)) BY <2>3
  <2> DEFINE g == [t \in Small(n) |->
                     IF t = {} THEN 0 ELSE f[Picked(t)] + s[t \ {Picked(t)}]]
  <2>5. ASSUME NEW t \in Small(n), t # {}
        PROVE  /\ t \ {Picked(t)} \in Small(n - 1) /\ t \ {Picked(t)} \in Small(n)
               /\ Picked(t) \in S
    <3>1. t \in SUBSET S /\ Cardinality(t) <= n /\ Cardinality(t) \in Nat BY <1>1
    <3>2. /\ Picked(t) \in S /\ t \ {Picked(t)} \in SUBSET S
          /\ Cardinality(t \ {Picked(t)}) = Cardinality(t) - 1
      BY <1>1, <2>5, <3>1
    <3>3. n \in Nat OBVIOUS
    <3>4. Cardinality(t \ {Picked(t)}) <= n - 1 /\ Cardinality(t \ {Picked(t)}) <= n
      BY <3>1, <3>2, <3>3
    <3> QED BY <3>2, <3>4
  <2>6. g \in [Small(n) -> Int]
    <3>1. ASSUME NEW t \in Small(n), t # {}
          PROVE  f[Picked(t)] + s[t \ {Picked(t)}] \in Int
      <4>1. f[Picked(t)] \in Int BY <2>5, <3>1
      <4>2. s[t \ {Picked(t)}] \in Int BY <2>4, <2>5, <3>1
      <4> QED BY <4>1, <4>2
    <3>2. \A t \in Small(n) :
            (IF t = {} THEN 0 ELSE f[Picked(t)] + s[t \ {Picked(t)}]) \in Int
      BY <3>1
    <3> HIDE DEF Small
    <3> QED BY <3>2, Zenon
  <2>7. Adds(g, f, Small(n))
    <3> SUFFICES ASSUME NEW t \in Small(n), t # {}
                 PROVE  g[t] = f[Picked(t)] + g[t \ {Picked(t)}]
      BY DEF Adds
    <3>1. t \ {Picked(t)} \in Small(n - 1) /\ t \ {Picked(t)} \in Small(n) BY <2>5
    <3> DEFINE u == t \ {Picked(t)}
    <3>2. s[u] = IF u = {} THEN 0 ELSE f[Picked(u)] + s[u \ {Picked(u)}]
      BY <2>4, <3>1 DEF Adds
    <3>3. g[u] = s[u] BY <3>1, <3>2
    <3> QED BY <3>3
  <2> HIDE DEF g
  <2> QED BY <2>1, <2>6, <2>7
<1>3. Cardinality(S) \in Nat BY FS_CardinalityType
<1>4. Small(Cardinality(S)) = SUBSET S BY <1>1
<1>5. \E s \in [Small(Cardinality(S)) -> Int] : Adds(s, f, Small(Cardinality(S)))
  BY <1>2, <1>3
<1> HIDE DEF Small
<1> QED BY <1>4, <1>5

\* Whatever adds up integers is an integer.
LEMMA AddsType ==
  ASSUME NEW S, IsFiniteSet(S), NEW f \in [S -> Int], NEW s, Adds(s, f, SUBSET S),
         NEW v \in SUBSET S
  PROVE  s[v] \in Int
<1> DEFINE T == {n \in Nat : \E u \in SUBSET S : Cardinality(u) = n /\ s[u] \notin Int}
<1> SUFFICES ASSUME s[v] \notin Int PROVE FALSE OBVIOUS
<1>1. T # {}
  <2>1. Cardinality(v) \in Nat BY WithoutPicked
  <2> QED BY <2>1
<1>2. PICK n \in T : \A k \in T : n <= k
  <2>1. T \subseteq Nat OBVIOUS
  <2> HIDE DEF T
  <2> QED BY <1>1, <2>1, LeastElement
<1>3. PICK u \in SUBSET S : Cardinality(u) = n /\ s[u] \notin Int BY <1>2
<1>4. s[u] = IF u = {} THEN 0 ELSE f[Picked(u)] + s[u \ {Picked(u)}]
  BY DEF Adds
<1>5. u # {} BY <1>3, <1>4
<1>6. /\ Picked(u) \in S /\ u \ {Picked(u)} \in SUBSET S
      /\ Cardinality(u \ {Picked(u)}) = n - 1
      /\ Cardinality(u \ {Picked(u)}) \in Nat
  <2>1. /\ Picked(u) \in S /\ u \ {Picked(u)} \in SUBSET S
        /\ Cardinality(u \ {Picked(u)}) = n - 1
    BY <1>3, <1>5, WithoutPicked
  <2>2. PICK w \in SUBSET S : w = u \ {Picked(u)} BY <2>1
  <2>3. Cardinality(w) \in Nat BY WithoutPicked
  <2> QED BY <2>1, <2>2, <2>3
<1>7. n - 1 \notin T
  <2>1. n \in Nat OBVIOUS
  <2> QED BY <1>2, <2>1
<1>8. s[u \ {Picked(u)}] \in Int BY <1>6, <1>7
<1>9. f[Picked(u)] \in Int BY <1>6
<1> QED BY <1>3, <1>4, <1>5, <1>8, <1>9

LEMMA TotalExposureType ==
  ASSUME NEW account, NEW S, IsFiniteSet(S), account.exposure \in [S -> Int]
  PROVE  TotalExposure(account) \in Int
<1> DEFINE f == account.exposure
           iter == CHOOSE iter : iter = [s \in SUBSET S |->
                     IF s = {} THEN 0
                     ELSE LET x == CHOOSE x \in s : TRUE
                          IN  f[x] + iter[s \ {x}]]
<1>1. PICK s \in [SUBSET S -> Int] : Adds(s, f, SUBSET S) BY AddsExist
<1>2. s = [t \in SUBSET S |-> IF t = {} THEN 0
                              ELSE LET x == CHOOSE x \in t : TRUE IN f[x] + s[t \ {x}]]
  BY <1>1 DEF Adds, Picked
<1>3. iter = [t \in SUBSET S |-> IF t = {} THEN 0
                                 ELSE LET x == CHOOSE x \in t : TRUE
                                      IN  f[x] + iter[t \ {x}]]
  BY <1>2
<1>4. Adds(iter, f, SUBSET S) BY <1>3 DEF Adds, Picked
<1>5. TotalExposure(account) = iter[S]
  BY DEF TotalExposure, SumFunction, SumFunctionOnSet, FoldFunctionOnSet, MapThenFoldSet
<1> HIDE DEF iter
<1>6. iter[S] \in Int BY <1>4, AddsType
<1> QED BY <1>5, <1>6

-----------------------------------------------------------------------------
(* No larger quantity on the lot grid would do.                            *)

LotOf(step) == IF step = NoPrice \/ step <= 0 THEN 1 ELSE step

\* A quantity that takes no more than the dividend is up to the quotient.
LEMMA UpToQuotient ==
  ASSUME NEW x \in Int, NEW y \in Nat \ {0}, NEW z \in Int, z * y <= x
  PROVE  z <= x \div y
<1> DEFINE d == x \div y
<1>1. d \in Int /\ x < d * y + y OBVIOUS
<1> HIDE DEF d
<1> SUFFICES ASSUME z > d PROVE FALSE BY <1>1 DEF d
<1>2. PICK e \in Nat : e = z - d - 1 BY <1>1
<1>3. e * y \in Nat OBVIOUS
<1>4. d * y \in Int BY <1>1
<1>5. z * y = d * y + y + e * y
  <2>1. z = d + 1 + e BY <1>1, <1>2
  <2> QED BY <1>1, <2>1
<1> QED BY <1>1, <1>3, <1>4, <1>5

\* A multiple leaves no remainder.
LEMMA MultipleHasNoRemainder ==
  ASSUME NEW k \in Int, NEW y \in Nat \ {0}, NEW x \in Int, x = k * y
  PROVE  x % y = 0
<1>1. PICK d \in Int : d = x \div y OBVIOUS
<1>2. PICK r \in 0..(y - 1) : r = x % y OBVIOUS
<1>3. x = d * y + r BY <1>1, <1>2
<1>4. PICK e \in Int : e = k - d BY <1>1
<1>5. e * y = r
  <2>1. k = d + e BY <1>1, <1>4
  <2>2. d * y \in Int /\ e * y \in Int BY <1>1, <1>4
  <2>3. k * y = d * y + e * y BY <1>1, <1>4, <2>1
  <2> QED BY <1>2, <1>3, <2>2, <2>3
<1>6. CASE e >= 1
  <2>1. (e - 1) * y \in Nat BY <1>4, <1>6
  <2>2. e * y = (e - 1) * y + y BY <1>4
  <2>3. e * y \in Int BY <1>4
  <2> QED BY <1>2, <1>5, <2>1, <2>2, <2>3
<1>7. CASE e <= -1
  <2>1. (0 - e - 1) * y \in Nat BY <1>4, <1>7
  <2>2. e * y = 0 - (0 - e - 1) * y - y BY <1>4
  <2>3. e * y \in Int BY <1>4
  <2> QED BY <1>2, <1>5, <2>1, <2>2, <2>3
<1>8. CASE e = 0 BY <1>2, <1>5, <1>8
<1> QED BY <1>4, <1>6, <1>7, <1>8

\* Rounding down leaves less than one step (_round_down_to_step).
LEMMA RoundedToGrid ==
  ASSUME NEW q \in Int, NEW step \in OptInt
  PROVE  /\ LotOf(step) \in Nat \ {0}
         /\ RoundDownToStep(q, step) % LotOf(step) = 0
         /\ q < RoundDownToStep(q, step) + LotOf(step)
<1>1. CASE step = NoPrice \/ step <= 0
  <2>1. RoundDownToStep(q, step) = q /\ LotOf(step) = 1
    BY <1>1 DEF RoundDownToStep, LotOf
  <2> QED BY <2>1
<1>2. CASE ~(step = NoPrice \/ step <= 0)
  <2>1. step \in Nat \ {0} BY <1>2 DEF OptInt
  <2>2. PICK d \in Int : d = q \div step BY <2>1
  <2>3. q < d * step + step BY <2>1, <2>2
  <2>4. PICK r \in Int : r = d * step BY <2>1
  <2>5. r % step = 0 BY <2>1, <2>4, MultipleHasNoRemainder
  <2>6. RoundDownToStep(q, step) = r /\ LotOf(step) = step
    BY <1>2, <2>2, <2>4 DEF RoundDownToStep, LotOf
  <2> QED BY <2>1, <2>3, <2>4, <2>5, <2>6
<1> QED BY <1>1, <1>2

\* The sized quantity is on the grid, and one lot more would break the risk
\* budget, the cap or max_qty.
LEMMA SizedQuantityIsLargest ==
  ASSUME NEW equity \in Int, NEW cap \in Int, NEW entry \in Nat \ {0},
         NEW stop \in Int, stop < entry, NEW f \in FilterType,
         SizedQuantity(equity, cap, entry, stop, f) > 0
  PROVE  LET q    == SizedQuantity(equity, cap, entry, stop, f)
             more == q + LotOf(f.step)
         IN  /\ q % LotOf(f.step) = 0
             /\ more \in Nat
             /\ ~ /\ more * (D * Unit * (entry - stop)) <= equity * MaxRiskPerTrade
                  /\ more * (D * Unit * entry) <= cap
                  /\ f.maxQty = NoPrice \/ more <= f.maxQty
<1> DEFINE risk   == equity * MaxRiskPerTrade
           each   == D * Unit * (entry - stop)
           price  == D * Unit * entry
           byRisk == risk \div each
           byCap  == cap \div price
           least  == Least(byRisk, byCap)
           most   == IF f.maxQty # NoPrice THEN Least(least, f.maxQty) ELSE least
           q      == RoundDownToStep(most, f.step)
           lot    == LotOf(f.step)
<1>1. SizedQuantity(equity, cap, entry, stop, f) = q BY DEF SizedQuantity
<1>2. D * Unit \in Nat \ {0} BY UnitType
<1>3. entry - stop \in Nat \ {0} OBVIOUS
<1>4. \A a, b \in Nat \ {0} : a * b \in Nat \ {0} OBVIOUS
<1>5. each \in Nat \ {0} /\ price \in Nat \ {0} BY <1>2, <1>3, <1>4
<1>6. risk \in Int BY SizingAssumption
<1> HIDE DEF risk, each, price
<1>7. byRisk \in Int /\ byCap \in Int BY <1>5, <1>6
<1>8. f.maxQty \in OptInt /\ f.step \in OptInt BY DEF FilterType
<1> HIDE DEF byRisk, byCap
<1>9. most \in Int BY <1>7, <1>8 DEF Least, OptInt
<1>10. \A z \in Int : /\ z <= byRisk /\ z <= byCap
                      /\ f.maxQty = NoPrice \/ z <= f.maxQty
                      => z <= most
  BY <1>7, <1>8 DEF Least, OptInt
<1> HIDE DEF most
<1>11. q \in Int BY <1>8, <1>9, RoundDownToStepType
<1>12. lot \in Nat \ {0} /\ q % lot = 0 /\ most < q + lot
  BY <1>8, <1>9, RoundedToGrid
<1> HIDE DEF q, lot
<1>13. PICK z \in Int : z = q + lot BY <1>11, <1>12
<1>14. z \in Nat
  <2>1. q > 0 BY <1>1
  <2> QED BY <1>11, <1>12, <1>13, <2>1
<1>15. ASSUME z * each <= risk, z * price <= cap, f.maxQty = NoPrice \/ z <= f.maxQty
       PROVE  FALSE
  <2>1. z <= byRisk BY <1>5, <1>6, <1>15, UpToQuotient DEF byRisk
  <2>2. z <= byCap BY <1>5, <1>15, UpToQuotient DEF byCap
  <2>3. z <= most BY <1>10, <1>15, <2>1, <2>2
  <2> QED BY <1>9, <1>12, <1>13, <2>3
<1> QED BY <1>1, <1>12, <1>13, <1>14, <1>15 DEF risk, each, price, lot

\* A notional within each of the four caps is within the tightest.
LEMMA WithinEveryCap ==
  ASSUME NEW equity \in Int, NEW available \in Int, NEW n \in Int,
         NEW assetExposure \in Int, NEW totalExposure \in Int,
         D * n <= equity * MaxPositionSize,
         D * (n + assetExposure) <= equity * MaxAssetExposure,
         D * (n + totalExposure) <= equity * MaxPortfolioExposure,
         n <= available
  PROVE  D * n <= CapNotional(equity, available, assetExposure, totalExposure)
<1>1. D \in Nat \ {0} BY UnitType
<1>2. PICK a \in Int : a = equity * MaxPositionSize BY SizingAssumption
<1>3. PICK b \in Int : b = equity * MaxAssetExposure - D * assetExposure
  BY <1>1, SizingAssumption
<1>4. PICK c \in Int : c = equity * MaxPortfolioExposure - D * totalExposure
  BY <1>1, SizingAssumption
<1>5. PICK d \in Int : d = D * available BY <1>1
<1>6. PICK v \in Int : v = D * n BY <1>1
<1>7. v <= a BY <1>2, <1>6
<1>8. v <= b
  <2>1. D * (n + assetExposure) = D * n + D * assetExposure BY <1>1
  <2>2. equity * MaxAssetExposure \in Int /\ D * assetExposure \in Int
    BY <1>1, SizingAssumption
  <2> QED BY <1>3, <1>6, <2>1, <2>2
<1>9. v <= c
  <2>1. D * (n + totalExposure) = D * n + D * totalExposure BY <1>1
  <2>2. equity * MaxPortfolioExposure \in Int /\ D * totalExposure \in Int
    BY <1>1, SizingAssumption
  <2> QED BY <1>4, <1>6, <2>1, <2>2
<1>10. v <= d
  <2>1. (available - n) * D \in Nat BY <1>1
  <2>2. D * available = D * n + (available - n) * D BY <1>1
  <2> QED BY <1>5, <1>6, <2>1, <2>2
<1>11. CapNotional(equity, available, assetExposure, totalExposure)
         = Least(Least(a, b), Least(c, d))
  BY <1>2, <1>3, <1>4, <1>5 DEF CapNotional
<1>12. v <= Least(Least(a, b), Least(c, d))
  BY <1>7, <1>8, <1>9, <1>10 DEF Least
<1> QED BY <1>6, <1>11, <1>12

\* An approved size is on the lot grid and one more lot would break a cap.
LEMMA ApprovedSizeIsLargest ==
  ASSUME NEW equity \in Int, NEW available \in Int, NEW entry \in Int,
         NEW stop \in OptInt, NEW f \in FilterType,
         NEW assetExposure \in Int, NEW totalExposure \in Int,
         CalculatePositionSize(equity, available, entry, stop, f,
                               assetExposure, totalExposure).approved
  PROVE  LET q    == CalculatePositionSize(equity, available, entry, stop, f,
                                           assetExposure, totalExposure).quantity
             more == q + LotOf(f.step)
             n    == Notional(more, entry)
         IN  /\ q % LotOf(f.step) = 0
             /\ ~ /\ more * (D * Unit * (entry - stop)) <= equity * MaxRiskPerTrade
                  /\ D * n <= equity * MaxPositionSize
                  /\ D * (n + assetExposure) <= equity * MaxAssetExposure
                  /\ D * (n + totalExposure) <= equity * MaxPortfolioExposure
                  /\ n <= available
                  /\ f.maxQty = NoPrice \/ more <= f.maxQty
<1> DEFINE cap == CapNotional(equity, available, assetExposure, totalExposure)
           q   == SizedQuantity(equity, cap, entry, stop, f)
           size == CalculatePositionSize(equity, available, entry, stop, f,
                                         assetExposure, totalExposure)
           more == q + LotOf(f.step)
           n    == Notional(more, entry)
<1>1. /\ ~(entry <= 0 \/ stop = NoPrice) /\ ~(stop >= entry)
      /\ size.quantity = q
  BY DEF CalculatePositionSize, RejectSize
<1>2. size.quantity \in Nat \ {0} BY ApprovedSizeIsLegal
<1>3. entry \in Nat \ {0} /\ stop \in Int /\ stop < entry BY <1>1 DEF OptInt
<1>4. cap \in Int BY CapNotionalBounds
<1> HIDE DEF size, cap
<1>5. q > 0 BY <1>1, <1>2
<1>6. /\ q % LotOf(f.step) = 0 /\ more \in Nat
      /\ ~ /\ more * (D * Unit * (entry - stop)) <= equity * MaxRiskPerTrade
           /\ more * (D * Unit * entry) <= cap
           /\ f.maxQty = NoPrice \/ more <= f.maxQty
  BY <1>3, <1>4, <1>5, SizedQuantityIsLargest
<1> HIDE DEF q, more
<1>7. n \in Int /\ more * (D * Unit * entry) = D * n
  <2>1. D \in Int /\ Unit \in Int BY UnitType
  <2>2. more * entry \in Int BY <1>6
  <2>3. more * entry * Unit \in Int BY <2>1, <2>2
  <2>4. more * (D * Unit * entry) = D * (more * entry * Unit) BY <1>6, <2>1
  <2> QED BY <2>3, <2>4 DEF Notional
<1> HIDE DEF n
<1>8. ASSUME /\ D * n <= equity * MaxPositionSize
             /\ D * (n + assetExposure) <= equity * MaxAssetExposure
             /\ D * (n + totalExposure) <= equity * MaxPortfolioExposure
             /\ n <= available
      PROVE  more * (D * Unit * entry) <= cap
  BY <1>7, <1>8, WithinEveryCap DEF cap
<1> QED BY <1>1, <1>6, <1>8 DEF size, more, n

-----------------------------------------------------------------------------
(* What a verdict promises: the properties of Assessment.                  *)

\* A case before the decision and after it.
CaseOK ==
  /\ DOMAIN case = {"account", "request", "system", "verdict"}
  /\ IsAccount(case.account) /\ IsRequest(case.request)
  /\ case.verdict \in {NoVerdict, Evaluate(case.request, case.account, case.system)}

LEMMA CaseStaysOK == AssessmentSpec => []CaseOK
<1>1. Asked => CaseOK BY DEF Asked, CaseOK
<1>2. CaseOK /\ [Decide]_case => CaseOK'
  <2>1. ASSUME CaseOK, Decide PROVE CaseOK'
    <3>1. /\ case'.account = case.account /\ case'.request = case.request
          /\ case'.system = case.system /\ DOMAIN case' = DOMAIN case
          /\ case'.verdict = Evaluate(case.request, case.account, case.system)
      BY <2>1 DEF Decide, CaseOK
    <3> QED BY <2>1, <3>1 DEF CaseOK, IsAccount, IsRequest
  <2>2. ASSUME CaseOK, UNCHANGED case PROVE CaseOK'
    BY <2>2 DEF CaseOK, IsAccount, IsRequest
  <2> QED BY <2>1, <2>2
<1> QED BY <1>1, <1>2, PTL DEF AssessmentSpec

\* What an approval says of the request and the account it was given for.
LEMMA ApprovedAssessment ==
  ASSUME CaseOK, Approved
  PROVE  LET size == CalculatePositionSize(
                       case.account.equity, case.account.available, case.request.entry,
                       case.request.stop, case.request.filters,
                       AssetExposure(case.account, case.request.symbol),
                       TotalExposure(case.account))
         IN  /\ size.approved /\ case.verdict.quantity = size.quantity
             /\ AssetExposure(case.account, case.request.symbol) \in Int
             /\ TotalExposure(case.account) \in Int
<1>1. case.verdict.decision = "APPROVED" BY DEF Approved
<1>2. case.verdict = Evaluate(case.request, case.account, case.system)
  <2>1. case.verdict # NoVerdict BY <1>1 DEF NoVerdict, Verdict
  <2> QED BY <2>1 DEF CaseOK
<1>3. Evaluate(case.request, case.account, case.system).decision = "APPROVED" BY <1>1, <1>2
<1>4. TotalExposure(case.account) \in Int BY TotalExposureType DEF CaseOK, IsAccount
<1>5. AssetExposure(case.account, case.request.symbol) \in Int
  BY DEF CaseOK, IsAccount, AssetExposure
<1> QED BY <1>2, <1>3, <1>4, <1>5, ApprovedByEveryCheck

LEMMA LargestLegalCase == CaseOK => SizeIsLargestLegal
<1> SUFFICES ASSUME CaseOK, Approved
             PROVE  SizeIsLargestLegal
  BY DEF SizeIsLargestLegal
<1>1. /\ case.account.equity \in Int /\ case.account.available \in Int
      /\ case.request.entry \in Int /\ case.request.stop \in OptInt
      /\ case.request.filters \in FilterType
  BY DEF CaseOK, IsAccount, IsRequest
<1>2. PICK f \in FilterType : f = case.request.filters BY <1>1
<1>3. PICK equity \in Int, available \in Int, entry \in Int, stop \in OptInt :
        /\ equity = case.account.equity /\ available = case.account.available
        /\ entry = case.request.entry /\ stop = case.request.stop
  BY <1>1
<1>4. PICK asset \in Int, total \in Int :
        /\ asset = AssetExposure(case.account, case.request.symbol)
        /\ total = TotalExposure(case.account)
  BY ApprovedAssessment
<1>5. PICK size : size = CalculatePositionSize(equity, available, entry, stop, f,
                                               asset, total)
  OBVIOUS
<1>6. size.approved /\ case.verdict.quantity = size.quantity
  BY <1>2, <1>3, <1>4, <1>5, ApprovedAssessment
<1>7. PICK q \in Nat \ {0} :
        /\ q = case.verdict.quantity
        /\ q * (D * Unit * (entry - stop)) <= equity * MaxRiskPerTrade
        /\ D * Notional(q, entry) <= equity * MaxPositionSize
        /\ D * (Notional(q, entry) + asset) <= equity * MaxAssetExposure
        /\ D * (Notional(q, entry) + total) <= equity * MaxPortfolioExposure
        /\ Notional(q, entry) + EntryFee(q, entry) <= available
        /\ f.maxQty # NoPrice => q <= f.maxQty
  <2> DEFINE s == CalculatePositionSize(equity, available, entry, stop, f, asset, total)
  <2>1. s.approved /\ case.verdict.quantity = s.quantity BY <1>5, <1>6
  <2>2. /\ s.quantity \in Nat \ {0}
        /\ s.quantity * (D * Unit * (entry - stop)) <= equity * MaxRiskPerTrade
        /\ D * Notional(s.quantity, entry) <= equity * MaxPositionSize
        /\ D * (Notional(s.quantity, entry) + asset) <= equity * MaxAssetExposure
        /\ D * (Notional(s.quantity, entry) + total) <= equity * MaxPortfolioExposure
        /\ Notional(s.quantity, entry) + EntryFee(s.quantity, entry) <= available
        /\ f.maxQty # NoPrice => s.quantity <= f.maxQty
    BY <2>1, ApprovedSizeIsLegal, Zenon
  <2> HIDE DEF s
  <2> QED BY <2>1, <2>2
<1>8. PICK more : more = q + LotOf(f.step) OBVIOUS
<1>9. /\ q % LotOf(f.step) = 0
      /\ ~ /\ more * (D * Unit * (entry - stop)) <= equity * MaxRiskPerTrade
           /\ D * Notional(more, entry) <= equity * MaxPositionSize
           /\ D * (Notional(more, entry) + asset) <= equity * MaxAssetExposure
           /\ D * (Notional(more, entry) + total) <= equity * MaxPortfolioExposure
           /\ Notional(more, entry) <= available
           /\ f.maxQty = NoPrice \/ more <= f.maxQty
  <2>1. CalculatePositionSize(equity, available, entry, stop, f, asset, total).approved
    BY <1>5, <1>6
  <2>2. CalculatePositionSize(equity, available, entry, stop, f, asset, total).quantity = q
    BY <1>5, <1>6, <1>7
  <2> DEFINE s == CalculatePositionSize(equity, available, entry, stop, f, asset, total)
  <2>3. s.quantity + LotOf(f.step) = more BY <1>8, <2>2
  <2>4. s.approved =>
          /\ s.quantity % LotOf(f.step) = 0
          /\ ~ /\ (s.quantity + LotOf(f.step)) * (D * Unit * (entry - stop))
                     <= equity * MaxRiskPerTrade
               /\ D * Notional(s.quantity + LotOf(f.step), entry)
                     <= equity * MaxPositionSize
               /\ D * (Notional(s.quantity + LotOf(f.step), entry) + asset)
                     <= equity * MaxAssetExposure
               /\ D * (Notional(s.quantity + LotOf(f.step), entry) + total)
                     <= equity * MaxPortfolioExposure
               /\ Notional(s.quantity + LotOf(f.step), entry) <= available
               /\ f.maxQty = NoPrice \/ s.quantity + LotOf(f.step) <= f.maxQty
    BY ApprovedSizeIsLargest, Zenon
  <2> HIDE DEF s
  <2> QED BY <2>1, <2>2, <2>3, <2>4 DEF s
<1>10. stop \in Int
  <2>1. stop # NoPrice
    BY <1>5, <1>6 DEF CalculatePositionSize, RejectSize
  <2> QED BY <2>1 DEF OptInt
<1> DEFINE Within(x) ==
      /\ x * (D * Unit * (entry - stop)) <= equity * MaxRiskPerTrade
      /\ D * Notional(x, entry) <= equity * MaxPositionSize
      /\ D * (Notional(x, entry) + asset) <= equity * MaxAssetExposure
      /\ D * (Notional(x, entry) + total) <= equity * MaxPortfolioExposure
      /\ Notional(x, entry) <= available
      /\ f.maxQty = NoPrice \/ x <= f.maxQty
<1>11. ASSUME NEW x \in Nat
       PROVE  Legal(x) <=> Within(x)
  <2>1. D \in Int /\ Unit \in Int BY UnitType
  <2>2. PICK n \in Int : n = Notional(x, entry) BY <2>1 DEF Notional
  <2>3. PICK gap \in Int : gap = entry - stop BY <1>10
  <2>4. x * gap * Unit * D = x * (D * Unit * gap) BY <2>1
  <2>5. n * D = D * n /\ (n + asset) * D = D * (n + asset)
        /\ (n + total) * D = D * (n + total)
    BY <2>1
  <2>6. /\ Notional(x, case.request.entry) = n
        /\ AssetExposure(case.account, case.request.symbol) = asset
        /\ TotalExposure(case.account) = total
    BY <1>3, <1>4, <2>2
  <2>7. Legal(x) <=>
          /\ x * gap * Unit * D <= equity * MaxRiskPerTrade
          /\ n * D <= equity * MaxPositionSize
          /\ (n + asset) * D <= equity * MaxAssetExposure
          /\ (n + total) * D <= equity * MaxPortfolioExposure
          /\ n <= available
          /\ f.maxQty = NoPrice \/ x <= f.maxQty
    BY <1>2, <1>3, <2>3, <2>6 DEF Legal
  <2> QED BY <2>2, <2>3, <2>4, <2>5, <2>7
<1>12. Within(q)
  <2>1. PICK n \in Int : n = Notional(q, entry) BY UnitType DEF Notional
  <2>2. EntryFee(q, entry) \in Nat
    <3>1. entry \in Nat
      BY <1>5, <1>6 DEF CalculatePositionSize, RejectSize
    <3>2. \A a, b \in Nat : a * b \in Nat OBVIOUS
    <3>3. D \in Nat /\ FeeRate \in Nat BY FillsAssumption
    <3> QED BY <3>1, <3>2, <3>3 DEF EntryFee
  <2>3. n <= available BY <1>7, <2>1, <2>2
  <2> QED BY <1>7, <2>1, <2>3
<1>13. more \in Nat /\ ~Within(more)
  <2>1. LotOf(f.step) \in Nat \ {0}
    BY RoundedToGrid DEF FilterType
  <2>2. more \in Nat BY <1>8, <2>1
  <2> QED BY <1>9, <2>2
<1>14. Lot = LotOf(f.step) BY <1>2 DEF Lot, LotOf
<1> HIDE DEF Within
<1>15. Legal(q) /\ ~Legal(more) BY <1>11, <1>12, <1>13
<1> QED BY <1>7, <1>8, <1>9, <1>14, <1>15 DEF SizeIsLargestLegal

\* An approved size is exactly the largest quantity on the exchange's lot grid
\* that the risk budget, every exposure cap, the balance and max_qty allow: the
\* code's order of steps loses nothing (calculate_position_size).
THEOREM ApprovedIsLargestLegal == AssessmentSpec => []SizeIsLargestLegal
BY CaseStaysOK, LargestLegalCase, PTL

LEMMA HaltedCase == CaseOK => HaltIsNeverMasked
<1> SUFFICES ASSUME CaseOK PROVE HaltIsNeverMasked OBVIOUS
<1> DEFINE health == CheckSystemHealth(case.system)
           halts  == CheckAccountHalts(case.account)
           halt   == IF health # "none" THEN health ELSE halts
<1>1. halt # "none" =>
        Evaluate(case.request, case.account, case.system) = Verdict("PAUSED", halt, 0)
  BY DEF Evaluate
<1>2. ASSUME \/ DailyLossReached(case.account) \/ DrawdownReached(case.account)
             \/ case.account.streak >= MaxConsecutiveLosses
      PROVE  halts # "none"
  BY <1>2 DEF CheckAccountHalts
<1>3. ASSUME \/ case.system.engine \in {"EMERGENCY_STOP", "PAUSED"} \/ case.system.stale
             \/ case.system.failures >= ApiFailureThreshold
             \/ ModelHealthProtection /\ ~case.system.modelHealthy
      PROVE  health # "none"
  BY <1>3 DEF CheckSystemHealth
<1> HIDE DEF health, halts
<1> QED BY <1>1, <1>2, <1>3 DEF HaltIsNeverMasked, Verdict, CaseOK

\* A halt of the account or of the system pauses: neither an objection to this
\* trade nor a sound trade hides it (evaluate's order of checks).
THEOREM HaltPauses == AssessmentSpec => []HaltIsNeverMasked
BY CaseStaysOK, HaltedCase, PTL
=============================================================================
