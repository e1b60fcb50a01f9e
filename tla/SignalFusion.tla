---------------------------- MODULE SignalFusion ----------------------------
(***************************************************************************)
(* The score of a feature row and the fusion of the components' scores     *)
(* (signals/technical_score.py, signals/fusion.py, ml/prediction.py).      *)
(* Scores and confidences are percentages: 50 is neutral.  A feature that  *)
(* could not be computed is None.                                          *)
(***************************************************************************)
EXTENDS Integers, FiniteSetsExt

CONSTANTS
  None,
  TechnicalWeight, LightgbmWeight,   \* the components' weights
  MinConfidence,                     \* fusion_min_confidence
  ActionMargin                       \* fusion_action_margin

ASSUME SignalFusionAssumption ==
  /\ TechnicalWeight \in Nat /\ LightgbmWeight \in Nat
  /\ MinConfidence \in 0..100 /\ ActionMargin \in 0..50
  /\ None \notin Int

\* The features the score reads, and a row of class probabilities.
FeatureType ==
  LET Or(S) == S \cup {None}
  IN  [sma_20 : Or(Nat), sma_50 : Or(Nat), rsi_14 : Or(0..100),
       macd : Or(Int), macd_histogram : Or(Int),
       plus_di : Or(Nat), minus_di : Or(Nat), adx : Or(Nat),
       structure_trend : Or(STRING), events : SUBSET STRING, volatility : Or(Nat)]

ProbabilityType == [up : 0..100, neutral : 0..100, down : 0..100]

Magnitude(x) == IF x < 0 THEN -x ELSE x
Clamp(low, high, x) == IF x < low THEN low ELSE IF x > high THEN high ELSE x

\* A sub-signal leans between -100 and 100.
Lean(x) == Clamp(-100, 100, x)

\* _trend_subsignal: a spread of 2 % is a full trend.
Trend(f) ==
  IF None \in {f.sma_20, f.sma_50} \/ f.sma_50 = 0 THEN None
  ELSE Lean(((f.sma_20 - f.sma_50) * 5000) \div f.sma_50)

\* _momentum_subsignal: the average of what can be computed.
Momentum(f) ==
  LET rsi  == IF f.rsi_14 = None THEN {} ELSE {<<"rsi", Lean((f.rsi_14 - 50) * 2)>>}
      macd == IF None \in {f.macd, f.macd_histogram} \/ f.macd = 0 THEN {}
              ELSE {<<"macd", Lean((f.macd_histogram * 100) \div Magnitude(f.macd))>>}
      parts == rsi \cup macd
  IN  IF parts = {} THEN None
      ELSE MapThenSumSet(LAMBDA p : p[2], parts) \div Cardinality(parts)

\* _directional_movement_subsignal: +DI against -DI, weighted by ADX.
DirectionalMovement(f) ==
  IF None \in {f.plus_di, f.minus_di} THEN None
  ELSE IF f.plus_di + f.minus_di = 0 THEN 0
  ELSE LET strength == IF f.adx = None THEN 40 ELSE Clamp(0, 40, f.adx)
       IN  ((f.plus_di - f.minus_di) * 100 * strength)
             \div ((f.plus_di + f.minus_di) * 40)

\* _structure_subsignal: the trend, corrected by the events of this bar.
Structure(f) ==
  LET base == CASE f.structure_trend = "BULLISH" -> 100
                [] f.structure_trend = "BEARISH" -> -100
                [] OTHER -> 0
      Points(event, points) == IF event \in f.events THEN points ELSE 0
      rising  == {"is_higher_high", "is_higher_low"} \cap f.events # {}
      falling == {"is_lower_high", "is_lower_low"} \cap f.events # {}
      failed  == IF "false_breakout" \in f.events
                 THEN Points("breakdown", 30) - Points("breakout", 30) ELSE 0
      event   == (IF rising THEN 50 ELSE 0) - (IF falling THEN 50 ELSE 0)
                 + Points("break_of_structure", base \div 2) + failed
  IN  IF f.structure_trend = None /\ event = 0 THEN None ELSE Lean(base + event)

SubSignals(f) ==
  [trend |-> Trend(f), momentum |-> Momentum(f),
   directional |-> DirectionalMovement(f), structure |-> Structure(f)]

\* _volatility_confidence_penalty, in percent.
VolatilityPenalty(f) ==
  IF f.volatility = None \/ f.volatility <= 90 THEN 100
  ELSE LET cut == 100 - (f.volatility - 90) * 5 IN IF cut < 50 THEN 50 ELSE cut

\* compute_technical_score
TechnicalScore(f) ==
  LET sub       == SubSignals(f)
      available == {s \in DOMAIN sub : sub[s] # None}
      raw       == MapThenSumSet(LAMBDA s : sub[s], available) \div Cardinality(available)
  IN  IF available = {} THEN [score |-> 50, confidence |-> 0]
      ELSE [score |-> Clamp(0, 100, (raw + 100) \div 2),
            confidence |-> (Magnitude(raw) * Cardinality(available) * VolatilityPenalty(f))
                             \div (Cardinality(DOMAIN sub) * 100)]

\* A row of class probabilities as a score and a confidence.
ModelScore(proba) ==
  [score |-> (proba.up - proba.down + 100) \div 2,
   confidence |-> Max({proba.up, proba.neutral, proba.down})]

Weight(kind) == IF kind = "TECHNICAL" THEN TechnicalWeight ELSE LightgbmWeight

\* Mutant: the decision no longer looks at the confidence.
FuseUnguarded(components) ==
  LET active == {k \in DOMAIN components : components[k].active}
      total  == MapThenSumSet(LAMBDA k : Weight(k), active)
      score  == MapThenSumSet(LAMBDA k : components[k].score * Weight(k), active)
  IN  IF total = 0 THEN "NO_VALID_SETUP"
      ELSE IF Magnitude(score - 50 * total) < ActionMargin * total THEN "WAIT"
      ELSE IF score > 50 * total THEN "BUY" ELSE "SELL"

\* fuse: the action of the weighted averages over the active components.
Fuse(components) ==
  LET active     == {k \in DOMAIN components : components[k].active}
      total      == MapThenSumSet(LAMBDA k : Weight(k), active)
      score      == MapThenSumSet(LAMBDA k : components[k].score * Weight(k), active)
      confidence == MapThenSumSet(LAMBDA k : components[k].confidence * Weight(k), active)
  IN  IF total = 0 THEN "NO_VALID_SETUP"
      ELSE IF \/ confidence < MinConfidence * total
              \/ Magnitude(score - 50 * total) < ActionMargin * total THEN "WAIT"
      ELSE IF score > 50 * total THEN "BUY" ELSE "SELL"
=============================================================================
