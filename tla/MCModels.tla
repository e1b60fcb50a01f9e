------------------------------ MODULE MCModels ------------------------------
(* Feature rows and predictions for TLC.                                   *)
EXTENDS Models

\* Every feature is there and bullish, but its volatility is extreme.
Rising ==
  [sma_20 |-> 102, sma_50 |-> 100, rsi_14 |-> 80, macd |-> 2, macd_histogram |-> 1,
   plus_di |-> 30, minus_di |-> 10, adx |-> 40, structure_trend |-> "BULLISH",
   events |-> {"is_higher_high", "break_of_structure"}, volatility |-> 98]

\* A short history: two sub-signals can be computed and disagree.
Mixed ==
  [sma_20 |-> None, sma_50 |-> None, rsi_14 |-> 20, macd |-> None,
   macd_histogram |-> None, plus_di |-> None, minus_di |-> None, adx |-> None,
   structure_trend |-> "BEARISH",
   events |-> {"is_higher_low", "false_breakout", "breakdown"}, volatility |-> None]

TwoRows == {Rising, Mixed}

Up == [up |-> 80, neutral |-> 10, down |-> 10]
Down == [up |-> 0, neutral |-> 20, down |-> 80]
TwoProbabilities == {Up, Down}
=============================================================================
