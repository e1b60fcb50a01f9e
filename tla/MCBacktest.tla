----------------------------- MODULE MCBacktest -----------------------------
(* Candles and orders for TLC.                                             *)
EXTENDS Backtest

Candle(h, l, c) == [high |-> h, low |-> l, close |-> c]

\* Flat, rising, falling, a bar that spans a stop and a target, and a gap.
AllBars == {Candle(10, 10, 10), Candle(11, 10, 11), Candle(10, 9, 9),
            Candle(13, 8, 11), Candle(7, 6, 7)}

StopAndTarget == [risk |-> 1, reward |-> 2, trail |-> NoPrice]
Trailing == [risk |-> 2, reward |-> 4, trail |-> 2]
BothOrders == {StopAndTarget, Trailing}

EvenLots == [NoFilters EXCEPT !.step = 1, !.minQty = 2]
=============================================================================
