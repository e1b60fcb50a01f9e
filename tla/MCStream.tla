------------------------------ MODULE MCStream ------------------------------
(* One page, the sockets it may hold at the same time and two topics.      *)
EXTENDS Stream

CONSTANTS ticker, candle

\* Everything, or the one topic.
Lists == {{}, {ticker}}

\* A fault among a few events; or a queue that overflows while nothing fails.
FaultOrOverflow ==
  {[events |-> 2, faults |-> 1, requests |-> 1],
   [events |-> 4, faults |-> 0, requests |-> 1]}
=============================================================================
