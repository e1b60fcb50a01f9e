---------------------------- MODULE MCRiskEngine ----------------------------
(***************************************************************************)
(* One assessment by the risk engine, for every combination of a small     *)
(* account, request and system state.                                      *)
(***************************************************************************)
EXTENDS Assessment

CONSTANTS Cash,        \* quote available, in whole quotes
          HeldValue,   \* values of the position held, in whole quotes
          Entries, Stops, Losses, Lots

Accounts ==
  {[equity |-> (cash + value) * Unit, available |-> cash * Unit,
    peak |-> p * Unit, realised |-> (0 - loss) * Unit, unrealised |-> 0,
    streak |-> streak, open |-> IF value = 0 THEN 0 ELSE 1,
    exposure |-> [s \in IF value = 0 THEN {} ELSE {held} |-> value * Unit]] :
     held \in {"this", "other"}, cash \in Cash, value \in HeldValue, loss \in Losses,
     streak \in {0, MaxConsecutiveLosses}, p \in {20, 40}}

LotFilters == [step : Lots, minQty : {NoPrice}, maxQty : {NoPrice, 3},
               minNotional : {NoPrice, 12 * Unit}]

Requests ==
  {[symbol |-> "this", entry |-> e, stop |-> s, filters |-> f, spread |-> x,
    atr |-> NoPrice, slippage |-> NoPrice, sinceExit |-> t] :
     e \in Entries, s \in Stops, f \in LotFilters,
     x \in {NoPrice, MaxSpread + 1}, t \in {NoPrice, 0}}

Systems ==
  {HealthySystem, [HealthySystem EXCEPT !.engine = "PAUSED"],
   [HealthySystem EXCEPT !.stale = TRUE],
   [HealthySystem EXCEPT !.failures = ApiFailureThreshold],
   [HealthySystem EXCEPT !.modelHealthy = FALSE]}

Init ==
  /\ case \in [account : Accounts, request : Requests, system : Systems,
               verdict : {NoVerdict}]
  /\ Asked

Spec == Init /\ [][Decide]_case
=============================================================================
