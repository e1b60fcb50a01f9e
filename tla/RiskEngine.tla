----------------------------- MODULE RiskEngine -----------------------------
(***************************************************************************)
(* The risk engine (risk/engine.py): every proposed entry is evaluated     *)
(* against the system-health gates, the account halts, the per-trade       *)
(* conditions and the sizing, in that order; the first that objects gives  *)
(* the verdict.  Everything here is a pure function of its arguments.      *)
(*                                                                         *)
(* An account is [equity, available, peak, realised, unrealised, streak,   *)
(* open, exposure]: exposure maps each held symbol to its market value.    *)
(***************************************************************************)
EXTENDS PositionSizing, FiniteSets, Functions

CONSTANTS
  MaxDailyLoss, MaxDrawdown,       \* fractions, numerators over D
  MaxConsecutiveLosses,
  MaxSimultaneousPositions,
  Cooldown,                        \* cooldown_period_seconds
  ApiFailureThreshold,
  ModelHealthProtection,
  MaxSpread, MaxVolatility, MaxSlippage

ASSUME RiskAssumption ==
  /\ MaxDailyLoss \in 1..D
  /\ MaxDrawdown \in 1..D
  /\ MaxConsecutiveLosses \in Nat \ {0}
  /\ MaxSimultaneousPositions \in Nat \ {0}
  /\ Cooldown \in Nat
  /\ ApiFailureThreshold \in Nat \ {0}
  /\ ModelHealthProtection \in BOOLEAN
  /\ MaxSpread \in Nat /\ MaxVolatility \in Nat /\ MaxSlippage \in Nat

\* SystemState(): what an assessment assumes when nobody supplies the health.
HealthySystem == [engine |-> "RUNNING", stale |-> FALSE, failures |-> 0,
                  modelHealthy |-> TRUE]

TotalExposure(account) ==
  SumFunction(account.exposure)

AssetExposure(account, symbol) ==
  IF symbol \in DOMAIN account.exposure THEN account.exposure[symbol] ELSE 0

\* daily_loss_fraction >= max_daily_loss, without the division.
DailyLossReached(account) ==
  \/ account.equity <= 0
  \/ LET pnl == account.realised + account.unrealised
     IN  pnl < 0 /\ (0 - pnl) * D >= MaxDailyLoss * account.equity

DrawdownReached(account) ==
  /\ account.peak > 0
  /\ (account.peak - account.equity) * D >= MaxDrawdown * account.peak

\* Each check names the rule that objects, or "none".
CheckSystemHealth(system) ==
  IF system.engine = "EMERGENCY_STOP" THEN "emergency_stop"
  ELSE IF system.engine = "PAUSED" THEN "engine_paused"
  ELSE IF system.stale THEN "stale_data_protection"
  ELSE IF system.failures >= ApiFailureThreshold
       THEN "api_failure_protection"
  ELSE IF ModelHealthProtection /\ ~system.modelHealthy
       THEN "model_health_protection"
  ELSE "none"

\* Mutant: the drawdown is not among the halts.
CheckAccountHaltsNoDrawdown(account) ==
  IF DailyLossReached(account) THEN "max_daily_loss"
  ELSE IF account.streak >= MaxConsecutiveLosses
       THEN "max_consecutive_losses"
  ELSE "none"

CheckAccountHalts(account) ==
  IF DailyLossReached(account) THEN "max_daily_loss"
  ELSE IF DrawdownReached(account) THEN "max_drawdown"
  ELSE IF account.streak >= MaxConsecutiveLosses
       THEN "max_consecutive_losses"
  ELSE "none"

\* Mutant: one position more than the limit.
PositionLimitPassed(account) == account.open > MaxSimultaneousPositions

PositionLimitReached(account) == account.open >= MaxSimultaneousPositions

Exceeds(measure, limit) == measure # NoPrice /\ measure > limit

CheckTradeConditions(request, account) ==
  IF Exceeds(request.spread, MaxSpread) THEN "spread_protection"
  ELSE IF Exceeds(request.atr, MaxVolatility) THEN "volatility_protection"
  ELSE IF Exceeds(request.slippage, MaxSlippage) THEN "max_slippage"
  ELSE IF request.sinceExit # NoPrice /\ request.sinceExit < Cooldown
       THEN "cooldown_period"
  ELSE IF PositionLimitReached(account)
       THEN "max_simultaneous_positions"
  ELSE IF /\ account.equity > 0
          /\ D * AssetExposure(account, request.symbol)
               >= account.equity * MaxAssetExposure
       THEN "max_asset_exposure"
  ELSE IF /\ account.equity > 0
          /\ D * TotalExposure(account)
               >= account.equity * MaxPortfolioExposure
       THEN "max_portfolio_exposure"
  ELSE "none"

Verdict(decision, rule, quantity) ==
  [decision |-> decision, rule |-> rule, quantity |-> quantity]

Evaluate(request, account, system) ==
  LET health == CheckSystemHealth(system)
      halt   == IF health # "none" THEN health ELSE CheckAccountHalts(account)
      reject == CheckTradeConditions(request, account)
      size   == CalculatePositionSize(
                  account.equity, account.available, request.entry,
                  request.stop, request.filters,
                  AssetExposure(account, request.symbol),
                  TotalExposure(account))
  IN  IF halt # "none" THEN Verdict("PAUSED", halt, 0)
      ELSE IF reject # "none" THEN Verdict("REJECTED", reject, 0)
      ELSE IF ~size.approved THEN Verdict("REJECTED", "position_sizing", 0)
      ELSE Verdict("APPROVED", "approved", size.quantity)
=============================================================================
