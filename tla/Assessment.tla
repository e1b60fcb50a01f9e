----------------------------- MODULE Assessment -----------------------------
(***************************************************************************)
(* One assessment by the risk engine, and what a verdict promises of the   *)
(* account, the request and the system state it was given.                 *)
(***************************************************************************)
EXTENDS RiskEngine

VARIABLE case   \* what evaluate is given, and the verdict it returns

NoVerdict == Verdict("NONE", "none", 0)

\* What evaluate may be given.
IsAccount(account) ==
  /\ account.equity \in Int /\ account.available \in Int /\ account.peak \in Int
  /\ account.realised \in Int /\ account.unrealised \in Int
  /\ account.streak \in Nat /\ account.open \in Nat
  /\ IsFiniteSet(DOMAIN account.exposure)
  /\ account.exposure \in [DOMAIN account.exposure -> Int]

IsRequest(request) ==
  request.entry \in Int /\ request.stop \in OptInt /\ request.filters \in FilterType

Asked ==
  /\ DOMAIN case = {"account", "request", "system", "verdict"}
  /\ IsAccount(case.account) /\ IsRequest(case.request)
  /\ case.verdict = NoVerdict

Decide ==
  /\ case.verdict = NoVerdict
  /\ case' = [case EXCEPT !.verdict = Evaluate(case.request, case.account, case.system)]

AssessmentSpec == Asked /\ [][Decide]_case

Approved == case.verdict.decision = "APPROVED"

\* A quantity within the risk budget, every exposure cap, the balance and
\* max_qty: what sizing is for, stated without its order of steps.
Legal(q) ==
  LET value   == Notional(q, case.request.entry)
      account == case.account
      filters == case.request.filters
  IN  /\ q * (case.request.entry - case.request.stop) * Unit * D
           <= account.equity * MaxRiskPerTrade
      /\ value * D <= account.equity * MaxPositionSize
      /\ (value + AssetExposure(account, case.request.symbol)) * D
           <= account.equity * MaxAssetExposure
      /\ (value + TotalExposure(account)) * D <= account.equity * MaxPortfolioExposure
      /\ value <= account.available
      /\ filters.maxQty = NoPrice \/ q <= filters.maxQty

\* The lot grid: without a positive step size every grain is on it.
Lot ==
  LET step == case.request.filters.step
  IN  IF step = NoPrice \/ step <= 0 THEN 1 ELSE step

\* An approved size is exactly the largest legal one on the lot grid
\* (position_sizing.py rounds down after taking the tightest cap, and in no
\* other order).
SizeIsLargestLegal ==
  Approved => /\ case.verdict.quantity % Lot = 0
              /\ Legal(case.verdict.quantity) /\ ~Legal(case.verdict.quantity + Lot)

\* A halt of the account or the system is never reported as the rejection of
\* one trade, and never overridden by a trade that is fine in itself.
HaltIsNeverMasked ==
  /\ case.verdict # NoVerdict
  /\ \/ DailyLossReached(case.account) \/ DrawdownReached(case.account)
     \/ case.account.streak >= MaxConsecutiveLosses
     \/ case.system.engine \in {"EMERGENCY_STOP", "PAUSED"} \/ case.system.stale
     \/ case.system.failures >= ApiFailureThreshold
     \/ ModelHealthProtection /\ ~case.system.modelHealthy
  => case.verdict.decision = "PAUSED"

\* The fees of buying and selling again are less than the amount risked
\* (calculate_position_size refuses others as not economic): the code asks it of
\* the risk budget, which a size that a cap has cut does not use up.
ApprovedRisksMoreThanFees ==
  Approved =>
    2 * EntryFee(case.verdict.quantity, case.request.entry)
      < case.verdict.quantity * (case.request.entry - case.request.stop) * Unit
=============================================================================
