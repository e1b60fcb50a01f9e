--------------------------- MODULE MCPaperAccount ---------------------------
(* Constants for TLC: what a request may ask for and the lot grids.        *)
EXTENDS PaperAccount

\* The requests are interchangeable.
ClientSymmetry == Permutations(Clients)

SymbolSymmetry == Permutations(Symbols)

\* A protective stop with a target; a trailing stop without one.
StopAndTarget == [stop |-> 9, target |-> 12, trail |-> NoPrice]
Trailing == [stop |-> 9, target |-> NoPrice, trail |-> 2]

BothPlans == {StopAndTarget, Trailing}
OnePlan == {StopAndTarget}
TrailingPlan == {Trailing}

NoConstraint == [s \in Symbols |-> NoFilters]
\* A lot grid coarser than what an unfiltered entry may have bought.
CoarseLots == [s \in Symbols |-> [NoFilters EXCEPT !.step = 10]]
UnitLots == [s \in Symbols |-> [NoFilters EXCEPT !.step = 2, !.minQty = 2]]
=============================================================================
