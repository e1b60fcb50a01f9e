---------------------------- MODULE MCRestClient ----------------------------
(* The rules of two exchanges, small enough to be reached.                 *)
EXTENDS RestClient, TLC

CONSTANTS a, b

Rule(type, interval, limit) == [type |-> type, interval |-> interval, limit |-> limit]

\* _fallback_rules
FallbackLimits == {Rule("REQUEST_WEIGHT", 2, 3), Rule("ORDERS", 1, 5)}
Declared == {Rule("REQUEST_WEIGHT", 2, 2), Rule("RAW_REQUESTS", 2, 1)}
\* A task that lives on requests, and the refresh of the exchange's rules.
TaskAndRefresh == a :> {"signed", "time"} @@ b :> {"info"}
Weights == [time |-> 1, info |-> 3, signed |-> 1]
=============================================================================
