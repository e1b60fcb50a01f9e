-------------------------- MODULE RestClientProofs --------------------------
(***************************************************************************)
(* What leaves the process and what its clock is worth, for any number of  *)
(* tasks, any rules, weights, retries and answers of the exchange.  Three  *)
(* arguments, each with its own invariant: the windows count what was sent *)
(* (WindowsFollow), a call pays for each frame it is in (Budgeted), and an *)
(* answer was stamped while its request was under way (FrameOK).           *)
(***************************************************************************)
EXTENDS RestClient, WellFoundedInduction, TLAPS

\* A non-empty set of naturals has a least element.
LEMMA LeastElement ==
  ASSUME NEW T, T \subseteq Nat, T # {}
  PROVE  \E m \in T : \A k \in T : m <= k
<1> DEFINE R == {ss \in Nat \X Nat : ss[1] < ss[2]}
<1>1. IsWellFoundedOn(R, Nat) BY NatLessThanWellFounded DEF OpToRel
<1>2. \A k, m \in T : <<k, m>> \notin R => m <= k OBVIOUS
<1> HIDE DEF R
<1> QED BY <1>1, <1>2, WFMin, Zenon

-----------------------------------------------------------------------------
(* The limiter.                                                            *)

\* What requests cost a rule in the last n moments.
CostIn(rule, requests, n) ==
  Cost(rule, WeightOf["time"]) * requests["time"][n]
    + Cost(rule, WeightOf["info"]) * requests["info"][n]
    + Cost(rule, WeightOf["signed"]) * requests["signed"][n]

\* A longer span counts no less, and no span nothing.
Grows(f) == f[0] = 0 /\ \A m, n \in Spans : m <= n => f[m] <= f[n]

\* A window of the limiter is what the requests it has let out cost its rule.
WindowsFollow ==
  \A rule \in Applicable : \A n \in Spans :
    windows[rule][n] = CostIn(rule, sent.since, n)

CountsGrow ==
  \A kind \in Kinds : Grows(sent.since[kind]) /\ Grows(sent.before[kind])

\* What was sent under the rules before fitted those rules.
BeforeFits ==
  \A old \in sent.rules :
    old.type \in Types => CostIn(old, sent.before, old.interval) <= old.limit

SentType == [since : [Kinds -> Counts], before : [Kinds -> Counts],
             rules : {FallbackRules, ExchangeRules}]

WindowsType ==
  /\ DOMAIN windows \in {FallbackRules, ExchangeRules}
  /\ windows \in [DOMAIN windows -> Counts]
  /\ sent \in SentType

LimiterOK ==
  WindowsType /\ WindowsFollow /\ CountsGrow /\ LimitsInForce /\ BeforeFits

LEMMA RuleFacts ==
  ASSUME NEW rule \in FallbackRules \cup ExchangeRules
  PROVE  /\ rule.interval \in 1..Horizon /\ rule.interval \in Spans
         /\ rule.limit \in Nat /\ Horizon \in Nat
         /\ \A kind \in Kinds : /\ WeightOf[kind] \in Nat \ {0}
                                /\ Cost(rule, WeightOf[kind]) \in Nat \ {0}
                                /\ Cost(rule, WeightOf[kind]) <= WeightOf[kind]
<1>1. /\ rule.interval \in 1..Horizon /\ rule.limit \in Nat /\ Horizon \in Nat
      /\ \A kind \in Kinds : WeightOf[kind] \in Nat \ {0}
  BY RestClientAssumption
<1> QED BY <1>1 DEF Spans, Cost

LEMMA AppliedRules ==
  ASSUME WindowsType, NEW rule \in Applicable
  PROVE  rule \in FallbackRules \cup ExchangeRules /\ rule \in DOMAIN windows
BY DEF WindowsType, Applicable

\* The cost of some counts, and of counts that are no larger.
LEMMA CostInBounds ==
  ASSUME NEW x \in Nat, NEW y \in Nat, NEW z \in Nat,
         NEW a \in Nat, NEW b \in Nat, NEW c \in Nat,
         NEW k \in Nat, NEW l \in Nat, NEW m \in Nat,
         NEW p \in Nat, NEW q \in Nat, NEW r \in Nat,
         x <= k, y <= l, z <= m, a <= p, b <= q, c <= r
  PROVE  /\ x * a + y * b + z * c \in Nat
         /\ x * a + y * b + z * c <= k * p + l * q + m * r
<1>1. \A i, j \in Nat : i * j \in Nat OBVIOUS
<1>2. ASSUME NEW i \in Nat, NEW j \in Nat, NEW u \in Nat, NEW v \in Nat, i <= j, u <= v
      PROVE  i * u <= j * v
  <2>1. (j - i) * v \in Nat /\ i * (v - u) \in Nat
    <3>1. j - i \in Nat /\ v - u \in Nat BY <1>2
    <3> QED BY <1>1, <3>1
  <2>2. j * v = i * u + (j - i) * v + i * (v - u) BY <1>2
  <2>3. i * u \in Nat /\ j * v \in Nat BY <1>1
  <2> HIDE <1>1
  <2> QED BY <2>1, <2>2, <2>3
<1>3. x * a <= k * p /\ y * b <= l * q /\ z * c <= m * r BY <1>2
<1>4. /\ x * a \in Nat /\ y * b \in Nat /\ z * c \in Nat
      /\ k * p \in Nat /\ l * q \in Nat /\ m * r \in Nat
  BY <1>1
<1> HIDE <1>1, <1>2
<1> QED BY <1>3, <1>4

LEMMA CostInType ==
  ASSUME NEW rule \in FallbackRules \cup ExchangeRules,
         NEW requests \in [Kinds -> Counts], NEW n \in Spans
  PROVE  CostIn(rule, requests, n) \in Nat
<1> DEFINE w(kind) == Cost(rule, WeightOf[kind])
<1>1. {"time", "info", "signed"} \subseteq Kinds BY DEF Kinds
<1>2. \A kind \in Kinds : w(kind) \in Nat BY RuleFacts
<1>3. \A kind \in Kinds : requests[kind][n] \in Nat BY DEF Counts
<1> HIDE DEF w
<1>4. \A kind \in Kinds : w(kind) <= w(kind) /\ requests[kind][n] <= requests[kind][n]
  BY <1>2, <1>3
<1> QED BY <1>1, <1>2, <1>3, <1>4, CostInBounds DEF CostIn, w

\* A rule that weighs more over a longer span has spent more.
LEMMA CostInGrows ==
  ASSUME NEW rule \in FallbackRules \cup ExchangeRules,
         NEW other \in FallbackRules \cup ExchangeRules,
         \A kind \in Kinds :
           Cost(rule, WeightOf[kind]) <= Cost(other, WeightOf[kind]),
         NEW requests \in [Kinds -> Counts], \A kind \in Kinds : Grows(requests[kind]),
         NEW m \in Spans, NEW n \in Spans, m <= n
  PROVE  CostIn(rule, requests, m) <= CostIn(other, requests, n)
<1> DEFINE w(kind) == Cost(rule, WeightOf[kind])
           v(kind) == Cost(other, WeightOf[kind])
<1>1. {"time", "info", "signed"} \subseteq Kinds BY DEF Kinds
<1>2. \A kind \in Kinds : w(kind) \in Nat /\ v(kind) \in Nat /\ w(kind) <= v(kind)
  BY RuleFacts
<1>3. \A kind \in Kinds : /\ requests[kind][n] \in Nat /\ requests[kind][m] \in Nat
                          /\ requests[kind][m] <= requests[kind][n]
  BY DEF Counts, Grows
<1> HIDE DEF w, v
<1> QED BY <1>1, <1>2, <1>3, CostInBounds DEF CostIn, w, v

LEMMA MoreValues ==
  ASSUME NEW f \in Counts, NEW amount \in Nat
  PROVE  /\ More(f, amount) \in Counts /\ More(f, amount)[0] = 0
         /\ \A n \in Spans \ {0} : More(f, amount)[n] = f[n] + amount
<1>1. Horizon \in Nat /\ 0 \in Spans BY RestClientAssumption DEF Spans
<1>2. \A n \in Spans : f[n] \in Nat BY DEF Counts
<1> QED BY <1>1, <1>2 DEF More, Counts

LEMMA MoreAndOlder ==
  ASSUME NEW f \in Counts, Grows(f), NEW amount \in Nat
  PROVE  /\ More(f, amount) \in Counts /\ Grows(More(f, amount))
         /\ Older(f) \in Counts /\ Grows(Older(f))
         /\ \A n \in Spans \ {0} : More(f, amount)[n] = f[n] + amount
                                  /\ Older(f)[n] = f[n - 1] /\ n - 1 \in Spans
         /\ More(f, amount)[0] = 0 /\ Older(f)[0] = 0
<1>1. Horizon \in Nat /\ 0 \in Spans BY RestClientAssumption DEF Spans
<1>2. \A n \in Spans : f[n] \in Nat BY DEF Counts
<1>3. \A n \in Spans \ {0} : n - 1 \in Spans BY <1>1 DEF Spans
<1>4. /\ \A n \in Spans \ {0} : More(f, amount)[n] = f[n] + amount /\ Older(f)[n] = f[n - 1]
      /\ More(f, amount)[0] = 0 /\ Older(f)[0] = 0
  BY <1>1 DEF More, Older
<1>5. More(f, amount) \in Counts /\ Older(f) \in Counts
  BY <1>2, <1>3 DEF More, Older, Counts
<1>6. \A m, n \in Spans : m <= n => /\ m \in Nat /\ n \in Nat /\ f[m] <= f[n]
  BY <1>1 DEF Spans, Grows
<1>7. Grows(More(f, amount))
  <2> SUFFICES ASSUME NEW m \in Spans, NEW n \in Spans, m <= n
               PROVE  More(f, amount)[m] <= More(f, amount)[n]
    BY <1>4 DEF Grows
  <2> QED BY <1>2, <1>4, <1>6
<1>8. Grows(Older(f))
  <2> SUFFICES ASSUME NEW m \in Spans, NEW n \in Spans, m <= n
               PROVE  Older(f)[m] <= Older(f)[n]
    BY <1>4 DEF Grows
  <2>1. CASE m = 0
    <3>1. n = 0 \/ f[n - 1] \in Nat BY <1>2, <1>3
    <3> QED BY <1>4, <2>1, <3>1
  <2>2. CASE m # 0
    <3>1. n # 0 /\ m - 1 <= n - 1 BY <1>6, <2>2
    <3>2. f[m - 1] <= f[n - 1] BY <1>3, <2>2, <3>1 DEF Grows
    <3> QED BY <1>4, <2>2, <3>1, <3>2
  <2> QED BY <2>1, <2>2
<1> QED BY <1>3, <1>4, <1>5, <1>7, <1>8

LEMMA NothingFacts ==
  /\ Nothing \in Counts /\ Grows(Nothing) /\ NoneSent \in [Kinds -> Counts]
  /\ \A kind \in Kinds : NoneSent[kind] = Nothing
  /\ \A rule \in FallbackRules \cup ExchangeRules : \A n \in Spans :
       CostIn(rule, NoneSent, n) = 0
<1>1. Nothing \in Counts /\ Grows(Nothing)
  BY RestClientAssumption DEF Nothing, Counts, Grows, Spans
<1>2. NoneSent \in [Kinds -> Counts] /\ \A kind \in Kinds : NoneSent[kind] = Nothing
  BY <1>1 DEF NoneSent
<1>3. ASSUME NEW rule \in FallbackRules \cup ExchangeRules, NEW n \in Spans
      PROVE  CostIn(rule, NoneSent, n) = 0
  <2>1. {"time", "info", "signed"} \subseteq Kinds BY DEF Kinds
  <2>2. \A kind \in Kinds : NoneSent[kind][n] = 0 BY <1>2 DEF Nothing
  <2>3. \A kind \in Kinds : Cost(rule, WeightOf[kind]) * 0 = 0 BY RuleFacts
  <2> QED BY <2>1, <2>2, <2>3 DEF CostIn
<1> QED BY <1>1, <1>2, <1>3

\* A request leaves: its cost goes to every window it counts for.
LEMMA LeavesKeepsLimiter ==
  ASSUME LimiterOK, NEW c \in Callers, NEW kind \in Kinds, Top(c).kind = kind,
         Fits(WeightOf[kind]), Leaves(c, WeightOf[kind])
  PROVE  LimiterOK'
<1> DEFINE w(rule) == Cost(rule, WeightOf[kind])
           since == sent.since
<1>1. /\ windows' = Recorded(WeightOf[kind])
      /\ sent' = [sent EXCEPT !.since[kind] = More(@, 1)]
  BY DEF Leaves
<1>2. DOMAIN windows' = DOMAIN windows /\ Applicable' = Applicable
  BY <1>1 DEF Recorded, Applicable
<1>3. \A rule \in Applicable : /\ windows'[rule] = More(windows[rule], w(rule))
                               /\ windows[rule] \in Counts
                               /\ rule \in DOMAIN windows
                               /\ w(rule) \in Nat
                               /\ rule \in FallbackRules \cup ExchangeRules
  BY <1>1, AppliedRules, RuleFacts DEF Recorded, LimiterOK, WindowsType, Applicable
<1>4. since \in [Kinds -> Counts] /\ \A k \in Kinds : Grows(since[k])
  BY DEF LimiterOK, WindowsType, SentType, CountsGrow
<1>5. /\ sent'.since = [since EXCEPT ![kind] = More(since[kind], 1)]
      /\ sent'.before = sent.before /\ sent'.rules = sent.rules
  BY <1>1 DEF LimiterOK, WindowsType, SentType
<1>6. /\ More(since[kind], 1) \in Counts /\ Grows(More(since[kind], 1))
      /\ \A n \in Spans \ {0} : More(since[kind], 1)[n] = since[kind][n] + 1
      /\ More(since[kind], 1)[0] = 0
  <2>1. since[kind] \in Counts /\ Grows(since[kind]) /\ 1 \in Nat BY <1>4
  <2> QED BY <2>1, MoreAndOlder
<1>7. sent'.since \in [Kinds -> Counts] /\ \A k \in Kinds : Grows(sent'.since[k])
  BY <1>4, <1>5, <1>6
<1>8. \A rule \in Applicable : /\ windows'[rule] \in Counts /\ windows'[rule][0] = 0
        /\ \A n \in Spans \ {0} : windows'[rule][n] = windows[rule][n] + w(rule)
  <2> SUFFICES ASSUME NEW rule \in Applicable
               PROVE  /\ windows'[rule] \in Counts /\ windows'[rule][0] = 0
                      /\ \A n \in Spans \ {0} : windows'[rule][n] = windows[rule][n] + w(rule)
    OBVIOUS
  <2> HIDE DEF w
  <2>1. windows[rule] \in Counts /\ w(rule) \in Nat BY <1>3
  <2>2. windows'[rule] = More(windows[rule], w(rule)) BY <1>3
  <2> QED BY <2>1, <2>2, MoreValues
<1>9. WindowsType'
  <2>1. windows' \in [DOMAIN windows -> Counts]
    <3>1. \A rule \in DOMAIN windows : windows'[rule] \in Counts
      <4>1. \A rule \in DOMAIN windows \ Applicable : windows'[rule] = windows[rule]
        BY <1>1 DEF Recorded
      <4> QED BY <1>8, <4>1 DEF LimiterOK, WindowsType
    <3> QED BY <1>1, <3>1 DEF Recorded
  <2>2. sent' \in SentType
    BY <1>1, <1>5, <1>7 DEF LimiterOK, WindowsType, SentType
  <2> QED BY <1>2, <2>1, <2>2 DEF LimiterOK, WindowsType
<1>10. CountsGrow' BY <1>5, <1>7 DEF CountsGrow, LimiterOK
<1>11. ASSUME NEW rule \in Applicable, NEW n \in Spans
       PROVE  windows'[rule][n] = CostIn(rule, sent'.since, n)
  <2> DEFINE v(k) == Cost(rule, WeightOf[k])
  <2>0. {"time", "info", "signed"} = Kinds BY DEF Kinds
  <2>1. \A k \in Kinds : v(k) \in Nat /\ since[k][n] \in Nat
    BY <1>3, <1>4, RuleFacts DEF Counts
  <2>2. \A k \in Kinds : sent'.since[k][n] =
          IF n # 0 /\ k = kind THEN since[k][n] + 1 ELSE since[k][n]
    BY <1>4, <1>5, <1>6 DEF Grows
  <2>3. \A k \in Kinds : v(k) * sent'.since[k][n] =
          v(k) * since[k][n] + IF n # 0 /\ k = kind THEN w(rule) ELSE 0
    <3>1. v(kind) = w(rule) OBVIOUS
    <3> HIDE DEF v, w
    <3>2. \A x, y \in Nat : x * (y + 1) = x * y + x OBVIOUS
    <3>3. \A x, y \in Nat : x * y \in Nat OBVIOUS
    <3>4. \A k \in Kinds : v(k) * (since[k][n] + 1) = v(k) * since[k][n] + v(k)
      BY <2>1, <3>2
    <3>5. \A k \in Kinds : v(k) * since[k][n] \in Nat BY <2>1, <3>3
    <3> QED BY <2>2, <3>1, <3>4, <3>5
  <2>4. windows[rule][n] = v("time") * since["time"][n] + v("info") * since["info"][n]
                             + v("signed") * since["signed"][n]
    BY DEF LimiterOK, WindowsFollow, CostIn
  <2>5. CostIn(rule, sent'.since, n)
          = v("time") * sent'.since["time"][n] + v("info") * sent'.since["info"][n]
              + v("signed") * sent'.since["signed"][n]
    BY DEF CostIn
  <2>6. \A k \in Kinds : v(k) * since[k][n] \in Nat
    <3>1. \A x, y \in Nat : x * y \in Nat OBVIOUS
    <3> HIDE DEF v
    <3> QED BY <2>1, <3>1
  <2>7. w(rule) \in Nat BY <1>3
  <2>8. CostIn(rule, sent'.since, n) = windows[rule][n] + IF n # 0 THEN w(rule) ELSE 0
    <3> HIDE DEF v, w
    <3> QED BY <2>0, <2>3, <2>4, <2>5, <2>6, <2>7
  <2>9. windows[rule][0] = 0
    <3>1. windows[rule][0] = CostIn(rule, since, 0) /\ 0 \in Spans
      BY RestClientAssumption DEF LimiterOK, WindowsFollow, Spans
    <3>2. \A k \in Kinds : since[k][0] = 0 /\ v(k) * 0 = 0
      BY <1>3, <1>4, RuleFacts DEF Grows
    <3> QED BY <2>0, <3>1, <3>2 DEF CostIn
  <2> HIDE DEF w
  <2>10. windows[rule][n] \in Nat BY <1>3 DEF Counts
  <2> QED BY <1>8, <2>7, <2>8, <2>9, <2>10
<1>12. ASSUME NEW rule \in Applicable
       PROVE  CostIn(rule, sent'.since, rule.interval) <= rule.limit
  <2>1. rule.interval \in Spans \ {0} /\ rule.interval \in Nat
    BY <1>3, RuleFacts
  <2>2. windows[rule][rule.interval] + w(rule) <= rule.limit
    <3>1. rule.interval - 0 = rule.interval BY <2>1
    <3> QED BY <3>1 DEF Fits, Used
  <2> HIDE DEF w
  <2> QED BY <1>8, <1>11, <2>1, <2>2
<1>13. WindowsFollow' BY <1>2, <1>11 DEF WindowsFollow, CostIn, Cost
<1>14. LimitsInForce'
  BY <1>2, <1>12 DEF LimitsInForce, Left, CostIn, Cost
<1>15. BeforeFits' BY <1>5 DEF LimiterOK, BeforeFits, CostIn, Cost
<1> QED BY <1>9, <1>10, <1>13, <1>14, <1>15 DEF LimiterOK

\* Time passes: what was recorded grows older, in the windows as in what was sent.
LEMMA TickKeepsLimiter ==
  ASSUME LimiterOK, Tick
  PROVE  LimiterOK'
<1> DEFINE since == sent.since
           before == sent.before
           aged(requests) == [k \in Kinds |-> Older(requests[k])]
<1>1. /\ windows' = [rule \in DOMAIN windows |-> Older(windows[rule])]
      /\ sent' = [sent EXCEPT !.since = [k \in Kinds |-> Older(@[k])],
                              !.before = [k \in Kinds |-> Older(@[k])]]
  BY DEF Tick
<1>2. DOMAIN windows' = DOMAIN windows /\ Applicable' = Applicable
  BY <1>1 DEF Applicable
<1>3. /\ since \in [Kinds -> Counts] /\ \A k \in Kinds : Grows(since[k])
      /\ before \in [Kinds -> Counts] /\ \A k \in Kinds : Grows(before[k])
      /\ sent \in SentType
  BY DEF LimiterOK, WindowsType, SentType, CountsGrow
<1>4. /\ sent'.since = aged(since) /\ sent'.before = aged(before)
      /\ sent'.rules = sent.rules
      /\ sent' = [since |-> aged(since), before |-> aged(before), rules |-> sent.rules]
  BY <1>1, <1>3 DEF SentType
<1>5. ASSUME NEW f \in Counts
      PROVE  /\ Older(f) \in Counts /\ Older(f)[0] = 0
             /\ \A n \in Spans \ {0} : Older(f)[n] = f[n - 1] /\ n - 1 \in Spans
  <2>1. 0 \in Spans /\ \A n \in Spans \ {0} : n - 1 \in Spans
    BY RestClientAssumption DEF Spans
  <2> QED BY <2>1 DEF Older, Counts
<1>6. ASSUME NEW requests \in [Kinds -> Counts], \A k \in Kinds : Grows(requests[k])
      PROVE  /\ aged(requests) \in [Kinds -> Counts]
             /\ \A k \in Kinds : Grows(aged(requests)[k])
             /\ \A rule \in FallbackRules \cup ExchangeRules :
                  CostIn(rule, aged(requests), rule.interval)
                    <= CostIn(rule, requests, rule.interval)
             /\ \A rule \in FallbackRules \cup ExchangeRules : \A n \in Spans :
                  CostIn(rule, aged(requests), n)
                    = IF n = 0 THEN 0 ELSE CostIn(rule, requests, n - 1)
  <2>1. aged(requests) \in [Kinds -> Counts] BY <1>5
  <2>2. \A k \in Kinds : Grows(aged(requests)[k])
    <3> SUFFICES ASSUME NEW k \in Kinds PROVE Grows(Older(requests[k])) OBVIOUS
    <3>1. requests[k] \in Counts /\ Grows(requests[k]) /\ 0 \in Nat BY <1>6
    <3> QED BY <3>1, MoreAndOlder
  <2>3. ASSUME NEW rule \in FallbackRules \cup ExchangeRules, NEW n \in Spans
        PROVE  CostIn(rule, aged(requests), n)
                 = IF n = 0 THEN 0 ELSE CostIn(rule, requests, n - 1)
    <3>1. \A k \in Kinds : aged(requests)[k][n] = IF n = 0 THEN 0 ELSE requests[k][n - 1]
      BY <1>5
    <3>2. {"time", "info", "signed"} \subseteq Kinds BY DEF Kinds
    <3>3. \A k \in Kinds : Cost(rule, WeightOf[k]) * 0 = 0 BY RuleFacts
    <3> HIDE DEF aged
    <3> QED BY <3>1, <3>2, <3>3 DEF CostIn
  <2>4. ASSUME NEW rule \in FallbackRules \cup ExchangeRules
        PROVE  CostIn(rule, aged(requests), rule.interval)
                 <= CostIn(rule, requests, rule.interval)
    <3>1. /\ rule.interval \in Spans \ {0} /\ rule.interval - 1 \in Spans
          /\ rule.interval - 1 <= rule.interval
      BY RuleFacts DEF Spans
    <3>2. \A k \in Kinds : Cost(rule, WeightOf[k]) <= Cost(rule, WeightOf[k])
      BY RuleFacts
    <3>3. CostIn(rule, requests, rule.interval - 1)
            <= CostIn(rule, requests, rule.interval)
      BY <1>6, <3>1, <3>2, CostInGrows
    <3> QED BY <2>3, <3>1, <3>3
  <2> QED BY <2>1, <2>2, <2>3, <2>4
<1> HIDE DEF aged
<1>7. WindowsType'
  <2>1. \A rule \in DOMAIN windows : Older(windows[rule]) \in Counts
    BY <1>5 DEF LimiterOK, WindowsType
  <2>2. windows' \in [DOMAIN windows -> Counts] BY <1>1, <2>1
  <2>3. sent' \in SentType BY <1>3, <1>4, <1>6 DEF SentType
  <2> QED BY <1>2, <2>2, <2>3 DEF LimiterOK, WindowsType
<1>8. CountsGrow' BY <1>3, <1>4, <1>6 DEF CountsGrow
<1>9. ASSUME NEW rule \in Applicable
      PROVE  /\ rule \in FallbackRules \cup ExchangeRules /\ rule \in DOMAIN windows
             /\ \A n \in Spans : windows'[rule][n] = CostIn(rule, sent'.since, n)
             /\ CostIn(rule, sent'.since, rule.interval) <= rule.limit
  <2>1. rule \in FallbackRules \cup ExchangeRules /\ rule \in DOMAIN windows
        /\ windows[rule] \in Counts
    BY AppliedRules DEF LimiterOK, WindowsType
  <2>2. ASSUME NEW n \in Spans PROVE windows'[rule][n] = CostIn(rule, sent'.since, n)
    <3>1. windows'[rule][n] = IF n = 0 THEN 0 ELSE windows[rule][n - 1]
      BY <1>1, <1>5, <2>1
    <3>2. n # 0 => windows[rule][n - 1] = CostIn(rule, since, n - 1)
      BY <1>5, <2>1 DEF LimiterOK, WindowsFollow
    <3> QED BY <1>3, <1>4, <1>6, <2>1, <3>1, <3>2
  <2>3. CostIn(rule, since, rule.interval) <= rule.limit
    BY DEF LimiterOK, LimitsInForce, Left, CostIn
  <2>4. /\ rule.interval \in Spans /\ rule.limit \in Nat
        /\ CostIn(rule, since, rule.interval) \in Nat
        /\ CostIn(rule, sent'.since, rule.interval) \in Nat
    BY <1>3, <1>4, <1>6, <2>1, RuleFacts, CostInType
  <2>5. CostIn(rule, sent'.since, rule.interval) <= CostIn(rule, since, rule.interval)
    BY <1>3, <1>4, <1>6, <2>1
  <2> QED BY <2>1, <2>2, <2>3, <2>4, <2>5
<1>10. WindowsFollow' BY <1>2, <1>9 DEF WindowsFollow, CostIn, Cost
<1>11. LimitsInForce'
  BY <1>2, <1>9 DEF LimitsInForce, Left, CostIn, Cost
<1>12. BeforeFits'
  <2> SUFFICES ASSUME NEW old \in sent.rules, old.type \in Types
               PROVE  CostIn(old, sent'.before, old.interval) <= old.limit
    BY <1>4 DEF BeforeFits, CostIn, Cost
  <2>1. old \in FallbackRules \cup ExchangeRules BY <1>3 DEF SentType
  <2>2. CostIn(old, before, old.interval) <= old.limit BY DEF LimiterOK, BeforeFits
  <2>3. /\ old.interval \in Spans /\ old.limit \in Nat
        /\ CostIn(old, before, old.interval) \in Nat
        /\ CostIn(old, sent'.before, old.interval) \in Nat
    BY <1>3, <1>4, <1>6, <2>1, RuleFacts, CostInType
  <2>4. CostIn(old, sent'.before, old.interval) <= CostIn(old, before, old.interval)
    BY <1>3, <1>4, <1>6, <2>1
  <2> QED BY <2>2, <2>3, <2>4
<1> QED BY <1>7, <1>8, <1>10, <1>11, <1>12 DEF LimiterOK

\* New rules start from empty windows; what was sent is held against the old.
LEMMA InstallKeepsLimiter ==
  ASSUME LimiterOK, windows' = Installed(ExchangeRules),
         sent' = NothingSent(DOMAIN windows, sent.since)
  PROVE  LimiterOK'
<1>1. /\ sent'.since = NoneSent /\ sent'.before = sent.since
      /\ sent'.rules = DOMAIN windows
  BY DEF NothingSent
<1>2. DOMAIN windows' = ExchangeRules
      /\ \A rule \in ExchangeRules : windows'[rule] = Nothing
  BY DEF Installed
<1>3. WindowsType'
  <2>1. windows' \in [ExchangeRules -> Counts] BY NothingFacts DEF Installed
  <2>2. sent' \in SentType
    BY NothingFacts DEF NothingSent, SentType, LimiterOK, WindowsType
  <2> QED BY <1>2, <2>1, <2>2 DEF WindowsType
<1>4. CountsGrow'
  BY <1>1, NothingFacts DEF CountsGrow, LimiterOK
<1>5. ASSUME NEW rule \in ExchangeRules, NEW n \in Spans
      PROVE  windows'[rule][n] = 0 /\ CostIn(rule, sent'.since, n) = 0
  BY <1>1, <1>2, <1>5, NothingFacts DEF Nothing
<1>6. WindowsFollow'
  BY <1>2, <1>5 DEF WindowsFollow, Applicable, CostIn, Cost
<1>7. LimitsInForce'
  <2>1. \A rule \in ExchangeRules : rule.interval \in Spans /\ 0 <= rule.limit
    BY RuleFacts
  <2> QED BY <1>2, <1>5, <2>1 DEF LimitsInForce, Applicable, Left, CostIn, Cost
<1>8. BeforeFits'
  BY <1>1 DEF BeforeFits, LimiterOK, LimitsInForce, Applicable, Left, CostIn, Cost
<1> QED BY <1>3, <1>4, <1>6, <1>7, <1>8 DEF LimiterOK

LEMMA LimiterInit == Init => LimiterOK
<1> SUFFICES ASSUME Init PROVE LimiterOK OBVIOUS
<1>1. /\ sent.since = NoneSent /\ sent.before = NoneSent /\ sent.rules = FallbackRules
      /\ windows = Installed(FallbackRules) /\ sent = NothingSent(FallbackRules, NoneSent)
  BY DEF Init, NothingSent
<1>2. DOMAIN windows = FallbackRules
      /\ \A rule \in FallbackRules : windows[rule] = Nothing
  BY <1>1 DEF Installed
<1>3. WindowsType
  <2>1. windows \in [FallbackRules -> Counts] BY <1>1, NothingFacts DEF Installed
  <2>2. sent \in SentType BY <1>1, NothingFacts DEF NothingSent, SentType
  <2> QED BY <1>2, <2>1, <2>2 DEF WindowsType
<1>4. CountsGrow BY <1>1, NothingFacts DEF CountsGrow
<1>5. \A rule \in FallbackRules : \A n \in Spans :
        windows[rule][n] = 0 /\ CostIn(rule, NoneSent, n) = 0
  BY <1>2, NothingFacts DEF Nothing
<1>6. WindowsFollow BY <1>1, <1>2, <1>5 DEF WindowsFollow, Applicable
<1>7. \A rule \in FallbackRules : rule.interval \in Spans /\ 0 <= rule.limit
  BY RuleFacts
<1>8. LimitsInForce
  BY <1>1, <1>2, <1>5, <1>7 DEF LimitsInForce, Applicable, Left, CostIn
<1>9. BeforeFits BY <1>1, <1>5, <1>7 DEF BeforeFits
<1> QED BY <1>3, <1>4, <1>6, <1>8, <1>9 DEF LimiterOK

-----------------------------------------------------------------------------
(* A call and its frames.                                                  *)

CallType == [frames : Seq(FrameType), sends : Nat]

Out(frame) == IF frame.pc \in {"sent", "served"} THEN 1 ELSE 0

\* What one attempt of a request may send: itself, and a request for the time
\* with all its attempts.
Round == MaxRetries + 2

Budgeted(call) ==
  LET f == call.frames
  IN  /\ Len(f) = 0 => call.sends <= (MaxRetries + 1) * Round
      /\ Len(f) = 1 => call.sends <= IF f[1].pc = "resynced" THEN f[1].attempt * Round
                                     ELSE (f[1].attempt - 1) * Round + Out(f[1])
      /\ Len(f) = 2 => /\ f[1].pc = "served" /\ f[2].kind = "time"
                       /\ f[2].pc # "resynced"
                       /\ call.sends <= (f[1].attempt - 1) * Round
                                          + f[2].attempt + Out(f[2])

\* An answer with the time was given while its request was under way; only a
\* signed request is timestamped.
FrameOK(f) ==
  /\ f.kind = "time" => f.stamp \in 0..f.elapsed
  /\ f.error = "timestamp" => f.kind = "signed"

CallOK(call) ==
  /\ call \in CallType /\ Len(call.frames) <= 2
  /\ Budgeted(call)
  /\ \A i \in DOMAIN call.frames : FrameOK(call.frames[i])

LEMMA CallFacts ==
  ASSUME NEW call \in CallType, CallOK(call)
  PROVE  /\ call.frames \in Seq(FrameType) /\ call.sends \in Nat
         /\ Len(call.frames) \in {0, 1, 2} /\ DOMAIN call.frames = 1..Len(call.frames)
         /\ \A i \in DOMAIN call.frames :
              call.frames[i] \in FrameType /\ FrameOK(call.frames[i])
         /\ Budgeted(call)
<1>1. call.frames \in Seq(FrameType) /\ call.sends \in Nat BY DEF CallType
<1>2. Len(call.frames) \in Nat /\ Len(call.frames) <= 2 BY <1>1 DEF CallOK
<1>3. Len(call.frames) \in {0, 1, 2}
  <2>1. \A n \in Nat : n <= 2 => n \in {0, 1, 2} OBVIOUS
  <2> QED BY <1>2, <2>1, Zenon
<1>4. DOMAIN call.frames = 1..Len(call.frames) BY <1>1
<1>5. \A i \in DOMAIN call.frames : call.frames[i] \in FrameType BY <1>1
<1>6. Budgeted(call) /\ \A i \in DOMAIN call.frames : FrameOK(call.frames[i])
  BY DEF CallOK
<1> QED BY <1>1, <1>3, <1>4, <1>5, <1>6

LEMMA FrameFacts ==
  ASSUME NEW f \in FrameType
  PROVE  /\ f.kind \in Kinds /\ f.attempt \in 1..MaxRetries + 1 /\ f.attempt \in Nat \ {0}
         /\ f.timer \in Int /\ f.elapsed \in Nat /\ f.stamp \in Int /\ f.quiet \in Nat
         /\ Out(f) \in 0..1 /\ MaxRetries \in Nat
BY RestClientAssumption DEF FrameType, Out

\* A sequence of at most two frames, written out.
LEMMA FramesOf ==
  ASSUME NEW f \in FrameType, NEW g \in FrameType
  PROVE  /\ <<>> \in Seq(FrameType) /\ Len(<<>>) = 0
         /\ <<f>> \in Seq(FrameType) /\ Len(<<f>>) = 1 /\ <<f>>[1] = f
         /\ <<f, g>> \in Seq(FrameType) /\ Len(<<f, g>>) = 2
         /\ <<f, g>>[1] = f /\ <<f, g>>[2] = g
OBVIOUS

\* Another round costs another Round.
LEMMA Rounds ==
  ASSUME NEW a \in Nat \ {0}
  PROVE  /\ (a - 1) * Round \in Nat /\ a * Round \in Nat
         /\ (a - 1) * Round + Round = a * Round
<1>1. Round \in Nat BY RestClientAssumption DEF Round
<1>2. \A x, y \in Nat : x * y \in Nat OBVIOUS
<1>3. (a - 1) * Round \in Nat /\ a * Round \in Nat BY <1>1, <1>2
<1>4. (a - 1) * Round + Round = a * Round BY <1>1
<1> QED BY <1>3, <1>4

LEMMA FewerRounds ==
  ASSUME NEW a \in Nat, NEW b \in Nat, a <= b
  PROVE  a * Round <= b * Round
<1>1. Round \in Nat BY RestClientAssumption DEF Round
<1>2. (b - a) * Round \in Nat BY <1>1
<1>3. a * Round + (b - a) * Round = b * Round BY <1>1
<1>4. a * Round \in Int /\ b * Round \in Int BY <1>1
<1> QED BY <1>2, <1>3, <1>4

WithTop(call, frame, sends) ==
  [frames |-> [call.frames EXCEPT ![Len(call.frames)] = frame], sends |-> sends]

LEMMA WithTopFacts ==
  ASSUME NEW call \in CallType, CallOK(call), Len(call.frames) # 0,
         NEW g \in FrameType, FrameOK(g), NEW sends \in Nat
  PROVE  /\ Len(call.frames) \in {1, 2}
         /\ call.frames[Len(call.frames)] \in FrameType
         /\ FrameOK(call.frames[Len(call.frames)])
         /\ WithTop(call, g, sends) \in CallType
         /\ Len(WithTop(call, g, sends).frames) = Len(call.frames)
         /\ WithTop(call, g, sends).frames[Len(call.frames)] = g
         /\ WithTop(call, g, sends).sends = sends
         /\ Len(call.frames) = 2 => /\ WithTop(call, g, sends).frames[1] = call.frames[1]
                                    /\ call.frames[1] \in FrameType
         /\ Budgeted(WithTop(call, g, sends)) => CallOK(WithTop(call, g, sends))
<1> PICK d : d = Len(call.frames) OBVIOUS
<1> PICK new : new = WithTop(call, g, sends) OBVIOUS
<1> DEFINE s == [call.frames EXCEPT ![d] = g]
<1>1. /\ call.frames \in Seq(FrameType) /\ d \in {1, 2} /\ DOMAIN call.frames = 1..d
      /\ \A i \in 1..d : call.frames[i] \in FrameType /\ FrameOK(call.frames[i])
  BY CallFacts
<1>2. s \in Seq(FrameType) /\ Len(s) = d /\ DOMAIN s = 1..d /\ s[d] = g
      /\ \A i \in 1..d : i # d => s[i] = call.frames[i]
  BY <1>1
<1>3. new.frames = s /\ new.sends = sends /\ new = [frames |-> s, sends |-> sends]
  BY DEF WithTop
<1> HIDE DEF s
<1>4. new \in CallType BY <1>2, <1>3 DEF CallType
<1>5. \A i \in DOMAIN new.frames : FrameOK(new.frames[i]) BY <1>1, <1>2, <1>3
<1>6. Len(new.frames) = d /\ d <= 2 BY <1>1, <1>2, <1>3
<1>7. Budgeted(new) => CallOK(new) BY <1>4, <1>5, <1>6 DEF CallOK
<1>8. 1 \in 1..d /\ d \in 1..d BY <1>1
<1>9. call.frames[d] \in FrameType /\ FrameOK(call.frames[d]) BY <1>1, <1>8
<1>10. d = 2 => s[1] = call.frames[1] /\ call.frames[1] \in FrameType BY <1>1, <1>2, <1>8
<1>11. new.frames[d] = g /\ (d = 2 => new.frames[1] = call.frames[1]
                                      /\ call.frames[1] \in FrameType)
  BY <1>2, <1>3, <1>10
<1> QED BY <1>1, <1>3, <1>4, <1>6, <1>7, <1>9, <1>11

\* The frame on top moves on within its attempt.
LEMMA SameAttempt ==
  ASSUME NEW call \in CallType, CallOK(call), Len(call.frames) # 0,
         NEW f, f = call.frames[Len(call.frames)],
         NEW g \in FrameType, FrameOK(g), NEW sends \in Nat,
         g.kind = f.kind, g.attempt = f.attempt,
         f.pc # "resynced", g.pc # "resynced",
         sends + Out(f) = call.sends + Out(g)
  PROVE  CallOK(WithTop(call, g, sends))
<1>1. PICK d : d = Len(call.frames) OBVIOUS
<1>2. PICK new : new = WithTop(call, g, sends) OBVIOUS
<1>3. PICK e : e = call.frames[1] OBVIOUS
<1>10. /\ d \in {1, 2} /\ call.frames[d] \in FrameType /\ Len(new.frames) = d
       /\ new.frames[d] = g /\ new.sends = sends
       /\ d = 2 => new.frames[1] = call.frames[1] /\ call.frames[1] \in FrameType
       /\ Budgeted(new) => CallOK(new)
  BY <1>1, <1>2, WithTopFacts
<1>4. /\ d \in {1, 2} /\ f \in FrameType /\ Len(new.frames) = d /\ new.frames[d] = g
      /\ new.sends = sends /\ (d = 2 => new.frames[1] = e /\ e \in FrameType)
      /\ Budgeted(new) => CallOK(new)
  BY <1>1, <1>3, <1>10
<1>5. Budgeted(call) /\ call.sends \in Nat BY CallFacts
<1>6. f.attempt \in Nat \ {0} /\ Out(f) \in Nat /\ Out(g) \in Nat BY <1>4, FrameFacts
<1>7. CASE d = 1
  <2>1. call.sends <= (f.attempt - 1) * Round + Out(f)
    BY <1>1, <1>5, <1>7 DEF Budgeted
  <2>2. PICK p \in Nat : p = (f.attempt - 1) * Round BY <1>6, Rounds
  <2>3. sends <= p + Out(g) BY <1>5, <1>6, <2>1, <2>2
  <2> QED BY <1>2, <1>4, <1>7, <2>2, <2>3 DEF Budgeted
<1>8. CASE d = 2
  <2>1. /\ e.pc = "served" /\ f.kind = "time"
        /\ call.sends <= (e.attempt - 1) * Round + f.attempt + Out(f)
    BY <1>1, <1>3, <1>5, <1>8 DEF Budgeted
  <2>2. e.attempt \in Nat \ {0} BY <1>4, <1>8, FrameFacts
  <2>3. PICK p \in Nat : p = (e.attempt - 1) * Round BY <2>2, Rounds
  <2>4. sends <= p + g.attempt + Out(g) BY <1>5, <1>6, <2>1, <2>3
  <2> QED BY <1>2, <1>4, <1>8, <2>1, <2>3, <2>4 DEF Budgeted
<1> QED BY <1>4, <1>7, <1>8

\* The frame on top tries again.
LEMMA NextAttempt ==
  ASSUME NEW call \in CallType, CallOK(call), Len(call.frames) # 0,
         NEW f, f = call.frames[Len(call.frames)],
         NEW g \in FrameType, FrameOK(g),
         f.pc \in {"served", "resynced"}, g.pc = "backoff",
         g.kind = f.kind, g.attempt = f.attempt + 1
  PROVE  CallOK(WithTop(call, g, call.sends))
<1>1. PICK d : d = Len(call.frames) OBVIOUS
<1>2. PICK new : new = WithTop(call, g, call.sends) OBVIOUS
<1>3. PICK e : e = call.frames[1] OBVIOUS
<1>4. Budgeted(call) /\ call.sends \in Nat BY CallFacts
<1>5. /\ d \in {1, 2} /\ call.frames[d] \in FrameType /\ Len(new.frames) = d
      /\ new.frames[d] = g /\ new.sends = call.sends
      /\ d = 2 => new.frames[1] = call.frames[1] /\ call.frames[1] \in FrameType
      /\ Budgeted(new) => CallOK(new)
  BY <1>1, <1>2, <1>4, WithTopFacts
<1>6. f = call.frames[d] /\ f \in FrameType BY <1>1, <1>5
<1>7. f.attempt \in Nat \ {0} /\ Out(f) \in 0..1 /\ Out(g) = 0 BY <1>6, FrameFacts DEF Out
<1>8. CASE d = 1
  <2>1. PICK p \in Nat : p = (f.attempt - 1) * Round BY <1>7, Rounds
  <2>2. PICK q \in Nat : q = f.attempt * Round /\ p + Round = q BY <1>7, <2>1, Rounds
  <2>3. Round \in Nat \ {0} BY RestClientAssumption DEF Round
  <2>4. call.sends <= p + Out(f) \/ call.sends <= q
    BY <1>1, <1>4, <1>6, <1>8, <2>1, <2>2 DEF Budgeted
  <2>5. call.sends <= q BY <1>4, <1>7, <2>2, <2>3, <2>4
  <2>6. g.attempt - 1 = f.attempt BY <1>7
  <2>7. call.sends <= (g.attempt - 1) * Round + Out(g) BY <1>7, <2>2, <2>5, <2>6
  <2> QED BY <1>2, <1>5, <1>8, <2>7 DEF Budgeted
<1>9. CASE d = 2
  <2>1. e.attempt \in Nat \ {0} BY <1>3, <1>5, <1>9, FrameFacts
  <2>2. PICK p \in Nat : p = (e.attempt - 1) * Round BY <2>1, Rounds
  <2>3. /\ e.pc = "served" /\ f.kind = "time" /\ f.pc # "resynced"
        /\ call.sends <= p + f.attempt + Out(f)
    BY <1>1, <1>3, <1>4, <1>6, <1>9, <2>2 DEF Budgeted
  <2>4. call.sends <= p + g.attempt + Out(g) BY <1>4, <1>7, <2>3
  <2>5. new.frames[1] = e BY <1>3, <1>5, <1>9
  <2> QED BY <1>2, <1>5, <1>9, <2>2, <2>3, <2>4, <2>5 DEF Budgeted
<1> QED BY <1>5, <1>8, <1>9

\* Whatever a call is doing, the requests it has sent are within its budget.
LEMMA SendsBounded ==
  ASSUME NEW call \in CallType, CallOK(call)
  PROVE  call.sends <= (MaxRetries + 1) * Round
<1>1. PICK d : d = Len(call.frames) OBVIOUS
<1>2. PICK f : f = call.frames[1] OBVIOUS
<1>3. PICK g : g = call.frames[2] OBVIOUS
<1>4. /\ d \in {0, 1, 2} /\ (d # 0 => f \in FrameType) /\ (d = 2 => g \in FrameType)
      /\ Budgeted(call) /\ call.sends \in Nat
  BY <1>1, <1>2, <1>3, CallFacts
<1>5. MaxRetries \in Nat /\ Round = MaxRetries + 2 BY RestClientAssumption DEF Round
<1>6. CASE d = 0 BY <1>1, <1>4, <1>6 DEF Budgeted
<1>7. CASE d # 0
  <2>1. f.attempt \in Nat \ {0} /\ f.attempt <= MaxRetries + 1 /\ Out(f) \in 0..1
    BY <1>4, <1>5, <1>7, FrameFacts
  <2>2. PICK p \in Nat : p = (f.attempt - 1) * Round BY <2>1, Rounds
  <2>3. PICK q \in Nat : q = f.attempt * Round /\ p + Round = q BY <2>1, <2>2, Rounds
  <2>4. q <= (MaxRetries + 1) * Round BY <1>5, <2>1, <2>3, FewerRounds
  <2>5. call.sends <= q
    <3>1. CASE d = 1
      <4>1. call.sends <= p + Out(f) \/ call.sends <= q
        BY <1>1, <1>2, <1>4, <2>2, <2>3, <3>1 DEF Budgeted
      <4> QED BY <1>4, <1>5, <2>1, <2>3, <4>1
    <3>2. CASE d = 2
      <4>1. g.attempt \in Nat /\ g.attempt <= MaxRetries + 1 /\ Out(g) \in 0..1
        BY <1>4, <1>5, <3>2, FrameFacts
      <4>2. call.sends <= p + g.attempt + Out(g)
        BY <1>1, <1>2, <1>3, <1>4, <2>2, <3>2 DEF Budgeted
      <4> QED BY <1>4, <1>5, <2>3, <4>1, <4>2
    <3> QED BY <1>4, <1>7, <3>1, <3>2
  <2>6. PICK m \in Int : m = (MaxRetries + 1) * Round BY <1>5
  <2> QED BY <1>4, <2>3, <2>4, <2>5, <2>6
<1> QED BY <1>6, <1>7

Ended(call) == [frames |-> <<>>, sends |-> call.sends]

LEMMA EndedOK ==
  ASSUME NEW call \in CallType, CallOK(call)
  PROVE  CallOK(Ended(call))
<1>1. call.sends \in Nat /\ call.sends <= (MaxRetries + 1) * Round
  BY CallFacts, SendsBounded
<1>2. Ended(call) \in CallType BY <1>1 DEF Ended, CallType
<1>3. Ended(call).frames = <<>> /\ Ended(call).sends = call.sends BY DEF Ended
<1>4. Budgeted(Ended(call)) BY <1>1, <1>3 DEF Budgeted
<1> QED BY <1>2, <1>3, <1>4 DEF CallOK

Resumed(call) ==
  [frames |-> <<[call.frames[1] EXCEPT !.pc = "resynced"]>>, sends |-> call.sends]

\* The request for the time is over: all it sent is charged to one attempt.
LEMMA ResumedOK ==
  ASSUME NEW call \in CallType, CallOK(call), Len(call.frames) = 2
  PROVE  CallOK(Resumed(call))
<1>1. PICK f : f = call.frames[1] OBVIOUS
<1>2. PICK g : g = call.frames[2] OBVIOUS
<1>3. PICK h : h = [f EXCEPT !.pc = "resynced"] OBVIOUS
<1>4. /\ f \in FrameType /\ g \in FrameType /\ FrameOK(f)
      /\ Budgeted(call) /\ call.sends \in Nat
  BY <1>1, <1>2, CallFacts
<1>5. MaxRetries \in Nat /\ Round = MaxRetries + 2 BY RestClientAssumption DEF Round
<1>6. /\ f.attempt \in Nat \ {0}
      /\ g.attempt \in Nat /\ g.attempt <= MaxRetries + 1 /\ Out(g) \in 0..1
  BY <1>4, <1>5, FrameFacts
<1>7. h \in FrameType /\ FrameOK(h) /\ h.pc = "resynced" /\ h.attempt = f.attempt
  BY <1>3, <1>4 DEF FrameType, FrameOK
<1>8. PICK p \in Nat : p = (f.attempt - 1) * Round BY <1>6, Rounds
<1>9. PICK q \in Nat : q = f.attempt * Round /\ p + Round = q BY <1>6, <1>8, Rounds
<1>10. call.sends <= p + g.attempt + Out(g)
  BY <1>1, <1>2, <1>4, <1>8 DEF Budgeted
<1>11. call.sends <= q BY <1>4, <1>5, <1>6, <1>9, <1>10
<1>12. Resumed(call).frames = <<h>> /\ Resumed(call).sends = call.sends
  BY <1>1, <1>3 DEF Resumed
<1>13. Resumed(call) \in CallType BY <1>1, <1>3, <1>4, <1>7 DEF Resumed, CallType
<1>14. Len(<<h>>) = 1 /\ <<h>>[1] = h /\ DOMAIN <<h>> = {1} OBVIOUS
<1>15. Budgeted(Resumed(call)) BY <1>7, <1>9, <1>11, <1>12, <1>14 DEF Budgeted
<1> QED BY <1>7, <1>12, <1>13, <1>14, <1>15 DEF CallOK

\* A new request starts with its first attempt.
LEMMA FrameIsNew ==
  ASSUME NEW kind \in Kinds
  PROVE  /\ Frame(kind) \in FrameType /\ FrameOK(Frame(kind))
         /\ Frame(kind).pc = "acquire" /\ Frame(kind).attempt = 1
         /\ Frame(kind).kind = kind /\ Out(Frame(kind)) = 0
BY RestClientAssumption DEF Frame, FrameType, FrameOK, Out

Asking(call) ==
  [frames |-> Append(call.frames, Frame("time")), sends |-> call.sends]

\* Only a signed request is rejected for its timestamp, so the one that asks for
\* the time never asks again.
LEMMA AskingOK ==
  ASSUME NEW call \in CallType, CallOK(call), Len(call.frames) # 0,
         NEW f, f = call.frames[Len(call.frames)],
         f.pc = "served", f.error = "timestamp"
  PROVE  CallOK(Asking(call))
<1>1. PICK d : d = Len(call.frames) OBVIOUS
<1>2. /\ d \in {1, 2} /\ call.frames \in Seq(FrameType) /\ f \in FrameType /\ FrameOK(f)
      /\ Budgeted(call) /\ call.sends \in Nat
  BY <1>1, CallFacts
<1>3. d = 1
  <2>1. f.kind = "signed" BY <1>2 DEF FrameOK
  <2>2. d = 2 => f.kind = "time" BY <1>1 , <1>2 DEF Budgeted
  <2> QED BY <1>2, <2>1, <2>2
<1>4. PICK g : g = Frame("time") OBVIOUS
<1>5. /\ g \in FrameType /\ FrameOK(g) /\ g.pc = "acquire" /\ g.attempt = 1
      /\ g.kind = "time" /\ Out(g) = 0
  BY <1>4, FrameIsNew DEF Kinds
<1>6. PICK s : s = Append(call.frames, g) OBVIOUS
<1>7. s \in Seq(FrameType) /\ Len(s) = 2 /\ DOMAIN s = {1, 2} /\ s[1] = f /\ s[2] = g
  <2>1. s \in Seq(FrameType) /\ Len(s) = Len(call.frames) + 1
    BY <1>2, <1>5, <1>6
  <2>2. \A i \in 1..Len(call.frames) : s[i] = call.frames[i]
    BY <1>2, <1>5, <1>6
  <2>3. s[Len(call.frames) + 1] = g BY <1>2, <1>5, <1>6
  <2>4. Len(call.frames) = 1 BY <1>1, <1>3
  <2>5. DOMAIN s = 1..2 BY <2>1, <2>4
  <2>6. Len(s) = 2 /\ s[2] = g BY <2>1, <2>3, <2>4
  <2>7. s[1] = f BY <2>2, <2>4
  <2>8. 1..2 = {1, 2} OBVIOUS
  <2> QED BY <2>1, <2>5, <2>6, <2>7, <2>8, Zenon
<1>8. Asking(call).frames = s /\ Asking(call).sends = call.sends
  BY <1>4, <1>6 DEF Asking
<1>9. Asking(call) \in CallType BY <1>2, <1>4, <1>6, <1>7 DEF Asking, CallType
<1>10. f.attempt \in Nat \ {0} /\ Out(f) = 1 BY <1>2, FrameFacts DEF Out
<1>11. PICK p \in Nat : p = (f.attempt - 1) * Round BY <1>10, Rounds
<1>12. call.sends <= p + Out(f) BY <1>1, <1>2, <1>3, <1>11 DEF Budgeted
<1>13. call.sends <= p + g.attempt + Out(g) BY <1>2, <1>5, <1>10, <1>11, <1>12
<1>14. Budgeted(Asking(call))
  <2>1. PICK new : new = Asking(call) OBVIOUS
  <2>2. /\ Len(new.frames) = 2 /\ new.frames[1] = f /\ new.frames[2] = g
        /\ new.sends = call.sends
    BY <1>7, <1>8, <2>1
  <2>3. f.pc = "served" /\ g.kind = "time" /\ g.pc # "resynced" BY <1>5
  <2> QED BY <1>11, <1>13, <2>1, <2>2, <2>3 DEF Budgeted
<1>15. Len(Asking(call).frames) <= 2 /\ DOMAIN Asking(call).frames = {1, 2}
  <2>1. Len(s) <= 2 BY <1>7
  <2> QED BY <1>7, <1>8, <2>1, Zenon
<1>16. \A i \in DOMAIN Asking(call).frames : FrameOK(Asking(call).frames[i])
  BY <1>2, <1>5, <1>7, <1>8
<1> QED BY <1>9, <1>14, <1>15, <1>16 DEF CallOK

Started(kind) == [frames |-> <<Frame(kind)>>, sends |-> 0]

LEMMA StartedOK ==
  ASSUME NEW kind \in Kinds
  PROVE  CallOK(Started(kind))
<1>1. PICK f : f = Frame(kind) OBVIOUS
<1>2. f \in FrameType /\ FrameOK(f) /\ f.pc = "acquire" /\ f.attempt = 1 /\ Out(f) = 0
  BY <1>1, FrameIsNew
<1>3. Started(kind).frames = <<f>> /\ Started(kind).sends = 0 BY <1>1 DEF Started
<1>4. Started(kind) \in CallType BY <1>1, <1>2 DEF Started, CallType
<1>5. Len(<<f>>) = 1 /\ <<f>>[1] = f /\ DOMAIN <<f>> = {1} OBVIOUS
<1>6. (f.attempt - 1) * Round = 0 BY <1>2, RestClientAssumption DEF Round
<1>7. Budgeted(Started(kind)) BY <1>2, <1>3, <1>5, <1>6 DEF Budgeted
<1> QED BY <1>2, <1>3, <1>4, <1>5, <1>7 DEF CallOK

-----------------------------------------------------------------------------
(* How long a waiter sleeps.                                               *)

LEMMA GreatestElement ==
  ASSUME NEW b \in Nat, NEW S, S \subseteq 0..b, S # {}
  PROVE  Max(S) \in S
<1> DEFINE T == {n \in Nat : \E x \in S : n = b - x}
<1>1. T \subseteq Nat OBVIOUS
<1>2. T # {}
  <2>1. PICK x \in S : TRUE OBVIOUS
  <2>2. b - x \in Nat BY <2>1
  <2> QED BY <2>1, <2>2
<1>3. PICK n \in T : \A k \in T : n <= k
  <2> HIDE DEF T
  <2> QED BY <1>1, <1>2, LeastElement
<1>4. PICK x \in S : n = b - x BY <1>3
<1>5. \A y \in S : x >= y
  <2> SUFFICES ASSUME NEW y \in S PROVE x >= y OBVIOUS
  <2>1. b - y \in T OBVIOUS
  <2> QED BY <1>3, <1>4, <2>1
<1> QED BY <1>4, <1>5 DEF Max

\* What can fit at all fits once the window is empty: a delay exists.
LEMMA DelayType ==
  ASSUME LimiterOK, NEW kind \in Kinds, ~NeverFits(WeightOf[kind])
  PROVE  Delay(WeightOf[kind]) \in Nat
<1> DEFINE weight == WeightOf[kind]
<1>1. WindowsType /\ WindowsFollow /\ CountsGrow BY DEF LimiterOK
<1>2. ASSUME NEW rule \in Applicable
      PROVE  Wait(rule, weight) \in 0..Horizon
  <2> DEFINE D == {delay \in 0..rule.interval :
                     Used(rule, delay) + Cost(rule, weight) <= rule.limit}
  <2>1. /\ rule \in FallbackRules \cup ExchangeRules /\ rule \in DOMAIN windows
        /\ rule.interval \in 1..Horizon /\ rule.limit \in Nat /\ Horizon \in Nat
        /\ \A k \in Kinds : Cost(rule, WeightOf[k]) \in Nat
    BY <1>1, AppliedRules, RuleFacts
  <2>2. Used(rule, rule.interval) = 0
    <3>1. rule.interval - rule.interval = 0 /\ 0 \in Spans BY <2>1 DEF Spans
    <3>2. Used(rule, rule.interval) = CostIn(rule, sent.since, 0)
      BY <1>1, <3>1 DEF Used, WindowsFollow
    <3>3. \A k \in Kinds : sent.since[k][0] = 0 BY <1>1 DEF CountsGrow, Grows
    <3> QED BY <2>1, <3>2, <3>3 DEF CostIn, Kinds
  <2>3. Cost(rule, weight) <= rule.limit /\ Cost(rule, weight) \in Nat
    BY <2>1 DEF NeverFits
  <2>4. rule.interval \in D BY <2>1, <2>2, <2>3
  <2>5. D \subseteq Nat /\ D \subseteq 0..Horizon BY <2>1
  <2> HIDE DEF D, weight
  <2>6. PICK m \in D : \A k \in D : m <= k BY <2>4, <2>5, LeastElement
  <2>7. Min(D) \in D BY <2>6 DEF Min
  <2> QED BY <2>5, <2>7 DEF Wait, D
<1> DEFINE S == {0} \cup {Wait(rule, weight) : rule \in Applicable}
<1>3. S \subseteq 0..Horizon /\ Horizon \in Nat
  <2>1. Horizon \in Nat BY RestClientAssumption
  <2> HIDE DEF weight
  <2> QED BY <1>2, <2>1
<1>4. Max(S) \in S
  <2> HIDE DEF S
  <2> QED BY <1>3, GreatestElement DEF S
<1> HIDE DEF weight
<1>5. Max(S) \in Nat BY <1>3, <1>4
<1> QED BY <1>5 DEF Delay, weight

\* A back-off doubles with each attempt.
LEMMA BackoffType ==
  ASSUME NEW frame \in FrameType
  PROVE  BackoffFor(frame) \in Int
<1>1. frame.attempt - 1 \in Nat /\ frame.quiet \in Nat BY FrameFacts
<1>2. 2 ^ (frame.attempt - 1) \in Int BY <1>1
<1>3. Backoff \in Nat BY RestClientAssumption
<1>4. Backoff * 2 ^ (frame.attempt - 1) \in Int BY <1>2, <1>3
<1> QED BY <1>1, <1>4 DEF BackoffFor

-----------------------------------------------------------------------------
(* The calls of all tasks.                                                 *)

CallsOK == /\ calls \in [Callers -> CallType]
           /\ \A c \in Callers : CallOK(calls[c])

LEMMA OneCall ==
  ASSUME CallsOK, NEW c \in Callers, NEW new, CallOK(new),
         calls' = [calls EXCEPT ![c] = new]
  PROVE  CallsOK'
<1>1. new \in CallType BY DEF CallOK
<1> QED BY <1>1 DEF CallsOK

LEMMA BusyFacts ==
  ASSUME CallsOK, NEW c \in Callers, Busy(c)
  PROVE  /\ calls[c] \in CallType /\ CallOK(calls[c]) /\ Len(calls[c].frames) # 0
         /\ Top(c) = calls[c].frames[Len(calls[c].frames)]
         /\ Top(c) \in FrameType /\ FrameOK(Top(c))
         /\ calls[c].sends \in Nat /\ Depth(c) = Len(calls[c].frames)
<1>1. PICK call : call = calls[c] OBVIOUS
<1>2. call \in CallType /\ CallOK(call) BY <1>1 DEF CallsOK
<1>3. /\ call.frames \in Seq(FrameType) /\ call.sends \in Nat
      /\ Len(call.frames) \in {0, 1, 2} /\ DOMAIN call.frames = 1..Len(call.frames)
      /\ \A i \in DOMAIN call.frames :
           call.frames[i] \in FrameType /\ FrameOK(call.frames[i])
  BY <1>2, CallFacts
<1>4. call.frames # <<>> BY <1>1 DEF Busy
<1>5. Len(call.frames) # 0 BY <1>3, <1>4
<1>6. Len(call.frames) \in 1..Len(call.frames) BY <1>3, <1>5
<1> QED BY <1>1, <1>2, <1>3, <1>5, <1>6 DEF Top, Depth

LEMMA NewFrames ==
  ASSUME CallsOK, NEW c \in Callers, NEW s, calls' = [calls EXCEPT ![c].frames = s]
  PROVE  calls' = [calls EXCEPT ![c] = [frames |-> s, sends |-> calls[c].sends]]
<1>1. calls[c] \in [frames : Seq(FrameType), sends : Nat] BY DEF CallsOK, CallType
<1>2. [calls[c] EXCEPT !.frames = s] = [frames |-> s, sends |-> calls[c].sends]
  BY <1>1
<1> QED BY <1>2

LEMMA SetTopIsWithTop ==
  ASSUME CallsOK, NEW c \in Callers, NEW frame, SetTop(c, frame)
  PROVE  calls' = [calls EXCEPT ![c] = WithTop(calls[c], frame, calls[c].sends)]
<1>1. calls[c] \in [frames : Seq(FrameType), sends : Nat] BY DEF CallsOK, CallType
<1>2. [calls[c] EXCEPT !.frames[Depth(c)] = frame]
        = WithTop(calls[c], frame, calls[c].sends)
  BY <1>1 DEF WithTop, Depth
<1> QED BY <1>2 DEF SetTop

\* A frame on top that moves on within its attempt.
LEMMA MovesOn ==
  ASSUME CallsOK, NEW c \in Callers, Busy(c),
         NEW g \in FrameType, FrameOK(g),
         g.kind = Top(c).kind, g.attempt = Top(c).attempt,
         Top(c).pc # "resynced", g.pc # "resynced", Out(g) = Out(Top(c)),
         SetTop(c, g)
  PROVE  CallsOK'
<1>1. PICK call : call = calls[c] OBVIOUS
<1>2. PICK f : f = call.frames[Len(call.frames)] OBVIOUS
<1>3. /\ call \in CallType /\ CallOK(call) /\ Len(call.frames) # 0
      /\ Top(c) = f /\ call.sends \in Nat
  BY <1>1, <1>2, BusyFacts
<1>4. call.sends + Out(f) = call.sends + Out(g) BY <1>3
<1>5. CallOK(WithTop(call, g, call.sends)) BY <1>2, <1>3, <1>4, SameAttempt
<1> QED BY <1>1, <1>5, SetTopIsWithTop, OneCall

LEMMA TriesAgain ==
  ASSUME CallsOK, NEW c \in Callers, Busy(c),
         NEW g \in FrameType, FrameOK(g),
         g.kind = Top(c).kind, g.attempt = Top(c).attempt + 1,
         Top(c).pc \in {"served", "resynced"}, g.pc = "backoff",
         SetTop(c, g)
  PROVE  CallsOK'
<1>1. PICK call : call = calls[c] OBVIOUS
<1>2. PICK f : f = call.frames[Len(call.frames)] OBVIOUS
<1>3. /\ call \in CallType /\ CallOK(call) /\ Len(call.frames) # 0 /\ Top(c) = f
  BY <1>1, <1>2, BusyFacts
<1>4. CallOK(WithTop(call, g, call.sends)) BY <1>2, <1>3, NextAttempt
<1> QED BY <1>1, <1>4, SetTopIsWithTop, OneCall

LEMMA Pops ==
  ASSUME CallsOK, NEW c \in Callers, Busy(c), Pop(c)
  PROVE  CallsOK'
<1>2. /\ calls[c] \in CallType /\ CallOK(calls[c]) /\ Len(calls[c].frames) # 0
  BY BusyFacts
<1>3. Len(calls[c].frames) \in {0, 1, 2} BY <1>2, CallFacts
<1>4. CASE Len(calls[c].frames) = 1
  <2>1. calls' = [calls EXCEPT ![c].frames = <<>>] BY <1>4 DEF Pop
  <2>2. calls' = [calls EXCEPT ![c] = Ended(calls[c])] BY <2>1, NewFrames DEF Ended
  <2> QED BY <1>2, <2>2, EndedOK, OneCall
<1>5. CASE Len(calls[c].frames) = 2
  <2>1. PICK s : s = <<[calls[c].frames[1] EXCEPT !.pc = "resynced"]>> OBVIOUS
  <2>2. calls' = [calls EXCEPT ![c].frames = s] BY <1>5, <2>1 DEF Pop
  <2>3. calls' = [calls EXCEPT ![c] = [frames |-> s, sends |-> calls[c].sends]]
    BY <2>2, NewFrames
  <2>4. calls' = [calls EXCEPT ![c] = Resumed(calls[c])] BY <2>1, <2>3 DEF Resumed
  <2> QED BY <1>2, <1>5, <2>4, ResumedOK, OneCall
<1> QED BY <1>2, <1>3, <1>4, <1>5

LEMMA Unwinds ==
  ASSUME CallsOK, NEW c \in Callers, Unwind(c)
  PROVE  CallsOK'
<1>1. CallOK(calls[c]) /\ calls[c] \in CallType BY DEF CallsOK
<1>2. calls' = [calls EXCEPT ![c] = Ended(calls[c])] BY NewFrames DEF Unwind, Ended
<1> QED BY <1>1, <1>2, EndedOK, OneCall

-----------------------------------------------------------------------------
(* The steps of one task.                                                  *)

LEMMA ReadyFacts ==
  ASSUME CallsOK, NEW c \in Callers, ReadyToAcquire(c)
  PROVE  /\ Busy(c) /\ Top(c).pc \in {"acquire", "throttled", "backoff"}
         /\ Top(c).kind \in Kinds
<1>1. Busy(c) /\ Top(c).pc \in {"acquire", "throttled", "backoff"}
  BY DEF ReadyToAcquire, At
<1> QED BY <1>1, BusyFacts, FrameFacts

LEMMA Retimed ==
  ASSUME NEW f \in FrameType, NEW pc \in {"throttled", "sent"}, NEW timer \in Int
  PROVE  [f EXCEPT !.pc = pc, !.timer = timer] \in FrameType
BY DEF FrameType

LEMMA ThrottleCalls ==
  ASSUME LimiterOK, CallsOK, NEW c \in Callers, Throttle(c)
  PROVE  CallsOK'
<1>1. /\ Busy(c) /\ Top(c).pc \in {"acquire", "throttled", "backoff"}
      /\ Top(c).kind \in Kinds
  BY ReadyFacts DEF Throttle
<1>2. PICK f : f = Top(c) OBVIOUS
<1>3. f \in FrameType /\ FrameOK(f) BY <1>1, <1>2, BusyFacts
<1>4. PICK t \in Nat : t = Delay(WeightOf[f.kind])
  BY <1>1, <1>2, DelayType DEF Throttle
<1>5. PICK g : g = [f EXCEPT !.pc = "throttled", !.timer = t] OBVIOUS
<1>6. g \in FrameType /\ g.kind = f.kind /\ g.attempt = f.attempt /\ g.stamp = f.stamp
      /\ g.pc = "throttled" /\ g.elapsed = f.elapsed /\ g.error = f.error
  <2>1. "throttled" \in {"throttled", "sent"} /\ t \in Int OBVIOUS
  <2>2. g \in FrameType BY <1>3, <1>5, <2>1, Retimed, Zenon
  <2> QED BY <1>3, <1>5, <2>2 DEF FrameType
<1>7. FrameOK(g) /\ Out(g) = Out(f) BY <1>1, <1>2, <1>3, <1>6 DEF FrameOK, Out
<1>8. SetTop(c, g) BY <1>2, <1>4, <1>5 DEF Throttle
<1> QED BY <1>1, <1>2, <1>6, <1>7, <1>8, MovesOn

LEMMA AnswerCalls ==
  ASSUME CallsOK, NEW c \in Callers,
         NEW error \in {"none", "garbled", "refused", "transport", "timestamp", "limited"},
         NEW after \in Nat, Answer(c, error, after)
  PROVE  CallsOK'
<1>1. Busy(c) /\ Top(c).pc = "sent" BY DEF Answer, At
<1>2. PICK f : f = Top(c) OBVIOUS
<1>3. f \in FrameType /\ FrameOK(f) /\ f.elapsed \in Nat
  BY <1>1, <1>2, BusyFacts, FrameFacts
<1>9. PICK t \in Int : t = IF f.kind = "time" THEN f.elapsed ELSE 0 BY <1>3
<1>4. PICK g : g = [f EXCEPT !.pc = "served", !.error = error, !.quiet = after,
                             !.stamp = t]
  OBVIOUS
<1>5. g \in FrameType /\ g.kind = f.kind /\ g.attempt = f.attempt /\ g.pc = "served"
      /\ g.elapsed = f.elapsed /\ g.error = error
      /\ g.stamp = t
  BY <1>3, <1>4 DEF FrameType
<1>6. error = "timestamp" => f.kind = "signed"
  BY <1>2 DEF Answer, TimestampOutside
<1>7. FrameOK(g) /\ Out(g) = Out(f)
  BY <1>1, <1>2, <1>3, <1>5, <1>6, <1>9 DEF FrameOK, Out
<1>8. SetTop(c, g) BY <1>2, <1>4, <1>9 DEF Answer
<1> QED BY <1>1, <1>2, <1>5, <1>7, <1>8, MovesOn

LEMMA RetryCalls ==
  ASSUME CallsOK, NEW c \in Callers, Busy(c), Top(c).pc \in {"served", "resynced"},
         Retry(c, Top(c))
  PROVE  CallsOK'
<1>1. PICK f : f = Top(c) OBVIOUS
<1>2. f \in FrameType /\ FrameOK(f) BY <1>1, BusyFacts
<1>3. CASE f.attempt > MaxRetries
  <2>1. Pop(c) BY <1>1, <1>3 DEF Retry
  <2> QED BY <2>1, Pops
<1>4. CASE ~(f.attempt > MaxRetries)
  <2>1. PICK g : g = [f EXCEPT !.pc = "backoff", !.timer = BackoffFor(f),
                               !.attempt = f.attempt + 1, !.error = "none"]
    OBVIOUS
  <2>2. f.attempt + 1 \in 1..MaxRetries + 1 BY <1>2, <1>4, FrameFacts
  <2>3. BackoffFor(f) \in Int BY <1>2, BackoffType
  <2>4. g \in FrameType /\ g.kind = f.kind /\ g.attempt = f.attempt + 1
        /\ g.stamp = f.stamp /\ g.elapsed = f.elapsed /\ g.error = "none"
        /\ g.pc = "backoff"
    BY <1>2, <2>1, <2>2, <2>3 DEF FrameType
  <2>5. FrameOK(g) BY <1>2, <2>4 DEF FrameOK
  <2>6. SetTop(c, g) BY <1>1, <1>4, <2>1 DEF Retry
  <2> QED BY <1>1, <2>4, <2>5, <2>6, TriesAgain
<1> QED BY <1>3, <1>4

LEMMA ResyncCalls ==
  ASSUME CallsOK, NEW c \in Callers, Resync(c)
  PROVE  CallsOK'
<1>1. Busy(c) /\ Top(c).pc = "served" /\ Top(c).error = "timestamp"
  BY DEF Resync, At
<1>2. PICK s : s = Append(calls[c].frames, Frame("time")) OBVIOUS
<1>3. calls' = [calls EXCEPT ![c] = Asking(calls[c])]
  <2>1. calls' = [calls EXCEPT ![c].frames = s] BY <1>2 DEF Resync
  <2>2. calls' = [calls EXCEPT ![c] = [frames |-> s, sends |-> calls[c].sends]]
    BY <2>1, NewFrames
  <2> QED BY <1>2, <2>2 DEF Asking
<1>4. PICK call : call = calls[c] OBVIOUS
<1>5. PICK f : f = call.frames[Len(call.frames)] OBVIOUS
<1>6. call \in CallType /\ CallOK(call) /\ Len(call.frames) # 0 /\ Top(c) = f
  BY <1>1, <1>4, <1>5, BusyFacts
<1>7. CallOK(Asking(call)) BY <1>1, <1>5, <1>6, AskingOK
<1> QED BY <1>3, <1>4, <1>7, OneCall

LEMMA CallCalls ==
  ASSUME CallsOK, NEW c \in Callers, NEW kind \in Kinds, Call(c, kind)
  PROVE  CallsOK'
<1>1. calls' = [calls EXCEPT ![c] = Started(kind)] BY DEF Call, Started
<1> QED BY <1>1, StartedOK, OneCall

LEMMA SendCalls ==
  ASSUME CallsOK, offset \in Int, NEW c \in Callers, Send(c)
  PROVE  CallsOK'
<1>1. /\ Busy(c) /\ Top(c).pc \in {"acquire", "throttled", "backoff"}
  BY ReadyFacts DEF Send
<1>2. PICK call : call = calls[c] OBVIOUS
<1>3. PICK f : f = call.frames[Len(call.frames)] OBVIOUS
<1>4. /\ call \in CallType /\ CallOK(call) /\ Len(call.frames) # 0 /\ Top(c) = f
      /\ f \in FrameType /\ FrameOK(f) /\ call.sends \in Nat
      /\ Depth(c) = Len(call.frames)
  BY <1>1, <1>2, <1>3, BusyFacts
<1>5. PICK g : g = Sent(f) OBVIOUS
<1>6. g \in FrameType /\ g.kind = f.kind /\ g.attempt = f.attempt /\ g.pc = "sent"
      /\ g.elapsed = f.elapsed /\ g.error = f.error
      /\ g.stamp = IF f.kind = "signed" THEN offset ELSE 0
  <2>1. PICK t \in Int : t = IF f.kind = "signed" THEN offset ELSE 0 OBVIOUS
  <2>2. g = [f EXCEPT !.pc = "sent", !.timer = 0, !.stamp = t]
    BY <1>5, <2>1 DEF Sent
  <2>3. PICK h : h = [f EXCEPT !.pc = "sent", !.timer = 0] OBVIOUS
  <2>4. h \in FrameType
    <3>1. "sent" \in {"throttled", "sent"} /\ 0 \in Int OBVIOUS
    <3> QED BY <1>4, <2>3, <3>1, Retimed, Zenon
  <2>5. g = [h EXCEPT !.stamp = t] BY <2>2, <2>3
  <2>6. g \in FrameType BY <2>4, <2>5 DEF FrameType
  <2>7. /\ g.kind = f.kind /\ g.attempt = f.attempt /\ g.pc = "sent"
        /\ g.elapsed = f.elapsed /\ g.error = f.error /\ g.stamp = t
    BY <1>4, <2>2 DEF FrameType
  <2> QED BY <2>1, <2>6, <2>7
<1>7. FrameOK(g)
  <2>1. f.elapsed \in Nat BY <1>4, FrameFacts
  <2> QED BY <1>4, <1>6, <2>1 DEF FrameOK
<1>8. Out(g) = 1 /\ Out(f) = 0 BY <1>1, <1>4, <1>6 DEF Out
<1>9. call.sends + 1 \in Nat /\ (call.sends + 1) + Out(f) = call.sends + Out(g)
  BY <1>4, <1>8
<1>10. f.pc # "resynced" /\ g.pc # "resynced" BY <1>1, <1>4, <1>6
<1>11. CallOK(WithTop(call, g, call.sends + 1))
  BY <1>3, <1>4, <1>6, <1>7, <1>9, <1>10, SameAttempt
<1>12. calls' = [calls EXCEPT ![c] = WithTop(call, g, call.sends + 1)]
  <2>1. call \in [frames : Seq(FrameType), sends : Nat] BY <1>4 DEF CallType
  <2>2. calls' = [calls EXCEPT ![c].frames[Len(call.frames)] = Sent(@),
                               ![c].sends = @ + 1]
    BY <1>4 DEF Send, Leaves
  <2>3. [call EXCEPT !.frames[Len(call.frames)] = g, !.sends = call.sends + 1]
          = WithTop(call, g, call.sends + 1)
    <3>1. PICK s : s = [call.frames EXCEPT ![Len(call.frames)] = g] OBVIOUS
    <3>2. PICK k : k = call.sends + 1 OBVIOUS
    <3>3. [call EXCEPT !.frames = s, !.sends = k] = [frames |-> s, sends |-> k]
      <4>1. PICK h : h = [call EXCEPT !.frames = s] OBVIOUS
      <4>2. [call EXCEPT !.frames = s, !.sends = k] = [h EXCEPT !.sends = k] BY <4>1
      <4>3. h = [frames |-> s, sends |-> call.sends] BY <2>1, <4>1
      <4> QED BY <4>2, <4>3
    <3> QED BY <3>1, <3>2, <3>3 DEF WithTop
  <2>4. calls' = [calls EXCEPT ![c] =
                    [call EXCEPT !.frames[Len(call.frames)] = g,
                                 !.sends = call.sends + 1]]
    BY <1>2, <1>3, <1>5, <2>1, <2>2 DEF CallsOK
  <2> QED BY <2>3, <2>4
<1> QED BY <1>11, <1>12, OneCall

-----------------------------------------------------------------------------
(* Time passes.                                                            *)

LEMMA PassedFacts ==
  ASSUME NEW f \in FrameType, FrameOK(f), NEW top \in BOOLEAN
  PROVE  /\ Passed(f, top) \in FrameType /\ FrameOK(Passed(f, top))
         /\ Passed(f, top).kind = f.kind /\ Passed(f, top).attempt = f.attempt
         /\ Passed(f, top).pc = f.pc /\ Out(Passed(f, top)) = Out(f)
<1>1. f.timer \in Int /\ f.elapsed \in Nat /\ f.quiet \in Nat BY FrameFacts
<1>2. PICK t \in Int : t = IF ~top THEN f.timer
                           ELSE IF f.pc \in {"sent", "served"} THEN f.timer + 1
                           ELSE f.timer - 1
  BY <1>1
<1>3. PICK e \in Nat : e = IF f.kind = "time" THEN f.elapsed + 1 ELSE f.elapsed
  BY <1>1
<1>4. PICK q \in Nat : q = IF f.pc = "served" \/ f.quiet = 0 THEN f.quiet
                           ELSE f.quiet - 1
  BY <1>1
<1>5. PICK g : g = [f EXCEPT !.timer = t, !.elapsed = e, !.quiet = q] OBVIOUS
<1>6. g = Passed(f, top) BY <1>2, <1>3, <1>4, <1>5 DEF Passed
<1>7. g \in FrameType /\ g.kind = f.kind /\ g.attempt = f.attempt /\ g.pc = f.pc
      /\ g.error = f.error /\ g.stamp = f.stamp /\ g.elapsed = e
  BY <1>5 DEF FrameType
<1>8. FrameOK(g) BY <1>1, <1>3, <1>7 DEF FrameOK
<1>9. Out(g) = Out(f) BY <1>7 DEF Out
<1> QED BY <1>6, <1>7, <1>8, <1>9

Aged(call) ==
  [frames |-> [i \in DOMAIN call.frames |->
                 Passed(call.frames[i], i = Len(call.frames))],
   sends |-> call.sends]

LEMMA AgedOK ==
  ASSUME NEW call \in CallType, CallOK(call)
  PROVE  CallOK(Aged(call))
<1>1. PICK n : n = Len(call.frames) OBVIOUS
<1>2. /\ n \in {0, 1, 2} /\ n \in Nat /\ DOMAIN call.frames = 1..n
      /\ Budgeted(call) /\ call.sends \in Nat
      /\ \A i \in 1..n : call.frames[i] \in FrameType /\ FrameOK(call.frames[i])
  BY <1>1, CallFacts
<1>3. PICK s : s = [i \in 1..n |-> Passed(call.frames[i], i = n)] OBVIOUS
<1>4. Aged(call) = [frames |-> s, sends |-> call.sends] BY <1>1, <1>2, <1>3 DEF Aged
<1>5. \A i \in 1..n : /\ s[i] \in FrameType /\ FrameOK(s[i])
                      /\ s[i].kind = call.frames[i].kind
                      /\ s[i].attempt = call.frames[i].attempt
                      /\ s[i].pc = call.frames[i].pc
                      /\ Out(s[i]) = Out(call.frames[i])
  <2> SUFFICES ASSUME NEW i \in 1..n
               PROVE  /\ s[i] \in FrameType /\ FrameOK(s[i])
                      /\ s[i].kind = call.frames[i].kind
                      /\ s[i].attempt = call.frames[i].attempt
                      /\ s[i].pc = call.frames[i].pc
                      /\ Out(s[i]) = Out(call.frames[i])
    OBVIOUS
  <2>1. s[i] = Passed(call.frames[i], i = n) BY <1>3
  <2>2. PICK top \in BOOLEAN : top = (i = n) OBVIOUS
  <2>3. PICK f \in FrameType : f = call.frames[i] /\ FrameOK(f) BY <1>2
  <2>4. s[i] = Passed(f, top) BY <2>1, <2>2, <2>3
  <2> QED BY <2>3, <2>4, PassedFacts
<1>6. s \in Seq(FrameType) /\ Len(s) = n /\ DOMAIN s = 1..n BY <1>2, <1>3, <1>5
<1>7. Aged(call).frames = s /\ Aged(call).sends = call.sends
      /\ Aged(call) \in CallType
  BY <1>2, <1>4, <1>6 DEF CallType
<1>8. Budgeted(Aged(call))
  <2>1. PICK new : new = Aged(call) OBVIOUS
  <2>2. new.frames = s /\ new.sends = call.sends BY <1>7, <2>1
  <2>3. CASE n = 0 BY <1>1, <1>2, <1>6, <2>1, <2>2, <2>3 DEF Budgeted
  <2>4. CASE n = 1
    <3>1. 1 \in 1..n BY <2>4
    <3>2. /\ s[1].attempt = call.frames[1].attempt /\ s[1].pc = call.frames[1].pc
          /\ Out(s[1]) = Out(call.frames[1])
      BY <1>5, <3>1
    <3>3. call.sends <= IF call.frames[1].pc = "resynced"
                        THEN call.frames[1].attempt * Round
                        ELSE (call.frames[1].attempt - 1) * Round + Out(call.frames[1])
      BY <1>1, <1>2, <2>4 DEF Budgeted
    <3>4. new.sends <= IF s[1].pc = "resynced" THEN s[1].attempt * Round
                       ELSE (s[1].attempt - 1) * Round + Out(s[1])
      BY <2>2, <3>2, <3>3, Zenon
    <3>5. Len(new.frames) = 1 BY <1>6, <2>2, <2>4
    <3> QED BY <2>1, <2>2, <3>4, <3>5 DEF Budgeted
  <2>5. CASE n = 2
    <3>1. 1 \in 1..n /\ 2 \in 1..n BY <2>5
    <3>2. /\ s[1].attempt = call.frames[1].attempt /\ s[1].pc = call.frames[1].pc
          /\ s[2].attempt = call.frames[2].attempt /\ s[2].pc = call.frames[2].pc
          /\ s[2].kind = call.frames[2].kind /\ Out(s[2]) = Out(call.frames[2])
      BY <1>5, <3>1
    <3> QED BY <1>1, <1>2, <1>6, <2>1, <2>2, <2>5, <3>2 DEF Budgeted
  <2> QED BY <1>2, <2>3, <2>4, <2>5
<1>9. Len(Aged(call).frames) <= 2
  <2>1. n <= 2 BY <1>2
  <2> QED BY <1>6, <1>7, <2>1, Zenon
<1>10. \A i \in DOMAIN Aged(call).frames : FrameOK(Aged(call).frames[i])
  BY <1>5, <1>6, <1>7
<1> QED BY <1>7, <1>8, <1>9, <1>10 DEF CallOK

LEMMA TickCalls ==
  ASSUME CallsOK, Tick
  PROVE  CallsOK'
<1>1. calls' = [c \in Callers |-> Aged(calls[c])]
  <2>1. \A c \in Callers :
          [calls[c] EXCEPT !.frames = [i \in DOMAIN @ |-> Passed(@[i], i = Len(@))]]
            = Aged(calls[c])
    <3> SUFFICES ASSUME NEW c \in Callers
                 PROVE  [calls[c] EXCEPT !.frames = [i \in DOMAIN @ |->
                           Passed(@[i], i = Len(@))]] = Aged(calls[c])
      OBVIOUS
    <3>1. calls[c] \in [frames : Seq(FrameType), sends : Nat] BY DEF CallsOK, CallType
    <3>2. PICK s : s = [i \in DOMAIN calls[c].frames |->
                          Passed(calls[c].frames[i], i = Len(calls[c].frames))]
      OBVIOUS
    <3>3. [calls[c] EXCEPT !.frames = s] = [frames |-> s, sends |-> calls[c].sends]
      BY <3>1
    <3> QED BY <3>2, <3>3 DEF Aged
  <2> QED BY <2>1 DEF Tick
<1>2. \A c \in Callers : CallOK(Aged(calls[c])) BY AgedOK DEF CallsOK
<1>3. \A c \in Callers : Aged(calls[c]) \in CallType BY <1>2 DEF CallOK
<1>4. calls' \in [Callers -> CallType] BY <1>1, <1>3
<1>5. \A c \in Callers : CallOK(calls'[c]) BY <1>1, <1>2
<1> QED BY <1>4, <1>5 DEF CallsOK

-----------------------------------------------------------------------------
(* The clock.                                                              *)

ClockOK ==
  /\ offset \in Int /\ trip \in Nat /\ synced \in BOOLEAN /\ failures \in Nat
  /\ left \in 0..MaxCalls /\ skew \in Skews /\ skew \in Int
  /\ OffsetWithinHalfTrip

\* The answer was stamped at some moment of the round trip: the midpoint is
\* wrong by at most half of it, rounded.
LEMMA ObserveKeepsClock ==
  ASSUME NEW f \in FrameType, FrameOK(f), f.kind = "time", skew \in Int,
         Observe(f), UNCHANGED skew
  PROVE  /\ offset' \in Int /\ trip' \in Nat /\ synced' \in BOOLEAN
         /\ OffsetWithinHalfTrip'
<1>1. PICK e \in Nat : e = f.elapsed BY FrameFacts
<1>2. PICK s \in Int : s = f.stamp BY FrameFacts
<1>3. 0 <= s /\ s <= e BY <1>1, <1>2 DEF FrameOK
<1>4. PICK h \in Int : h = e \div 2 /\ 2 * h <= e /\ e <= 2 * h + 1 OBVIOUS
<1>5. trip' = e /\ offset' = skew + s - h /\ synced' = TRUE /\ skew' = skew
  BY <1>1, <1>2, <1>4 DEF Observe
<1>6. 2 * ((skew + s - h) - skew) <= e + 1 /\ 2 * (skew - (skew + s - h)) <= e
  BY <1>3, <1>4
<1> QED BY <1>5, <1>6 DEF OffsetWithinHalfTrip

LEMMA SameClock ==
  ASSUME ClockOK, UNCHANGED <<clock, skew>>, failures' \in Nat, left' \in 0..MaxCalls
  PROVE  ClockOK'
BY DEF ClockOK, clock, OffsetWithinHalfTrip

-----------------------------------------------------------------------------
(* The invariant of the specification.                                     *)

IInv == LimiterOK /\ CallsOK /\ ClockOK

LEMMA InitIInv == Init => IInv
<1> SUFFICES ASSUME Init PROVE IInv OBVIOUS
<1>1. LimiterOK BY LimiterInit
<1>2. CallsOK
  <2>1. NoCall.frames = <<>> /\ NoCall.sends = 0 /\ NoCall \in CallType
    BY DEF NoCall, CallType
  <2>2. (MaxRetries + 1) * Round \in Nat
    BY RestClientAssumption DEF Round
  <2>3. Budgeted(NoCall) BY <2>1, <2>2 DEF Budgeted
  <2>4. CallOK(NoCall) BY <2>1, <2>3 DEF CallOK
  <2> QED BY <2>1, <2>4 DEF Init, CallsOK
<1>3. ClockOK
  <2>1. Skews \subseteq Int /\ MaxCalls \in Nat BY RestClientAssumption
  <2>2. skew \in Skews /\ skew \in Int /\ left \in 0..MaxCalls BY <2>1 DEF Init
  <2>3. OffsetWithinHalfTrip BY DEF Init, OffsetWithinHalfTrip
  <2>4. offset \in Int /\ trip \in Nat /\ failures \in Nat BY DEF Init
  <2>5. synced \in BOOLEAN
    <3>1. synced = FALSE BY DEF Init
    <3> QED BY <3>1, Zenon
  <2> QED BY <2>2, <2>3, <2>4, <2>5, Zenon DEF ClockOK
<1> QED BY <1>1, <1>2, <1>3 DEF IInv

LEMMA SameLimiter ==
  ASSUME LimiterOK, UNCHANGED <<windows, sent>>
  PROVE  LimiterOK'
BY DEF LimiterOK, WindowsType, WindowsFollow, CountsGrow, LimitsInForce,
       BeforeFits, Applicable, Left, CostIn, Cost, Grows

LEMMA SucceedKeeps ==
  ASSUME IInv, NEW c \in Callers, Succeed(c)
  PROVE  IInv'
<1>1. Busy(c) /\ Top(c) \in FrameType /\ FrameOK(Top(c))
  <2>1. Busy(c) BY DEF Succeed, At
  <2> QED BY <2>1, BusyFacts DEF IInv
<1>2. LimiterOK'
  <2>1. CASE windows' = Installed(ExchangeRules)
             /\ sent' = NothingSent(DOMAIN windows, sent.since)
    BY <2>1, InstallKeepsLimiter DEF IInv
  <2>2. CASE UNCHANGED <<windows, sent>> BY <2>2, SameLimiter DEF IInv
  <2> QED BY <2>1, <2>2 DEF Succeed
<1>3. CallsOK' BY <1>1, Pops DEF IInv, Succeed
<1>4. ClockOK'
  <2>1. UNCHANGED <<left, skew>> /\ failures' = 0 BY DEF Succeed
  <2>2. CASE Top(c).kind = "time"
    <3>1. Observe(Top(c)) BY <2>2 DEF Succeed
    <3>2. /\ offset' \in Int /\ trip' \in Nat /\ synced' \in BOOLEAN
          /\ OffsetWithinHalfTrip'
      BY <1>1, <2>1, <2>2, <3>1, ObserveKeepsClock DEF IInv, ClockOK
    <3> QED BY <2>1, <3>2 DEF IInv, ClockOK
  <2>3. CASE Top(c).kind # "time"
    <3>1. UNCHANGED clock BY <2>3 DEF Succeed
    <3> QED BY <2>1, <3>1, SameClock DEF IInv, ClockOK
  <2> QED BY <2>2, <2>3
<1> QED BY <1>2, <1>3, <1>4 DEF IInv

\* A step that leaves the limiter and the clock alone.
LEMMA OnlyCalls ==
  ASSUME IInv, CallsOK', UNCHANGED <<windows, sent, clock, skew>>,
         failures' \in Nat, left' \in 0..MaxCalls
  PROVE  IInv'
BY SameLimiter, SameClock DEF IInv

LEMMA RetryKeeps ==
  ASSUME IInv, NEW c \in Callers, Failed(c) \/ Resume(c)
  PROVE  IInv'
<1>1. Busy(c) /\ Top(c).pc \in {"served", "resynced"} /\ Retry(c, Top(c))
      /\ UNCHANGED <<windows, sent, clock, left, skew>>
  BY DEF Failed, Resume, At
<1>2. CallsOK' BY <1>1, RetryCalls DEF IInv
<1>3. failures' \in Nat BY <1>1 DEF Retry, IInv, ClockOK
<1> QED BY <1>1, <1>2, <1>3, OnlyCalls DEF IInv, ClockOK

LEMMA StepKeeps ==
  ASSUME IInv, NEW c \in Callers, Step(c)
  PROVE  IInv'
<1> USE DEF IInv, ClockOK
<1>1. CASE Throttle(c)
  <2>1. CallsOK' BY <1>1, ThrottleCalls
  <2> QED BY <1>1, <2>1, OnlyCalls DEF Throttle
<1>2. CASE Send(c)
  <2>1. CallsOK' BY <1>2, SendCalls
  <2>2. Top(c).kind \in Kinds BY <1>2, ReadyFacts DEF Send
  <2>3. LimiterOK' BY <1>2, <2>2, LeavesKeepsLimiter DEF Send
  <2>4. ClockOK' BY <1>2, SameClock DEF Send
  <2> QED BY <2>1, <2>3, <2>4
<1>3. CASE CannotEverFit(c)
  <2>1. CallsOK' BY <1>3, Unwinds DEF CannotEverFit
  <2> QED BY <1>3, <2>1, OnlyCalls DEF CannotEverFit
<1>4. CASE \E error \in {"none", "garbled", "refused", "transport", "timestamp"} :
             Answer(c, error, 0)
  <2>1. PICK error \in {"none", "garbled", "refused", "transport", "timestamp"} :
          Answer(c, error, 0)
    BY <1>4
  <2>2. CallsOK' BY <2>1, AnswerCalls
  <2> QED BY <2>1, <2>2, OnlyCalls DEF Answer
<1>5. CASE \E after \in RetryAfters : Answer(c, "limited", after)
  <2>1. PICK after \in RetryAfters : Answer(c, "limited", after) BY <1>5
  <2>2. after \in Nat BY RestClientAssumption
  <2>3. CallsOK' BY <2>1, <2>2, AnswerCalls
  <2> QED BY <2>1, <2>3, OnlyCalls DEF Answer
<1>6. CASE Succeed(c) BY <1>6, SucceedKeeps
<1>7. CASE Garbled(c)
  <2>1. CallsOK' BY <1>7, Unwinds DEF Garbled
  <2> QED BY <1>7, <2>1, OnlyCalls DEF Garbled
<1>8. CASE Refused(c)
  <2>1. Busy(c) BY <1>8 DEF Refused, At
  <2>2. CallsOK' BY <1>8, <2>1, Pops DEF Refused
  <2> QED BY <1>8, <2>2, OnlyCalls DEF Refused
<1>9. CASE Failed(c) \/ Resume(c) BY <1>9, RetryKeeps
<1>10. CASE Resync(c)
  <2>1. CallsOK' BY <1>10, ResyncCalls
  <2>2. LimiterOK' BY <1>10, SameLimiter DEF Resync
  <2>3. ClockOK' BY <1>10 DEF Resync, OffsetWithinHalfTrip
  <2> QED BY <2>1, <2>2, <2>3
<1> QED
  BY <1>1, <1>2, <1>3, <1>4, <1>5, <1>6, <1>7, <1>8, <1>9, <1>10 DEF Step

LEMMA NextIInv == IInv /\ [Next]_vars => IInv'
<1> SUFFICES ASSUME IInv, [Next]_vars PROVE IInv' OBVIOUS
<1>1. CASE UNCHANGED vars
  <2>1. CallsOK' BY <1>1 DEF vars, CallsOK, IInv
  <2> QED BY <1>1, <2>1, OnlyCalls DEF vars, IInv, ClockOK
<1>2. CASE Tick
  <2>1. LimiterOK' BY <1>2, TickKeepsLimiter DEF IInv, Tick
  <2>2. CallsOK' BY <1>2, TickCalls DEF IInv
  <2>3. ClockOK' BY <1>2, SameClock DEF IInv, ClockOK, Tick
  <2> QED BY <2>1, <2>2, <2>3 DEF IInv
<1>3. ASSUME NEW c \in Callers, Step(c) PROVE IInv' BY <1>3, StepKeeps
<1>4. ASSUME NEW c \in Callers, NEW kind \in Kinds, Call(c, kind) PROVE IInv'
  <2>1. CallsOK' BY <1>4, CallCalls DEF IInv
  <2>2. left' \in 0..MaxCalls BY <1>4, RestClientAssumption DEF Call, IInv, ClockOK
  <2> QED BY <1>4, <2>1, <2>2, OnlyCalls DEF Call, IInv, ClockOK
<1> QED BY <1>1, <1>2, <1>3, <1>4 DEF Next

LEMMA SpecIInv == Spec => []IInv
BY InitIInv, NextIInv, PTL DEF Spec

-----------------------------------------------------------------------------
(* The theorems.                                                           *)

\* Every variable of the client has its type, and a request nests no deeper
\* than one: the request for the server's time never asks for the time again.
THEOREM TypeCorrect == Spec => []TypeOK
<1>1. IInv => TypeOK
  <2> SUFFICES ASSUME IInv PROVE TypeOK OBVIOUS
  <2>1. \A c \in Callers : Len(calls[c].frames) <= 2
    BY DEF IInv, CallsOK, CallOK
  <2> QED BY <2>1 DEF IInv, LimiterOK, WindowsType, SentType, CallsOK, CallType,
                      ClockOK, TypeOK, Depth
<1> QED BY <1>1, SpecIInv, PTL

\* What was sent before the rules were replaced fitted the rules before.
LEMMA HandoverCosts == IInv => HandoverWithinBothLimits
<1> SUFFICES ASSUME IInv, NEW rule \in Applicable, NEW old \in sent.rules,
                    old.type = "REQUEST_WEIGHT", rule.interval <= old.interval
             PROVE  Left(rule, sent.since) + Left(rule, sent.before)
                      <= rule.limit + old.limit
  BY DEF HandoverWithinBothLimits
<1>1. WindowsType /\ CountsGrow /\ BeforeFits /\ LimitsInForce
  BY DEF IInv, LimiterOK
<1>2. /\ rule \in FallbackRules \cup ExchangeRules
      /\ old \in FallbackRules \cup ExchangeRules
  BY <1>1, AppliedRules DEF WindowsType, SentType
<1>3. /\ rule.interval \in Spans /\ old.interval \in Spans
      /\ rule.limit \in Nat /\ old.limit \in Nat
  BY <1>2, RuleFacts
<1>4. sent.since \in [Kinds -> Counts] /\ sent.before \in [Kinds -> Counts]
  BY <1>1 DEF WindowsType, SentType
<1>5. \A kind \in Kinds : Cost(rule, WeightOf[kind]) <= Cost(old, WeightOf[kind])
  <2>1. \A kind \in Kinds : Cost(old, WeightOf[kind]) = WeightOf[kind] BY DEF Cost
  <2> QED BY <1>2, <2>1, RuleFacts
<1>6. CostIn(rule, sent.before, rule.interval) <= CostIn(old, sent.before, old.interval)
  BY <1>1, <1>2, <1>3, <1>4, <1>5, CostInGrows DEF CountsGrow
<1>7. CostIn(old, sent.before, old.interval) <= old.limit
  BY <1>1 DEF BeforeFits, Types
<1>8. CostIn(rule, sent.since, rule.interval) <= rule.limit
  BY <1>1 DEF LimitsInForce, Left, CostIn
<1>9. /\ CostIn(rule, sent.before, rule.interval) \in Nat
      /\ CostIn(old, sent.before, old.interval) \in Nat
      /\ CostIn(rule, sent.since, rule.interval) \in Nat
  BY <1>2, <1>3, <1>4, CostInType
<1>10. /\ Left(rule, sent.since) = CostIn(rule, sent.since, rule.interval)
       /\ Left(rule, sent.before) = CostIn(rule, sent.before, rule.interval)
  BY DEF Left, CostIn
<1> QED BY <1>3, <1>6, <1>7, <1>8, <1>9, <1>10

\* However many tasks compete for the limiter, what left the process under the
\* rules in force fits each declared window (RateLimiter.acquire); and when the
\* exchange's rules replace the built-in ones, no new window is overrun by
\* more than the limit of an old rule that covers it (_install).
THEOREM DeclaredLimitsHold == Spec => []WithinDeclaredLimits
<1>1. IInv => WithinDeclaredLimits
  BY HandoverCosts DEF WithinDeclaredLimits, IInv, LimiterOK
<1> QED BY <1>1, SpecIInv, PTL

\* A call never sends more than its retries allow, each with one request for
\* the server's time and that request's own retries (_request).
THEOREM RetryBudgetHolds == Spec => []RetryBudget
<1>1. IInv => RetryBudget
  BY SendsBounded DEF IInv, CallsOK, RetryBudget, Round
<1> QED BY <1>1, SpecIInv, PTL

\* A synchronised clock is off by at most half the measured round trip, for any
\* skew, waits and retries (TimeSync.observe).
THEOREM ClockWithinHalfTrip == Spec => []OffsetWithinHalfTrip
<1>1. IInv => OffsetWithinHalfTrip BY DEF IInv, ClockOK
<1> QED BY <1>1, SpecIInv, PTL
=============================================================================
