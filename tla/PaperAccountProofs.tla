------------------------- MODULE PaperAccountProofs -------------------------
(***************************************************************************)
(* What holds of the paper account for every market, plan and number of    *)
(* requests in flight.                                                     *)
(***************************************************************************)
EXTENDS PaperAccount, RiskEngineProofs, FiniteSetTheorems

-----------------------------------------------------------------------------
(* SumTo: what it returns for a function on 1..m of integers.              *)

\* The function that sums f up to n, as the equation that defines it.
Sums(s, f, n) == s = [i \in 0..n |-> IF i = 0 THEN 0 ELSE s[i - 1] + f[i]]

LEMMA SumsExist ==
  ASSUME NEW m \in Nat, NEW f \in [1..m -> Int]
  PROVE  \A n \in 0..m : \E s \in [0..n -> Int] : Sums(s, f, n)
<1> DEFINE T == {n \in 0..m : ~ \E s \in [0..n -> Int] : Sums(s, f, n)}
<1>1. SUFFICES ASSUME T # {} PROVE FALSE OBVIOUS
<1>2. T \subseteq Nat OBVIOUS
<1>3. PICK n \in T : \A k \in T : n <= k
  <2> HIDE DEF T
  <2> QED BY <1>1, <1>2, LeastElement
<1>4. n # 0
  <2>1. [i \in 0..0 |-> 0] \in [0..0 -> Int] OBVIOUS
  <2>2. Sums([i \in 0..0 |-> 0], f, 0) BY DEF Sums
  <2> QED BY <2>1, <2>2
<1>5. n - 1 \in 0..m /\ n - 1 \notin T /\ n \in 1..m BY <1>3, <1>4
<1>6. PICK s \in [0..(n-1) -> Int] : Sums(s, f, n - 1) BY <1>5
<1> DEFINE t == [i \in 0..n |-> IF i = n THEN s[n - 1] + f[n] ELSE s[i]]
<1>7. t \in [0..n -> Int]
  <2>1. s[n - 1] + f[n] \in Int BY <1>5
  <2>2. ASSUME NEW i \in 0..n, i # n PROVE s[i] \in Int
    <3>1. i \in 0..(n - 1) BY <1>5, <2>2
    <3> QED BY <3>1
  <2> QED BY <2>1, <2>2
<1>8. Sums(t, f, n)
  <2>1. ASSUME NEW i \in 0..n
        PROVE  t[i] = IF i = 0 THEN 0 ELSE t[i - 1] + f[i]
    <3>1. CASE i = n
      <4>1. n - 1 \in 0..n /\ n - 1 # n BY <1>5
      <4> QED BY <3>1, <1>4, <4>1
    <3>2. CASE i # n
      <4>1. i \in 0..(n - 1) BY <3>2, <1>5
      <4>2. s[i] = IF i = 0 THEN 0 ELSE s[i - 1] + f[i]
        BY <1>6, <4>1 DEF Sums
      <4>3. i # 0 => i - 1 \in 0..n /\ i - 1 # n BY <4>1, <1>5
      <4> QED BY <3>2, <4>2, <4>3
    <3> QED BY <3>1, <3>2
  <2>2. t = [i \in 0..n |-> t[i]] OBVIOUS
  <2> HIDE DEF t
  <2> QED BY <2>1, <2>2 DEF Sums
<1> QED BY <1>7, <1>8

\* Two functions that sum f agree where both are defined.
LEMMA SumsAgree ==
  ASSUME NEW f, NEW s, NEW t, NEW m \in Nat, NEW n \in 0..m,
         Sums(s, f, m), Sums(t, f, n)
  PROVE  s[n] = t[n]
<1> DEFINE T == {i \in 0..n : s[i] # t[i]}
<1>1. SUFFICES ASSUME T # {} PROVE FALSE
  <2>1. n \in 0..n OBVIOUS
  <2> QED BY <2>1
<1>2. T \subseteq Nat OBVIOUS
<1>3. PICK k \in T : \A j \in T : k <= j
  <2> HIDE DEF T
  <2> QED BY <1>1, <1>2, LeastElement
<1>4. s[k] = IF k = 0 THEN 0 ELSE s[k - 1] + f[k]
  <2>1. k \in 0..m OBVIOUS
  <2> QED BY <2>1 DEF Sums
<1>5. t[k] = IF k = 0 THEN 0 ELSE t[k - 1] + f[k] BY DEF Sums
<1>6. k # 0 BY <1>4, <1>5
<1>7. k - 1 \in 0..n /\ k - 1 \notin T BY <1>6, <1>3
<1>8. s[k - 1] = t[k - 1] BY <1>7
<1> QED BY <1>4, <1>5, <1>6, <1>8

\* Only the first n values count.
LEMMA SumsCongruence ==
  ASSUME NEW n \in Nat, NEW f, NEW g, \A i \in 1..n : f[i] = g[i],
         NEW s, Sums(s, f, n)
  PROVE  Sums(s, g, n)
<1>1. \A i \in 0..n : i # 0 => f[i] = g[i] OBVIOUS
<1> QED BY <1>1 DEF Sums

LEMMA SumToSums ==
  ASSUME NEW m \in Nat, NEW f \in [1..m -> Int], NEW n \in 0..m
  PROVE  \E s \in [0..n -> Int] : Sums(s, f, n) /\ SumTo(f, n) = s[n]
<1> DEFINE sum == CHOOSE s : s = [i \in 0..n |-> IF i = 0 THEN 0 ELSE s[i - 1] + f[i]]
<1>1. SumTo(f, n) = sum[n] BY DEF SumTo
<1>2. PICK s \in [0..n -> Int] : Sums(s, f, n) BY SumsExist
<1>3. Sums(sum, f, n) BY <1>2 DEF Sums
<1>4. s[n] = sum[n]
  <2> HIDE DEF sum
  <2>1. n \in Nat /\ n \in 0..n OBVIOUS
  <2> QED BY <1>2, <1>3, <2>1, SumsAgree
<1>5. n \in 0..n OBVIOUS
<1> QED BY <1>1, <1>2, <1>4, <1>5

\* A sum of integers is an integer.
LEMMA SumToType ==
  ASSUME NEW m \in Nat, NEW f \in [1..m -> Int], NEW n \in 0..m
  PROVE  SumTo(f, n) \in Int
<1>1. PICK s \in [0..n -> Int] : SumTo(f, n) = s[n] BY SumToSums
<1>2. n \in 0..n OBVIOUS
<1> QED BY <1>1, <1>2

LEMMA SumToZero ==
  ASSUME NEW m \in Nat, NEW f \in [1..m -> Int]
  PROVE  SumTo(f, 0) = 0
<1>1. PICK s \in [0..0 -> Int] : Sums(s, f, 0) /\ SumTo(f, 0) = s[0]
  <2>1. 0 \in 0..m OBVIOUS
  <2> QED BY <2>1, SumToSums
<1>2. s[0] = 0
  <2>1. 0 \in 0..0 OBVIOUS
  <2> QED BY <1>1, <2>1 DEF Sums
<1> QED BY <1>1, <1>2

\* The sum up to n adds f[n] to the sum up to n - 1.
LEMMA SumToStep ==
  ASSUME NEW m \in Nat, NEW f \in [1..m -> Int], NEW n \in 1..m
  PROVE  SumTo(f, n) = SumTo(f, n - 1) + f[n]
<1>1. n \in 0..m /\ n - 1 \in 0..m /\ n - 1 \in 0..n /\ n \in 0..n
  OBVIOUS
<1>2. PICK s : s \in [0..n -> Int] /\ Sums(s, f, n) /\ SumTo(f, n) = s[n]
  BY <1>1, SumToSums
<1>3. PICK t : /\ t \in [0..(n - 1) -> Int]
                  /\ Sums(t, f, n - 1) /\ SumTo(f, n - 1) = t[n - 1]
  BY <1>1, SumToSums
<1>4. s[n - 1] = t[n - 1]
  <2>1. n \in Nat /\ n - 1 \in 0..n
    OBVIOUS
  <2>2. Sums(s, f, n) BY <1>2
  <2>3. Sums(t, f, n - 1) BY <1>3
  <2> QED BY <2>1, <2>2, <2>3, SumsAgree
<1>5. s[n] = s[n - 1] + f[n] BY <1>1, <1>2 DEF Sums
<1> QED BY <1>2, <1>3, <1>4, <1>5

\* Functions that agree on 1..n have the same sum up to n.
LEMMA SumToCongruence ==
  ASSUME NEW m \in Nat, NEW f \in [1..m -> Int],
         NEW k \in Nat, NEW g \in [1..k -> Int],
         NEW n \in Nat, n <= m, n <= k, \A i \in 1..n : f[i] = g[i]
  PROVE  SumTo(f, n) = SumTo(g, n)
<1>1. n \in 0..m /\ n \in 0..k /\ n <= n /\ n \in 0..n OBVIOUS
<1>2. PICK s : s \in [0..n -> Int] /\ Sums(s, f, n) /\ SumTo(f, n) = s[n]
  BY <1>1, SumToSums
<1>3. PICK t : t \in [0..n -> Int] /\ Sums(t, g, n) /\ SumTo(g, n) = t[n]
  BY <1>1, SumToSums
<1>4. s[n] = t[n]
  <2>1. Sums(s, f, n) BY <1>2
  <2>2. Sums(s, g, n) BY <2>1, SumsCongruence
  <2>3. Sums(t, g, n) BY <1>3
  <2> QED BY <1>1, <2>2, <2>3, SumsAgree
<1> QED BY <1>1, <1>2, <1>3, <1>4

\* Changing one value changes the sum by as much.
LEMMA SumToUpdate ==
  ASSUME NEW m \in Nat, NEW f \in [1..m -> Int], NEW g \in [1..m -> Int],
         NEW k \in 1..m, \A i \in 1..m : i # k => g[i] = f[i]
  PROVE  SumTo(g, m) = SumTo(f, m) + g[k] - f[k]
<1> DEFINE T == {n \in 0..m : k <= n /\ SumTo(g, n) # SumTo(f, n) + g[k] - f[k]}
<1>1. \A n \in 0..m : SumTo(f, n) \in Int /\ SumTo(g, n) \in Int BY SumToType
<1>2. SUFFICES ASSUME T # {} PROVE FALSE
  <2>1. m \in 0..m /\ k <= m OBVIOUS
  <2> QED BY <2>1
<1>3. T \subseteq Nat OBVIOUS
<1>4. PICK n \in T : \A j \in T : n <= j
  <2> HIDE DEF T
  <2> QED BY <1>2, <1>3, LeastElement
<1>5. n \in 1..m /\ n - 1 \in 0..m BY <1>4
<1>6. SumTo(f, n) = SumTo(f, n - 1) + f[n] /\ SumTo(g, n) = SumTo(g, n - 1) + g[n]
  BY <1>5, SumToStep
<1>7. CASE n = k
  <2>1. \A i \in 1..(n - 1) : f[i] = g[i] BY <1>5, <1>7
  <2>2. SumTo(f, n - 1) = SumTo(g, n - 1)
    <3>1. n - 1 \in Nat /\ n - 1 <= m BY <1>5
    <3> QED BY <2>1, <3>1, SumToCongruence
  <2>3. f[k] \in Int /\ g[k] \in Int OBVIOUS
  <2> QED BY <1>1, <1>4, <1>5, <1>6, <1>7, <2>2, <2>3
<1>8. CASE n # k
  <2>1. n - 1 \notin T /\ k <= n - 1 BY <1>4, <1>5, <1>8
  <2>2. SumTo(g, n - 1) = SumTo(f, n - 1) + g[k] - f[k] BY <1>5, <2>1
  <2>3. g[n] = f[n] BY <1>5, <1>8
  <2>4. f[k] \in Int /\ g[k] \in Int /\ f[n] \in Int BY <1>5
  <2> QED BY <1>1, <1>4, <1>5, <1>6, <2>2, <2>3, <2>4
<1> QED BY <1>7, <1>8

-----------------------------------------------------------------------------
(* Sums over the tables.                                                   *)

LEMMA MaxOfTwo ==
  ASSUME NEW a \in Int, NEW b \in Int
  PROVE  Max({a, b}) \in {a, b} /\ Max({a, b}) >= a /\ Max({a, b}) >= b
<1>1. \E x \in {a, b} : \A y \in {a, b} : x >= y OBVIOUS
<1> QED BY <1>1 DEF Max

LEMMA SumRowsType ==
  ASSUME positions \in Seq(RowType), NEW amount, OnRows(amount, Int, DOMAIN positions)
  PROVE  SumRows(amount) \in Int
<1> DEFINE f == [id \in DOMAIN positions |->
                   IF id \in DOMAIN amount THEN amount[id] ELSE 0]
<1>1. Len(positions) \in Nat /\ DOMAIN positions = 1..Len(positions)
      /\ Len(positions) \in 0..Len(positions)
  OBVIOUS
<1>2. f \in [1..Len(positions) -> Int] BY <1>1 DEF OnRows
<1>3. SumTo(f, Len(positions)) \in Int
  <2> HIDE DEF f
  <2> QED BY <1>1, <1>2, SumToType
<1> QED BY <1>3 DEF SumRows

LEMMA CostType ==
  ASSUME NEW row \in RowType
  PROVE  Cost(row) \in Int
<1>1. row.quantity \in Int /\ row.entry \in Int /\ row.fees \in Int
  BY AccountAssumption DEF RowType
<1>2. row.quantity * row.entry * D \in Int BY <1>1, UnitType
<1> QED BY <1>1, <1>2 DEF Cost

LEMMA OpenCostType ==
  ASSUME positions \in Seq(RowType), NEW rows, OnRows(rows, RowType, DOMAIN positions)
  PROVE  OpenCost(rows) \in Int
<1> DEFINE amount == [id \in DOMAIN rows |-> Cost(rows[id])]
<1>1. OnRows(amount, Int, DOMAIN positions) BY CostType DEF OnRows
<1>2. SumRows(amount) \in Int
  <2> HIDE DEF amount
  <2> QED BY <1>1, SumRowsType
<1> QED BY <1>2 DEF OpenCost

LEMMA RealisedType ==
  ASSUME trades \in Seq(TradeType), NEW n \in 0..Len(trades)
  PROVE  Realised(n) \in Int
<1> DEFINE f == [i \in DOMAIN trades |-> trades[i].net]
<1>1. Len(trades) \in Nat /\ DOMAIN trades = 1..Len(trades) OBVIOUS
<1>2. f \in [1..Len(trades) -> Int]
  <2>1. \A i \in DOMAIN trades : trades[i] \in TradeType OBVIOUS
  <2>2. \A i \in DOMAIN trades : trades[i].net \in Int BY <2>1 DEF TradeType
  <2> QED BY <1>1, <2>2
<1>3. SumTo(f, n) \in Int
  <2> HIDE DEF f
  <2> QED BY <1>1, <1>2, SumToType
<1> QED BY <1>3 DEF Realised

\* The view a request holds, as far as the sums need it.
ViewOK(view) ==
  /\ view.trades \in 0..Len(trades)
  /\ OnRows(view.rows, RowType, DOMAIN positions)

LEMMA BalanceType ==
  ASSUME positions \in Seq(RowType), trades \in Seq(TradeType),
         NEW view, ViewOK(view)
  PROVE  Portfolio(view).balance \in Int
<1>1. Realised(view.trades) \in Int BY RealisedType DEF ViewOK
<1>2. OpenCost(view.rows) \in Int BY OpenCostType DEF ViewOK
<1>3. InitialBalance \in Int BY AccountAssumption
<1> QED BY <1>1, <1>2, <1>3 DEF Portfolio

LEMMA ValueType ==
  ASSUME positions \in Seq(RowType), NEW rows, OnRows(rows, RowType, DOMAIN positions),
         NEW held \in SUBSET DOMAIN rows,
         NEW prices, prices \in [DOMAIN prices -> Prices]
  PROVE  Value(rows, held, prices) \in Int
<1> DEFINE amount == [id \in held |-> MarketValue(rows[id], prices)]
<1>1. ASSUME NEW id \in held PROVE MarketValue(rows[id], prices) \in Int
  <2>1. rows[id] \in RowType BY DEF OnRows
  <2>2. rows[id].quantity \in Int /\ rows[id].entry \in Int
    BY <2>1, AccountAssumption DEF RowType
  <2>3. MarkOf(rows[id], prices) \in Int
    BY <2>2, UnitType, AccountAssumption DEF MarkOf
  <2>4. rows[id].quantity * MarkOf(rows[id], prices) * D \in Int
    BY <2>2, <2>3, UnitType
  <2> QED BY <2>4 DEF MarketValue
<1>2. OnRows(amount, Int, DOMAIN positions) BY <1>1 DEF OnRows
<1>3. SumRows(amount) \in Int
  <2> HIDE DEF amount
  <2> QED BY <1>2, SumRowsType
<1> QED BY <1>3 DEF Value

LEMMA CountType ==
  ASSUME positions \in Seq(RowType), NEW held, held \subseteq DOMAIN positions
  PROVE  IsFiniteSet(held) /\ Cardinality(held) \in Nat
<1>1. Len(positions) \in Int /\ DOMAIN positions = 1..Len(positions) OBVIOUS
<1>2. IsFiniteSet(1..Len(positions)) BY <1>1, FS_Interval
<1>3. IsFiniteSet(held) BY <1>1, <1>2, FS_Subset
<1> QED BY <1>3, FS_CardinalityType

LEMMA SnapshotType ==
  ASSUME NEW balance \in Int, NEW value \in Int, NEW open \in Int, peak \in Int,
         RecordSnapshot(balance, value, open)
  PROVE  /\ snapshot' \in [balance : Int, equity : Int, open : Int]
         /\ peak' \in Int
<1>1. balance + value \in Int OBVIOUS
<1>2. Max({peak, balance + value}) \in Int BY <1>1, MaxOfTwo
<1> QED BY <1>1, <1>2 DEF RecordSnapshot

-----------------------------------------------------------------------------
(* TypeOK.                                                                 *)

LEMMA IdleOK ==
  ASSUME NEW ids, NEW n \in Nat
  PROVE  RequestOK(Idle, ids, n)
<1>1. Idle.view = NoView /\ NoView.trades = 0 /\ NoView.rows = EmptyMap
      /\ NoView.peak = 0
  BY DEF Idle, NoView
<1>2. OnRows(EmptyMap, RowType, ids) BY DEF EmptyMap, OnRows
<1>3. Idle.pc = "idle" /\ Idle.symbol = NoPrice /\ Idle.plan = NoPlan
      /\ Idle.row = 0 /\ Idle.ref = NoPrice
  BY DEF Idle
<1> QED BY <1>1, <1>2, <1>3 DEF RequestOK, PcType, OptInt

LEMMA NoTickOK ==
  ASSUME NEW ids
  PROVE  TickOK(NoTick, ids)
BY DEF TickOK, NoTick, EmptyMap, OnRows

\* What a handler holds keeps its type while the tables grow.
LEMMA RequestKept ==
  ASSUME NEW r, NEW ids, NEW n \in Nat, RequestOK(r, ids, n),
         NEW ids2, ids \subseteq ids2, NEW n2 \in Nat, n <= n2
  PROVE  RequestOK(r, ids2, n2)
<1>1. OnRows(r.view.rows, RowType, ids2) BY DEF RequestOK, OnRows
<1> QED BY <1>1 DEF RequestOK

LEMMA TickKept ==
  ASSUME NEW t, NEW ids, TickOK(t, ids), NEW ids2, ids \subseteq ids2
  PROVE  TickOK(t, ids2)
BY DEF TickOK, OnRows

LEMMA TypeInit == Init => TypeOK
<1> SUFFICES ASSUME Init PROVE TypeOK OBVIOUS
<1> USE AccountAssumption
<1>1. positions \in Seq(RowType) /\ trades \in Seq(TradeType) BY DEF Init
<1>2. Len(trades) \in Nat BY <1>1
<1>3. \A i \in DOMAIN trades : trades[i].position \in DOMAIN positions BY DEF Init
<1>4. snapshot \in [balance : Int, equity : Int, open : Int] /\ peak \in Int
  BY DEF Init
<1>5. DOMAIN proc = Procs
      /\ \A p \in Procs : RequestOK(proc[p], DOMAIN positions, Len(trades))
  BY <1>2, IdleOK DEF Init
<1>6. TickOK(tick, DOMAIN positions) BY NoTickOK DEF Init
<1>7. price \in [Symbols -> Prices] /\ metadata \in BOOLEAN
      /\ engine \in EngineStates /\ now \in 0..MaxTime
  BY DEF Init
<1> QED BY <1>1, <1>3, <1>4, <1>5, <1>6, <1>7 DEF TypeOK

\* A handler that only changes what it holds, whatever the tick does.
LEMMA HandlerStep ==
  ASSUME TypeOK, NEW p \in Procs, NEW r,
         RequestOK(r, DOMAIN positions, Len(trades)),
         Await(p, r), UNCHANGED <<ledger, world>>,
         TickOK(tick', DOMAIN positions)
  PROVE  TypeOK'
<1>1. UNCHANGED <<positions, trades, snapshot, peak, price, metadata, engine, now>>
  BY DEF ledger, world
<1>2. DOMAIN proc' = Procs
      /\ \A q \in Procs : proc'[q] = IF q = p THEN r ELSE proc[q]
  BY DEF Await, TypeOK
<1>3. \A q \in Procs : RequestOK(proc'[q], DOMAIN positions', Len(trades'))
  BY <1>1, <1>2 DEF TypeOK
<1> QED BY <1>1, <1>2, <1>3 DEF TypeOK

\* A step of the tick that touches no table and no handler.
LEMMA TickStep ==
  ASSUME TypeOK, UNCHANGED <<ledger, proc, world>>,
         TickOK(tick', DOMAIN positions)
  PROVE  TypeOK'
BY DEF TypeOK, ledger, world

\* A commit: the tables grow or keep their rows, the handler is done.
LEMMA CommitStep ==
  ASSUME TypeOK, NEW p \in Procs, Reply(p), UNCHANGED world,
         positions' \in Seq(RowType), trades' \in Seq(TradeType),
         DOMAIN positions \subseteq DOMAIN positions',
         Len(trades) <= Len(trades'),
         \A i \in DOMAIN trades' : trades'[i].position \in DOMAIN positions',
         snapshot' \in [balance : Int, equity : Int, open : Int],
         peak' \in Int, TickOK(tick', DOMAIN positions')
  PROVE  TypeOK'
<1>1. UNCHANGED <<price, metadata, engine, now>> BY DEF world
<1>2. DOMAIN proc' = Procs
      /\ \A q \in Procs : proc'[q] = IF q = p THEN Idle ELSE proc[q]
  BY DEF Reply, TypeOK
<1>3. Len(trades) \in Nat /\ Len(trades') \in Nat BY DEF TypeOK
<1>4. \A q \in Procs : RequestOK(proc'[q], DOMAIN positions', Len(trades'))
  <2> TAKE q \in Procs
  <2>1. CASE q = p BY <1>2, <1>3, <2>1, IdleOK
  <2>2. CASE q # p
    <3>1. RequestOK(proc[q], DOMAIN positions, Len(trades)) BY DEF TypeOK
    <3>2. RequestOK(proc[q], DOMAIN positions', Len(trades'))
      BY <1>3, <3>1, RequestKept
    <3> QED BY <1>2, <2>2, <3>2
  <2> QED BY <2>1, <2>2
<1> QED BY <1>1, <1>2, <1>4 DEF TypeOK

LEMMA ReplyStep ==
  ASSUME TypeOK, NEW p \in Procs, Reply(p), UNCHANGED <<ledger, world>>,
         TickOK(tick', DOMAIN positions)
  PROVE  TypeOK'
<1>1. RequestOK(Idle, DOMAIN positions, Len(trades)) BY IdleOK DEF TypeOK
<1>2. Await(p, Idle) BY DEF Await, Reply
<1> QED BY <1>1, <1>2, HandlerStep

\* What TypeOK says, in the form the steps use it.
LEMMA TypeFacts ==
  ASSUME TypeOK
  PROVE  /\ positions \in Seq(RowType) /\ trades \in Seq(TradeType)
         /\ Len(positions) \in Nat /\ DOMAIN positions = 1..Len(positions)
         /\ Len(trades) \in Nat /\ DOMAIN trades = 1..Len(trades)
         /\ \A id \in DOMAIN positions : positions[id] \in RowType
         /\ TickOK(tick, DOMAIN positions)
         /\ \A p \in Procs : RequestOK(proc[p], DOMAIN positions, Len(trades))
         /\ OnRows(OpenRows, RowType, DOMAIN positions)
         /\ peak \in Int /\ now \in Nat /\ price \in [Symbols -> Int]
<1>1. positions \in Seq(RowType) /\ trades \in Seq(TradeType) BY DEF TypeOK
<1>2. /\ Len(positions) \in Nat /\ DOMAIN positions = 1..Len(positions)
      /\ Len(trades) \in Nat /\ DOMAIN trades = 1..Len(trades)
      /\ \A id \in DOMAIN positions : positions[id] \in RowType
  BY <1>1
<1>3. TickOK(tick, DOMAIN positions)
      /\ \A p \in Procs : RequestOK(proc[p], DOMAIN positions, Len(trades))
  BY DEF TypeOK
<1>4. OnRows(OpenRows, RowType, DOMAIN positions)
  BY <1>2 DEF OnRows, OpenRows, OpenIds
<1>5. peak \in Int /\ now \in Nat BY AccountAssumption DEF TypeOK
<1>6. price \in [Symbols -> Int]
  <2>1. price \in [Symbols -> Prices] BY DEF TypeOK
  <2>2. Prices \subseteq Int BY AccountAssumption
  <2> QED BY <2>1, <2>2
<1> QED BY <1>1, <1>2, <1>3, <1>4, <1>5, <1>6

LEMMA ViewTyped ==
  ASSUME TypeOK, NEW p \in Procs
  PROVE  ViewOK(proc[p].view)
BY TypeFacts DEF RequestOK, ViewOK

\* The SELECTs of a handler: it holds what it read, and waits for the next.
LEMMA SelectStep ==
  ASSUME TypeOK, NEW p \in Procs, NEW pc \in PcType,
         SelectTrades(p, pc) \/ SelectRows(p, pc) \/ SelectPeak(p, pc),
         \/ pc \in {"markRows", "markPeak"}
         \/ pc \in {"openPeak", "openFill"} /\ proc[p].pc \in {"openRows", "openPeak"}
         \/ /\ pc \in {"closeRows", "closePeak", "closeFill"}
            /\ proc[p].pc \in {"closeTrades", "closeRows", "closePeak"},
         UNCHANGED <<ledger, tick, world>>
  PROVE  TypeOK'
<1> DEFINE r == proc[p]
<1>1. /\ RequestOK(r, DOMAIN positions, Len(trades)) /\ Len(trades) \in Nat
      /\ OnRows(OpenRows, RowType, DOMAIN positions) /\ peak \in Int
      /\ TickOK(tick', DOMAIN positions)
  BY TypeFacts
<1>2. ASSUME NEW view, DOMAIN view = DOMAIN NoView, view.trades \in 0..Len(trades),
             OnRows(view.rows, RowType, DOMAIN positions), view.peak \in Int,
             Await(p, [r EXCEPT !.pc = pc, !.view = view])
      PROVE  TypeOK'
  <2> DEFINE r2 == [r EXCEPT !.pc = pc, !.view = view]
  <2>1. r2.view = view /\ r2.pc = pc /\ r2.symbol = r.symbol /\ r2.plan = r.plan
        /\ r2.row = r.row /\ r2.ref = r.ref /\ DOMAIN r2 = DOMAIN r
    BY <1>1 DEF RequestOK, Idle
  <2>2. RequestOK(r2, DOMAIN positions, Len(trades))
    <3> HIDE DEF r2, r
    <3>1. /\ pc \notin {"idle", "markRows", "markPeak"} => r.symbol \in Symbols
          /\ pc \in {"closeTrades", "closeRows", "closePeak", "closeFill"}
               => r.row \in DOMAIN positions
      BY <1>1 DEF RequestOK, r
    <3> QED BY <1>1, <1>2, <2>1, <3>1 DEF RequestOK
  <2> HIDE DEF r2
  <2> QED BY <1>1, <1>2, <2>2, HandlerStep DEF r2
<1>3. DOMAIN r = DOMAIN Idle /\ DOMAIN r.view = DOMAIN NoView
      /\ r.view.trades \in 0..Len(trades) /\ r.view.peak \in Int
      /\ OnRows(r.view.rows, RowType, DOMAIN positions)
  BY <1>1 DEF RequestOK
<1>4. CASE SelectTrades(p, pc)
  <2> DEFINE view == [r.view EXCEPT !.trades = Len(trades)]
  <2>1. /\ DOMAIN view = DOMAIN NoView /\ view.trades = Len(trades)
        /\ view.rows = r.view.rows /\ view.peak = r.view.peak
    BY <1>3 DEF NoView
  <2>2. Await(p, [r EXCEPT !.pc = pc, !.view = view])
    BY <1>3, <1>4 DEF SelectTrades, Idle
  <2>3. view.trades \in 0..Len(trades) /\ OnRows(view.rows, RowType, DOMAIN positions)
        /\ view.peak \in Int
    BY <1>1, <1>3, <2>1
  <2> HIDE DEF view
  <2> QED BY <1>2, <2>1, <2>2, <2>3
<1>5. CASE SelectRows(p, pc)
  <2> DEFINE view == [r.view EXCEPT !.rows = OpenRows]
  <2>1. /\ DOMAIN view = DOMAIN NoView /\ view.trades = r.view.trades
        /\ view.rows = OpenRows /\ view.peak = r.view.peak
    BY <1>3 DEF NoView
  <2>2. Await(p, [r EXCEPT !.pc = pc, !.view = view])
    BY <1>3, <1>5 DEF SelectRows, Idle
  <2> HIDE DEF view
  <2> QED BY <1>1, <1>2, <1>3, <2>1, <2>2
<1>6. CASE SelectPeak(p, pc)
  <2> DEFINE view == [r.view EXCEPT !.peak = peak]
  <2>1. /\ DOMAIN view = DOMAIN NoView /\ view.trades = r.view.trades
        /\ view.rows = r.view.rows /\ view.peak = peak
    BY <1>3 DEF NoView
  <2>2. Await(p, [r EXCEPT !.pc = pc, !.view = view])
    BY <1>3, <1>6 DEF SelectPeak, Idle
  <2> HIDE DEF view
  <2> QED BY <1>1, <1>2, <1>3, <2>1, <2>2
<1> QED BY <1>4, <1>5, <1>6

LEMMA SelectSteps ==
  ASSUME TypeOK, NEW p \in Procs,
         \/ CloseSelectTrades(p) \/ CloseSelectRows(p) \/ CloseSelectPeak(p)
         \/ p \in Clients /\ OpenSelectRows(p)
         \/ p = Monitor /\ (MonitorSelectTrades \/ MonitorSelectRows)
  PROVE  TypeOK'
<1> USE DEF PcType
<1>1. CASE CloseSelectTrades(p) BY <1>1, SelectStep DEF CloseSelectTrades
<1>2. CASE CloseSelectRows(p) BY <1>2, SelectStep DEF CloseSelectRows
<1>3. CASE CloseSelectPeak(p) BY <1>3, SelectStep DEF CloseSelectPeak
<1>4. CASE p \in Clients /\ OpenSelectRows(p)
  BY <1>4, SelectStep DEF OpenSelectRows
<1>5. CASE p = Monitor /\ MonitorSelectTrades
  <2>1. SelectTrades(p, "markRows") /\ UNCHANGED <<ledger, tick, world>>
    BY <1>5 DEF MonitorSelectTrades
  <2> QED BY <2>1, SelectStep
<1>6. CASE p = Monitor /\ MonitorSelectRows
  <2>1. SelectRows(p, "markPeak") /\ UNCHANGED <<ledger, tick, world>>
    BY <1>6 DEF MonitorSelectRows
  <2> QED BY <2>1, SelectStep
<1> QED BY <1>1, <1>2, <1>3, <1>4, <1>5, <1>6

LEMMA CloseSelectRowStep ==
  ASSUME TypeOK, NEW p \in Procs, NEW symbol \in Symbols, NEW ref \in OptInt,
         CloseSelectRow(p, symbol, ref), UNCHANGED <<ledger, world>>,
         TickOK(tick', DOMAIN positions)
  PROVE  TypeOK'
<1>1. PICK id \in OpenIn(symbol) :
        Await(p, [Idle EXCEPT !.pc = "closeTrades", !.symbol = symbol,
                              !.row = id, !.ref = ref])
  BY DEF CloseSelectRow
<1> DEFINE r == [Idle EXCEPT !.pc = "closeTrades", !.symbol = symbol,
                             !.row = id, !.ref = ref]
<1>2. id \in DOMAIN positions /\ id \in Nat
  BY TypeFacts DEF OpenIn, OpenIds
<1>3. RequestOK(Idle, DOMAIN positions, Len(trades)) BY TypeFacts, IdleOK
<1>4. RequestOK(r, DOMAIN positions, Len(trades))
  BY <1>2, <1>3 DEF RequestOK, Idle, NoView, OnRows, PcType
<1> HIDE DEF r
<1> QED BY <1>1, <1>4, HandlerStep DEF r

\* The requests: what they ask for, and what they are refused.
LEMMA RequestSteps ==
  ASSUME TypeOK, NEW c \in Clients,
         \/ RequestOpen(c)
         \/ RequestClose(c)
         \/ OpenSelectPeak(c)
         \/ OpenRefused(c)
         \/ RequestFails(c)
  PROVE  TypeOK'
<1>1. c \in Procs BY DEF Procs
<1>2. TickOK(tick, DOMAIN positions) /\ Len(trades) \in Nat BY TypeFacts
<1>3. RequestOK(Idle, DOMAIN positions, Len(trades)) BY <1>2, IdleOK
<1>4. CASE RequestOpen(c)
  <2>1. PICK s \in Symbols, plan \in Plans :
          Await(c, [Idle EXCEPT !.pc = "openRows", !.symbol = s, !.plan = plan,
                                !.view.trades = Len(trades)])
    BY <1>4 DEF RequestOpen
  <2> DEFINE r == [Idle EXCEPT !.pc = "openRows", !.symbol = s, !.plan = plan,
                               !.view.trades = Len(trades)]
  <2>2. RequestOK(r, DOMAIN positions, Len(trades))
    BY <1>2, <1>3 DEF RequestOK, Idle, NoView, OnRows, PcType
  <2>3. UNCHANGED <<ledger, tick, world>> BY <1>4 DEF RequestOpen
  <2> HIDE DEF r
  <2> QED BY <1>1, <1>2, <2>1, <2>2, <2>3, HandlerStep DEF r
<1>5. CASE RequestClose(c)
  <2>1. PICK s \in Symbols : CloseSelectRow(c, s, NoPrice)
    BY <1>5 DEF RequestClose
  <2>2. UNCHANGED <<ledger, tick, world>> BY <1>5 DEF RequestClose
  <2> QED BY <1>1, <1>2, <2>1, <2>2, CloseSelectRowStep DEF OptInt
<1>6. CASE OpenRefused(c) \/ RequestFails(c)
  <2>1. Reply(c) /\ UNCHANGED <<ledger, tick, world>>
    BY <1>6 DEF OpenRefused, RequestFails
  <2> QED BY <1>1, <1>2, <2>1, ReplyStep
<1>7. CASE OpenSelectPeak(c)
  <2>1. UNCHANGED <<ledger, tick, world>> /\ proc[c].pc = "openPeak"
        /\ (Reply(c) \/ SelectPeak(c, "openFill"))
    BY <1>7 DEF OpenSelectPeak
  <2>2. CASE Reply(c) BY <1>1, <1>2, <2>1, <2>2, ReplyStep
  <2>3. CASE SelectPeak(c, "openFill")
    BY <1>1, <2>1, <2>3, SelectStep DEF PcType
  <2> QED BY <2>1, <2>2, <2>3
<1> QED BY <1>4, <1>5, <1>6, <1>7

\* What the commit of an entry writes: a row of the symbol asked for, bought at a
\* positive price, and the snapshot of the account with it.
LEMMA OpenFillEffect ==
  ASSUME TypeOK, NEW c \in Clients, OpenFill(c)
  PROVE  \E held \in HeldChoices(proc[c].view.rows), row \in RowType :
           /\ Fills(c, held)
           /\ row = NewRow(c, EntryFill(c, EntryVerdict(c, held)))
           /\ row.status = "OPEN" /\ row.symbol = proc[c].symbol
           /\ row.quantity \in Nat \ {0} /\ row.entry \in Nat \ {0}
           /\ row.fees \in Nat
           /\ Len(positions) < MaxPositions
           /\ positions' = Append(positions, row)
           /\ RecordSnapshot(Portfolio(proc[c].view).balance - Cost(row),
                             Value(proc[c].view.rows, held, EmptyMap)
                               + row.quantity * price[proc[c].symbol] * Unit,
                             Cardinality(held) + 1)
<1>1. c \in Procs BY DEF Procs
<1> DEFINE r == proc[c]
<1>2. PICK held \in HeldChoices(r.view.rows) :
        LET fill == EntryFill(c, EntryVerdict(c, held))
            row  == NewRow(c, fill)
        IN  /\ Fills(c, held)
            /\ fill.quantity \in 1..MaxQuantity
            /\ Len(positions) < MaxPositions
            /\ positions' = Append(positions, row)
            /\ RecordSnapshot(Portfolio(r.view).balance - Cost(row),
                              Value(r.view.rows, held, EmptyMap)
                                + row.quantity * price[r.symbol] * Unit,
                              Cardinality(held) + 1)
  BY DEF OpenFill
<1> DEFINE fill == EntryFill(c, EntryVerdict(c, held))
           row  == NewRow(c, fill)
<1>3. RequestOK(r, DOMAIN positions, Len(trades)) /\ r.symbol \in Symbols
  <2>1. r.pc = "openFill" BY DEF OpenFill
  <2> QED BY <1>1, <2>1, TypeFacts DEF RequestOK
<1>4. fill.quantity \in Nat \ {0} BY <1>2, AccountAssumption
<1>5. fill.price \in Nat \ {0} /\ fill.fee \in Nat
  <2>1. price[r.symbol] \in Int BY <1>3, TypeFacts
  <2> QED BY <1>4, <2>1, FillPositive DEF EntryFill
<1>6. row \in RowType
  <2>1. r.plan \in [stop : Int, target : OptInt, trail : OptInt]
    BY <1>3, AccountAssumption DEF RequestOK, NoPlan, OptInt
  <2> HIDE DEF fill
  <2> QED BY <1>2, <1>3, <1>5, <2>1 DEF NewRow, RowType, OptInt, fill
<1>7. /\ row.status = "OPEN" /\ row.symbol = r.symbol
      /\ row.quantity = fill.quantity /\ row.entry = fill.price /\ row.fees = fill.fee
  BY DEF NewRow
<1> HIDE DEF fill, row
<1> QED BY <1>2, <1>4, <1>5, <1>6, <1>7 DEF fill, row

\* The commit of an entry.
LEMMA OpenFillStep ==
  ASSUME TypeOK, NEW c \in Clients, OpenFill(c)
  PROVE  TypeOK'
<1>1. c \in Procs BY DEF Procs
<1> DEFINE r == proc[c]
<1>2. PICK held \in HeldChoices(r.view.rows), row \in RowType :
        /\ row.quantity \in Nat \ {0}
        /\ positions' = Append(positions, row)
        /\ RecordSnapshot(Portfolio(r.view).balance - Cost(row),
                          Value(r.view.rows, held, EmptyMap)
                            + row.quantity * price[r.symbol] * Unit,
                          Cardinality(held) + 1)
  BY OpenFillEffect
<1>3. RequestOK(r, DOMAIN positions, Len(trades)) /\ r.symbol \in Symbols
  <2>1. r.pc = "openFill" BY DEF OpenFill
  <2> QED BY <1>1, <2>1, TypeFacts DEF RequestOK
<1>4. held \in SUBSET DOMAIN r.view.rows /\ held \subseteq DOMAIN positions
  BY <1>3 DEF HeldChoices, RequestOK, OnRows
<1>5. positions' \in Seq(RowType) /\ DOMAIN positions \subseteq DOMAIN positions'
  BY <1>2, TypeFacts
<1>6. snapshot' \in [balance : Int, equity : Int, open : Int] /\ peak' \in Int
  <2>1. Portfolio(r.view).balance \in Int BY <1>1, TypeFacts, ViewTyped, BalanceType
  <2>2. Cost(row) \in Int BY CostType
  <2>3. Value(r.view.rows, held, EmptyMap) \in Int
    <3>1. EmptyMap \in [DOMAIN EmptyMap -> Prices] BY DEF EmptyMap
    <3>2. OnRows(r.view.rows, RowType, DOMAIN positions) BY <1>3 DEF RequestOK
    <3> QED BY <1>4, <3>1, <3>2, TypeFacts, ValueType
  <2>4. row.quantity * price[r.symbol] * Unit \in Int
    <3>1. price[r.symbol] \in Int BY <1>3, TypeFacts
    <3> QED BY <1>2, <3>1, UnitType
  <2>5. Cardinality(held) + 1 \in Int BY <1>4, TypeFacts, CountType
  <2>6. /\ Portfolio(r.view).balance - Cost(row) \in Int
        /\ Value(r.view.rows, held, EmptyMap)
             + row.quantity * price[r.symbol] * Unit \in Int
    BY <2>1, <2>2, <2>3, <2>4
  <2> QED BY <1>2, <2>5, <2>6, TypeFacts, SnapshotType
<1>7. Reply(c) /\ UNCHANGED <<trades, tick>> /\ UNCHANGED world BY DEF OpenFill
<1>8. TickOK(tick', DOMAIN positions') BY <1>5, <1>7, TypeFacts, TickKept
<1>9. trades' \in Seq(TradeType) /\ Len(trades) <= Len(trades')
      /\ \A i \in DOMAIN trades' : trades'[i].position \in DOMAIN positions'
  BY <1>5, <1>7, TypeFacts DEF TypeOK
<1> QED BY <1>1, <1>5, <1>6, <1>7, <1>8, <1>9, CommitStep

LEMMA SeqOfFunction ==
  ASSUME NEW S, NEW n \in Nat, NEW f \in [1..n -> S]
  PROVE  f \in Seq(S) /\ Len(f) = n
OBVIOUS

\* Two rows of one entry: what was bought, and at which price.
SameEntry(row, old) ==
  row.symbol = old.symbol /\ row.quantity = old.quantity /\ row.entry = old.entry

\* The trailing stops the monitor flushes leave the rows otherwise as they are.
LEMMA FlushedRows ==
  ASSUME TypeOK, NEW p
  PROVE  /\ Flushed(p) \in Seq(RowType)
         /\ Len(Flushed(p)) = Len(positions)
         /\ DOMAIN Flushed(p) = DOMAIN positions
         /\ \A id \in DOMAIN positions :
              /\ Flushed(p)[id] \in RowType
              /\ Flushed(p)[id].status = positions[id].status
              /\ SameEntry(Flushed(p)[id], positions[id])
              /\ Flushed(p)[id].fees = positions[id].fees
              /\ Flushed(p)[id].stop =
                   IF p = Monitor /\ id \in DOMAIN tick.pending
                   THEN tick.pending[id] ELSE positions[id].stop
<1> DEFINE row(id) == IF p = Monitor /\ id \in DOMAIN tick.pending
                      THEN [positions[id] EXCEPT !.stop = tick.pending[id]]
                      ELSE positions[id]
<1>1. ASSUME NEW id \in DOMAIN positions
      PROVE  /\ row(id) \in RowType
             /\ row(id).status = positions[id].status
             /\ SameEntry(row(id), positions[id])
             /\ row(id).fees = positions[id].fees
             /\ row(id).stop = IF p = Monitor /\ id \in DOMAIN tick.pending
                               THEN tick.pending[id] ELSE positions[id].stop
  <2>1. positions[id] \in RowType BY TypeFacts
  <2>2. id \in DOMAIN tick.pending => tick.pending[id] \in OptInt
    BY TypeFacts DEF TickOK, OnRows, OptInt
  <2> QED BY <2>1, <2>2 DEF RowType, SameEntry
<1>2. Flushed(p) = [id \in DOMAIN positions |-> row(id)] BY DEF Flushed
<1> HIDE DEF row
<1>3. DOMAIN positions = 1..Len(positions) /\ Len(positions) \in Nat BY TypeFacts
<1>4. Flushed(p) \in [1..Len(positions) -> RowType] BY <1>1, <1>2, <1>3
<1>5. Flushed(p) \in Seq(RowType) /\ Len(Flushed(p)) = Len(positions)
  BY <1>3, <1>4, SeqOfFunction
<1>6. DOMAIN Flushed(p) = DOMAIN positions
      /\ \A id \in DOMAIN positions : Flushed(p)[id] = row(id)
  BY <1>2
<1> QED BY <1>1, <1>5, <1>6

LEMMA ClosedRowRows ==
  ASSUME TypeOK, NEW p \in Procs, proc[p].row \in DOMAIN positions,
         NEW trade, trade.fees \in Int
  PROVE  /\ ClosedRow(p, trade) \in Seq(RowType)
         /\ DOMAIN ClosedRow(p, trade) = DOMAIN positions
         /\ \A id \in DOMAIN positions :
              /\ ClosedRow(p, trade)[id].status =
                   IF id = proc[p].row THEN "CLOSED" ELSE positions[id].status
              /\ SameEntry(ClosedRow(p, trade)[id], positions[id])
              /\ id # proc[p].row => ClosedRow(p, trade)[id].fees = positions[id].fees
              /\ ClosedRow(p, trade)[id].stop = Flushed(p)[id].stop
<1> DEFINE n == proc[p].row
           f == Flushed(p)
           closed == [f[n] EXCEPT !.status = "CLOSED", !.fees = trade.fees]
<1>1. /\ f \in Seq(RowType) /\ DOMAIN f = DOMAIN positions
      /\ \A id \in DOMAIN positions :
           /\ f[id] \in RowType /\ f[id].status = positions[id].status
           /\ SameEntry(f[id], positions[id]) /\ f[id].fees = positions[id].fees
  BY FlushedRows
<1>2. /\ closed \in RowType /\ closed.status = "CLOSED" /\ closed.stop = f[n].stop
      /\ SameEntry(closed, positions[n])
  <2>1. PICK row \in RowType : row = f[n] BY <1>1
  <2>2. SameEntry(row, positions[n]) BY <1>1, <2>1
  <2>3. PICK fees : fees = trade.fees /\ [row EXCEPT !.fees = fees] \in RowType
    BY DEF RowType
  <2>4. closed = [row EXCEPT !.status = "CLOSED", !.fees = fees] BY <2>1, <2>3
  <2>5. /\ closed \in RowType /\ closed.status = "CLOSED" /\ closed.stop = row.stop
        /\ SameEntry(closed, row)
    <3> HIDE DEF closed, f
    <3> QED BY <2>3, <2>4 DEF RowType, SameEntry
  <2> HIDE DEF closed, f
  <2> QED BY <2>1, <2>2, <2>5 DEF SameEntry
<1>3. ClosedRow(p, trade) = [f EXCEPT ![n] = closed]
  <2>1. ClosedRow(p, trade) = [f EXCEPT ![n].status = "CLOSED", ![n].fees = trade.fees]
    BY DEF ClosedRow
  <2> HIDE DEF f
  <2> QED BY <1>1, <2>1 DEF RowType
<1> HIDE DEF f, closed
<1>4. ClosedRow(p, trade) \in Seq(RowType) BY <1>1, <1>2, <1>3
<1>5. DOMAIN ClosedRow(p, trade) = DOMAIN positions
      /\ \A id \in DOMAIN positions :
           ClosedRow(p, trade)[id] = IF id = n THEN closed ELSE f[id]
  BY <1>1, <1>3
<1> QED BY <1>1, <1>2, <1>4, <1>5 DEF f

\* What the commit of an exit writes.
LEMMA CloseFillEffect ==
  ASSUME TypeOK, NEW p \in Procs, CloseFill(p)
  PROVE  /\ proc[p].row \in DOMAIN positions
         /\ \E trade \in TradeType :
              /\ trade.position = proc[p].row
              /\ positions' = ClosedRow(p, trade)
              /\ trades' = Append(trades, trade)
         /\ snapshot' \in [balance : Int, equity : Int, open : Int]
         /\ peak' \in Int
<1> DEFINE r == proc[p]
           view == r.view
<1> DEFINE Commit(held, id) ==
             LET row   == view.rows[id]
                 fill  == ExitFill(p, row)
                 trade == ExitTrade(p, row, fill)
             IN  /\ positions' = ClosedRow(p, trade)
                 /\ trades' = Append(trades, trade)
                 /\ RecordSnapshot(Portfolio(view).balance
                                     + row.quantity * fill.price * D - fill.fee,
                                   Value(view.rows, held \ {id}, EmptyMap),
                                   Cardinality(held) - 1)
<1>a. PICK held \in HeldChoices(view.rows) : \E id \in held : Commit(held, id)
  BY DEF CloseFill
<1>1. PICK id \in held : Commit(held, id) BY <1>a
<1> DEFINE row   == view.rows[id]
           fill  == ExitFill(p, row)
           trade == ExitTrade(p, row, fill)
<1>2. /\ RequestOK(r, DOMAIN positions, Len(trades))
      /\ r.symbol \in Symbols /\ r.row \in DOMAIN positions /\ r.row \in Nat
  <2>1. r.pc = "closeFill" BY DEF CloseFill
  <2> QED BY <2>1, TypeFacts DEF RequestOK
<1>3. /\ held \in SUBSET DOMAIN view.rows
      /\ OnRows(view.rows, RowType, DOMAIN positions)
  BY <1>2 DEF HeldChoices, RequestOK
<1>4. row \in RowType BY <1>3 DEF OnRows
<1>5. row.quantity \in Int /\ row.quantity \in 1..MaxQuantity /\ row.entry \in Int
      /\ row.fees \in Int /\ row.symbol \in Symbols
  BY <1>4, AccountAssumption DEF RowType
<1>6. fill.price \in Int /\ fill.fee \in Int
  <2> DEFINE ref == IF r.ref # NoPrice THEN r.ref ELSE price[r.symbol]
             step == Filters(r.symbol).step
  <2>1. price[r.symbol] \in Int BY <1>2, TypeFacts
  <2>2. ref \in Int BY <1>2, <2>1 DEF RequestOK, OptInt
  <2>3. step \in OptInt
    BY <1>2, AccountAssumption DEF Filters, NoFilters, FilterType, OptInt
  <2>4. fill = SimulateFill(row.quantity, ref, "SELL", NoPrice, step)
    BY DEF ExitFill
  <2> HIDE DEF row, ref, step, fill
  <2> QED BY <1>5, <2>2, <2>3, <2>4, FillType
<1>7. trade \in TradeType /\ trade.position = r.row
  <2>1. now \in Nat BY TypeFacts
  <2>2. (fill.price - row.entry) * row.quantity * D \in Int
    <3> HIDE DEF row, fill
    <3> QED BY <1>5, <1>6, UnitType
  <2> HIDE DEF row, fill
  <2> QED BY <1>2, <1>5, <1>6, <2>1, <2>2 DEF ExitTrade, TradeType
<1>8. snapshot' \in [balance : Int, equity : Int, open : Int] /\ peak' \in Int
  <2> DEFINE cash  == Portfolio(view).balance + row.quantity * fill.price * D - fill.fee
             value == Value(view.rows, held \ {id}, EmptyMap)
             open  == Cardinality(held) - 1
  <2>1. cash \in Int
    <3>1. Portfolio(view).balance \in Int BY TypeFacts, ViewTyped, BalanceType
    <3>2. row.quantity * fill.price * D \in Int
      <4> HIDE DEF row, fill
      <4> QED BY <1>5, <1>6, UnitType
    <3> HIDE DEF row, fill
    <3> QED BY <1>6, <3>1, <3>2
  <2>2. value \in Int
    <3>1. EmptyMap \in [DOMAIN EmptyMap -> Prices] BY DEF EmptyMap
    <3> QED BY <1>3, <3>1, TypeFacts, ValueType
  <2>3. open \in Int
    <3>1. held \subseteq DOMAIN positions BY <1>3 DEF OnRows
    <3> QED BY <3>1, TypeFacts, CountType
  <2>4. RecordSnapshot(cash, value, open) BY <1>1
  <2> HIDE DEF cash, value, open
  <2> QED BY <2>1, <2>2, <2>3, <2>4, TypeFacts, SnapshotType
<1>9. positions' = ClosedRow(p, trade) /\ trades' = Append(trades, trade) BY <1>1
<1> HIDE DEF trade
<1> QED BY <1>2, <1>7, <1>8, <1>9

\* The commit of an exit, or its refusal.
LEMMA CloseSteps ==
  ASSUME TypeOK, NEW p \in Procs, CloseFill(p) \/ CloseRefused(p)
  PROVE  TypeOK'
<1>1. CASE CloseFill(p)
  <2>1. proc[p].row \in DOMAIN positions BY <1>1, CloseFillEffect
  <2>2. PICK trade \in TradeType :
          /\ trade.position = proc[p].row
          /\ positions' = ClosedRow(p, trade)
          /\ trades' = Append(trades, trade)
    BY <1>1, CloseFillEffect
  <2>3. positions' \in Seq(RowType) /\ DOMAIN positions' = DOMAIN positions
    <3>1. trade.fees \in Int BY DEF TradeType
    <3> QED BY <2>1, <2>2, <3>1, ClosedRowRows
  <2>4. trades' \in Seq(TradeType) /\ Len(trades) <= Len(trades')
        /\ \A i \in DOMAIN trades' : trades'[i].position \in DOMAIN positions'
    BY <2>1, <2>2, <2>3, TypeFacts DEF TypeOK
  <2>5. TickOK(tick', DOMAIN positions')
    <3>1. TickOK(tick, DOMAIN positions) BY TypeFacts
    <3>2. tick' = IF p = Monitor THEN [tick EXCEPT !.pending = EmptyMap] ELSE tick
      BY <1>1 DEF CloseFill
    <3> QED BY <2>3, <3>1, <3>2 DEF TickOK, NoTick, OnRows, EmptyMap
  <2>6. Reply(p) /\ UNCHANGED world BY <1>1 DEF CloseFill
  <2>7. snapshot' \in [balance : Int, equity : Int, open : Int] /\ peak' \in Int
    BY <1>1, CloseFillEffect
  <2> QED BY <2>3, <2>4, <2>5, <2>6, <2>7, CommitStep
<1>2. CASE CloseRefused(p)
  <2>1. Reply(p) /\ UNCHANGED <<ledger, tick, world>> BY <1>2 DEF CloseRefused
  <2>2. TickOK(tick', DOMAIN positions) BY <2>1, TypeFacts
  <2> QED BY <2>1, <2>2, ReplyStep
<1> QED BY <1>1, <1>2

\* Checking a row of the tick keeps the tick's type.
LEMMA CheckedType ==
  ASSUME TypeOK, NEW id \in DOMAIN tick.rows,
         NEW prices, DOMAIN prices \subseteq Symbols,
         prices \in [DOMAIN prices -> Prices],
         NEW pending, OnRows(pending, Int, DOMAIN positions),
         Checked(id, prices, pending)
  PROVE  TickOK(tick', DOMAIN positions)
<1> DEFINE rows == Restrict(tick.rows, DOMAIN tick.rows \ {id})
<1>1. TickOK(tick, DOMAIN positions) BY TypeFacts
<1>2. OnRows(rows, OptInt, DOMAIN positions)
  BY <1>1 DEF Restrict, OnRows, TickOK
<1>3. tick' = [tick EXCEPT !.rows = rows, !.prices = prices, !.pending = pending]
  BY DEF Checked
<1> HIDE DEF rows
<1> QED BY <1>1, <1>2, <1>3 DEF TickOK, NoTick

LEMMA PricesWithType ==
  ASSUME TypeOK, NEW s \in Symbols
  PROVE  /\ DOMAIN PricesWith(s) \subseteq Symbols
         /\ PricesWith(s) \in [DOMAIN PricesWith(s) -> Prices]
<1>1. DOMAIN tick.prices \subseteq Symbols
      /\ tick.prices \in [DOMAIN tick.prices -> Prices]
  BY TypeFacts DEF TickOK
<1>2. price[s] \in Prices BY DEF TypeOK
<1> QED BY <1>1, <1>2 DEF PricesWith, With

\* A trailing stop is an integer no lower than the stop the tick loaded.
LEMMA RaisedStop ==
  ASSUME TypeOK, NEW id \in DOMAIN tick.rows
  PROVE  \/ WithRaisedStop(id) = tick.pending
         \/ \E stop \in Int :
              /\ tick.rows[id] # NoPrice => stop >= tick.rows[id]
              /\ WithRaisedStop(id) = With(tick.pending, id, stop)
<1> DEFINE stop    == tick.rows[id]
           high    == price[positions[id].symbol]
           trail   == positions[id].trail
           newStop == UpdateTrailingStop(stop, high, trail)
<1>1. id \in DOMAIN positions /\ stop \in OptInt
  BY TypeFacts DEF TickOK, OnRows
<1>2. high \in Int /\ trail \in OptInt
  BY <1>1, TypeFacts DEF RowType
<1>3. newStop \in OptInt
  <2> HIDE DEF stop, high, trail
  <2> QED BY <1>1, <1>2 DEF UpdateTrailingStop, OptInt
<1>4. WithRaisedStop(id) = IF newStop # NoPrice /\ (stop = NoPrice \/ newStop > stop)
                           THEN With(tick.pending, id, newStop) ELSE tick.pending
  BY DEF WithRaisedStop
<1> HIDE DEF stop, newStop
<1>5. stop # NoPrice => stop \in Int BY <1>1 DEF OptInt
<1>6. newStop # NoPrice => newStop \in Int BY <1>3 DEF OptInt
<1>7. CASE newStop # NoPrice /\ (stop = NoPrice \/ newStop > stop)
  <2>1. newStop \in Int /\ (stop # NoPrice => newStop >= stop)
    BY <1>5, <1>6, <1>7
  <2>2. WithRaisedStop(id) = With(tick.pending, id, newStop) BY <1>4, <1>7
  <2> QED BY <2>1, <2>2 DEF stop
<1>8. CASE ~(newStop # NoPrice /\ (stop = NoPrice \/ newStop > stop))
  BY <1>4, <1>8
<1> QED BY <1>7, <1>8

\* The steps of the loop.
LEMMA CheckSteps ==
  ASSUME TypeOK, NEW id \in DOMAIN tick.rows, Checks(id)
  PROVE  TypeOK'
<1>1. /\ id \in DOMAIN positions /\ positions[id].symbol \in Symbols
      /\ positions[id].target \in OptInt /\ tick.rows[id] \in OptInt
      /\ OnRows(tick.pending, Int, DOMAIN positions)
      /\ DOMAIN tick.prices \subseteq Symbols
      /\ tick.prices \in [DOMAIN tick.prices -> Prices]
  BY TypeFacts DEF TickOK, OnRows, RowType
<1> DEFINE prices == PricesWith(positions[id].symbol)
<1>2. DOMAIN prices \subseteq Symbols /\ prices \in [DOMAIN prices -> Prices]
  BY <1>1, PricesWithType
<1>3. CASE MonitorTrail(id)
  <2> DEFINE pending == WithRaisedStop(id)
  <2>1. OnRows(pending, Int, DOMAIN positions)
    <3>1. CASE pending = tick.pending BY <1>1, <3>1
    <3>2. ASSUME NEW stop \in Int, pending = With(tick.pending, id, stop)
          PROVE  OnRows(pending, Int, DOMAIN positions)
      BY <1>1, <3>2 DEF OnRows, With
    <3> QED BY <3>1, <3>2, RaisedStop
  <2>2. Checked(id, prices, pending) /\ UNCHANGED <<ledger, proc, world>>
    BY <1>3 DEF MonitorTrail
  <2> HIDE DEF pending, prices
  <2>3. TickOK(tick', DOMAIN positions) BY <1>2, <2>1, <2>2, CheckedType
  <2> QED BY <2>2, <2>3, TickStep
<1>4. CASE MonitorExit(id)
  <2> DEFINE at == IF Trigger(id) = "STOP_LOSS" THEN tick.rows[id]
                   ELSE positions[id].target
  <2>1. at \in OptInt BY <1>1
  <2>2. Checked(id, prices, tick.pending) /\ UNCHANGED <<ledger, world>>
    BY <1>4 DEF MonitorExit
  <2>3. \/ CloseSelectRow(Monitor, positions[id].symbol, at)
        \/ UNCHANGED proc
    BY <1>4 DEF MonitorExit
  <2> HIDE DEF at, prices
  <2>4. TickOK(tick', DOMAIN positions) BY <1>1, <1>2, <2>2, CheckedType
  <2>5. Monitor \in Procs BY DEF Procs
  <2>6. CASE CloseSelectRow(Monitor, positions[id].symbol, at)
    BY <1>1, <2>1, <2>2, <2>4, <2>5, <2>6, CloseSelectRowStep
  <2>7. CASE UNCHANGED proc BY <2>2, <2>4, <2>7, TickStep
  <2> QED BY <2>3, <2>6, <2>7
<1>5. CASE MonitorAborts(id)
  <2>1. tick' = NoTick /\ UNCHANGED <<ledger, proc, world>>
    BY <1>5 DEF MonitorAborts
  <2> QED BY <2>1, NoTickOK, TickStep
<1>6. CASE MonitorTickerFails(id)
  <2>1. Checked(id, tick.prices, tick.pending) /\ UNCHANGED <<ledger, proc, world>>
    BY <1>6 DEF MonitorTickerFails
  <2>2. TickOK(tick', DOMAIN positions) BY <1>1, <2>1, CheckedType
  <2> QED BY <2>1, <2>2, TickStep
<1> QED BY <1>3, <1>4, <1>5, <1>6 DEF Checks

\* The tick's start, its commit and its snapshot.
LEMMA TickSteps ==
  ASSUME TypeOK, MonitorLoad \/ MonitorCommit \/ MonitorMark
  PROVE  TypeOK'
<1>1. CASE MonitorLoad
  <2> DEFINE rows == [id \in OpenIds |-> positions[id].stop]
  <2>1. OnRows(rows, OptInt, DOMAIN positions)
    BY TypeFacts DEF OnRows, OpenIds, RowType
  <2>2. tick' = [NoTick EXCEPT !.pc = "checking", !.rows = rows]
        /\ UNCHANGED <<ledger, proc, world>>
    BY <1>1 DEF MonitorLoad
  <2>3. TickOK(NoTick, DOMAIN positions) BY NoTickOK
  <2> HIDE DEF rows
  <2>4. TickOK(tick', DOMAIN positions) BY <2>1, <2>2, <2>3 DEF TickOK, NoTick
  <2> QED BY <2>2, <2>4, TickStep
<1>2. CASE MonitorCommit
  <2>1. positions' = Flushed(Monitor)
        /\ UNCHANGED <<trades, snapshot, peak, proc, price, metadata, engine, now>>
    BY <1>2 DEF MonitorCommit, world
  <2>2. positions' \in Seq(RowType) /\ DOMAIN positions' = DOMAIN positions
    BY <2>1, FlushedRows
  <2>3. tick' = NoTick \/ tick' = [tick EXCEPT !.pc = "marking", !.pending = EmptyMap]
    BY <1>2 DEF MonitorCommit
  <2>4. TickOK(tick, DOMAIN positions) BY TypeFacts
  <2>5. TickOK(tick', DOMAIN positions)
    <3>1. CASE tick' = NoTick BY <3>1, NoTickOK
    <3>2. CASE tick' = [tick EXCEPT !.pc = "marking", !.pending = EmptyMap]
      BY <2>4, <3>2 DEF TickOK, NoTick, OnRows, EmptyMap
    <3> QED BY <2>3, <3>1, <3>2
  <2> QED BY <2>1, <2>2, <2>5 DEF TypeOK
<1>3. CASE MonitorMark
  <2> DEFINE view == proc[Monitor].view
  <2>1. PICK held \in HeldChoices(view.rows) :
          RecordSnapshot(Portfolio(view).balance,
                         Value(view.rows, held, tick.prices), Cardinality(held))
    BY <1>3 DEF MonitorMark
  <2>2. Monitor \in Procs BY DEF Procs
  <2>3. /\ held \in SUBSET DOMAIN view.rows
        /\ OnRows(view.rows, RowType, DOMAIN positions)
    BY <2>2, TypeFacts DEF HeldChoices, RequestOK
  <2>4. Portfolio(view).balance \in Int
    BY <2>2, TypeFacts, ViewTyped, BalanceType
  <2>5. Value(view.rows, held, tick.prices) \in Int
    BY <2>3, TypeFacts, ValueType DEF TickOK
  <2>6. Cardinality(held) \in Int
    <3>1. held \subseteq DOMAIN positions BY <2>3 DEF OnRows
    <3> QED BY <3>1, TypeFacts, CountType
  <2>7. snapshot' \in [balance : Int, equity : Int, open : Int] /\ peak' \in Int
    BY <2>1, <2>4, <2>5, <2>6, TypeFacts, SnapshotType
  <2>8. Reply(Monitor) /\ UNCHANGED <<positions, trades>> /\ UNCHANGED world
        /\ tick' = NoTick
    BY <1>3 DEF MonitorMark
  <2>9. TickOK(tick', DOMAIN positions') BY <2>8, NoTickOK
  <2>10. \A i \in DOMAIN trades' : trades'[i].position \in DOMAIN positions'
    BY <2>8 DEF TypeOK
  <2> QED BY <2>2, <2>7, <2>8, <2>9, <2>10, TypeFacts, CommitStep
<1> QED BY <1>1, <1>2, <1>3

\* The market, the clock, the engine state, a restart.
LEMMA WorldSteps ==
  ASSUME TypeOK, MarketMoves \/ TimePasses \/ EngineStateSet \/ Restart
  PROVE  TypeOK'
<1>1. CASE MarketMoves
  <2>1. price' \in [Symbols -> Prices]
        /\ UNCHANGED <<positions, trades, snapshot, peak, proc, tick, metadata, engine, now>>
    BY <1>1 DEF MarketMoves, ledger, TypeOK
  <2> QED BY <2>1 DEF TypeOK
<1>2. CASE TimePasses
  <2>1. now' \in 0..MaxTime
        /\ UNCHANGED <<positions, trades, snapshot, peak, proc, tick, price, metadata, engine>>
    BY <1>2, AccountAssumption DEF TimePasses, ledger, TypeOK
  <2> QED BY <2>1 DEF TypeOK
<1>3. CASE EngineStateSet
  <2>1. engine' \in EngineStates
        /\ UNCHANGED <<positions, trades, snapshot, peak, proc, tick, price, metadata, now>>
    BY <1>3 DEF EngineStateSet, ledger, TypeOK
  <2> QED BY <2>1 DEF TypeOK
<1>4. CASE Restart
  <2>1. /\ proc' = [p \in Procs |-> Idle] /\ tick' = NoTick
        /\ metadata' \in BOOLEAN
        /\ UNCHANGED <<positions, trades, snapshot, peak, price, engine, now>>
    BY <1>4, AccountAssumption DEF Restart, ledger
  <2>2. \A p \in Procs : RequestOK(Idle, DOMAIN positions, Len(trades))
    BY TypeFacts, IdleOK
  <2> QED BY <2>1, <2>2, NoTickOK DEF TypeOK
<1> QED BY <1>1, <1>2, <1>3, <1>4

LEMMA TypeNext == TypeOK /\ [Next]_vars => TypeOK'
<1> SUFFICES ASSUME TypeOK, [Next]_vars PROVE TypeOK' OBVIOUS
<1>1. ASSUME NEW c \in Clients, Opens(c) \/ RequestClose(c) \/ RequestFails(c)
      PROVE  TypeOK'
  <2>1. c \in Procs BY DEF Procs
  <2> QED BY <1>1, <2>1, RequestSteps, SelectSteps, OpenFillStep DEF Opens
<1>2. ASSUME NEW p \in Procs, Closes(p) PROVE TypeOK'
  BY <1>2, SelectSteps, CloseSteps DEF Closes
<1>3. CASE MonitorSelectTrades \/ MonitorSelectRows
  <2>1. Monitor \in Procs BY DEF Procs
  <2> QED BY <1>3, <2>1, SelectSteps
<1>4. CASE UNCHANGED vars BY <1>4 DEF vars, ledger, world, TypeOK
<1> QED BY <1>1, <1>2, <1>3, <1>4, TickSteps, CheckSteps, WorldSteps DEF Next

\* Every row, trade, request in flight and snapshot keeps its type, for any
\* number of requests that overlap in any way.
THEOREM TypeCorrect == Spec => []TypeOK
BY TypeInit, TypeNext, PTL DEF Spec

-----------------------------------------------------------------------------
(* What a step writes to the tables.                                       *)

\* One request, at two moments.
SameRequest(r, old) == r.symbol = old.symbol /\ r.row = old.row

\* What a SELECT leaves a handler with: what it selected, and what it had.
LEMMA SelectEffect ==
  ASSUME TypeOK, NEW p \in Procs, NEW pc
  PROVE  /\ SelectTrades(p, pc) =>
              \E r : /\ Await(p, r) /\ SameRequest(r, proc[p]) /\ r.pc = pc
                     /\ r.view.trades = Len(trades)
         /\ SelectRows(p, pc) =>
              \E r : /\ Await(p, r) /\ SameRequest(r, proc[p]) /\ r.pc = pc
                     /\ r.view.trades = proc[p].view.trades
                     /\ r.view.rows = OpenRows
         /\ SelectPeak(p, pc) =>
              \E r : /\ Await(p, r) /\ SameRequest(r, proc[p]) /\ r.pc = pc
                     /\ r.view.trades = proc[p].view.trades
                     /\ r.view.rows = proc[p].view.rows
                     /\ r.view.peak = peak
<1> DEFINE old == proc[p]
<1>1. DOMAIN old = DOMAIN Idle /\ DOMAIN old.view = DOMAIN NoView
  BY TypeFacts DEF RequestOK
<1>2. SelectTrades(p, pc) =>
        \E r : /\ Await(p, r) /\ SameRequest(r, old) /\ r.pc = pc
               /\ r.view.trades = Len(trades)
  <2> DEFINE r == [old EXCEPT !.pc = pc, !.view.trades = Len(trades)]
  <2>1. SameRequest(r, old) /\ r.pc = pc /\ r.view.trades = Len(trades)
    BY <1>1 DEF Idle, NoView, SameRequest
  <2>2. SelectTrades(p, pc) => Await(p, r) BY DEF SelectTrades
  <2> HIDE DEF r, old
  <2> QED BY <2>1, <2>2
<1>3. SelectRows(p, pc) =>
        \E r : /\ Await(p, r) /\ SameRequest(r, old) /\ r.pc = pc
               /\ r.view.trades = old.view.trades
               /\ r.view.rows = OpenRows
  <2> DEFINE r == [old EXCEPT !.pc = pc, !.view.rows = OpenRows]
  <2>1. SameRequest(r, old) /\ r.pc = pc /\ r.view.trades = old.view.trades
        /\ r.view.rows = OpenRows
    BY <1>1 DEF Idle, NoView, SameRequest
  <2>2. SelectRows(p, pc) => Await(p, r) BY DEF SelectRows
  <2> HIDE DEF r, old
  <2> QED BY <2>1, <2>2
<1>4. SelectPeak(p, pc) =>
        \E r : /\ Await(p, r) /\ SameRequest(r, old) /\ r.pc = pc
               /\ r.view.trades = old.view.trades
               /\ r.view.rows = old.view.rows
               /\ r.view.peak = peak
  <2> DEFINE r == [old EXCEPT !.pc = pc, !.view.peak = peak]
  <2>1. SameRequest(r, old) /\ r.pc = pc /\ r.view.trades = old.view.trades
        /\ r.view.rows = old.view.rows /\ r.view.peak = peak
    BY <1>1 DEF Idle, NoView, SameRequest
  <2>2. SelectPeak(p, pc) => Await(p, r) BY DEF SelectPeak
  <2> HIDE DEF r, old
  <2> QED BY <2>1, <2>2
<1> QED BY <1>2, <1>3, <1>4

\* Rows are appended by an entry, closed by an exit, and have their stop moved
\* by the monitor's commit; nothing else touches them.
LEMMA TableSteps ==
  ASSUME TypeOK, [Next]_vars
  PROVE  \/ UNCHANGED <<positions, trades>>
         \/ /\ \E row : row.status = "OPEN" /\ positions' = Append(positions, row)
            /\ UNCHANGED <<trades, tick>>
         \/ \E p \in Procs : CloseFill(p)
         \/ positions' = Flushed(Monitor) /\ UNCHANGED trades
<1>1. ASSUME NEW c \in Clients, OpenFill(c)
      PROVE  /\ \E row : row.status = "OPEN" /\ positions' = Append(positions, row)
             /\ UNCHANGED <<trades, tick>>
  <2>1. UNCHANGED <<trades, tick>> BY <1>1 DEF OpenFill
  <2> QED BY <1>1, <2>1, OpenFillEffect
<1>2. ASSUME NEW c \in Clients, Opens(c) \/ RequestClose(c) \/ RequestFails(c),
             ~OpenFill(c)
      PROVE  UNCHANGED <<positions, trades>>
  BY <1>2 DEF Opens, RequestOpen, OpenSelectRows, OpenSelectPeak, OpenRefused, RequestClose,
              RequestFails, ledger
<1>3. ASSUME NEW p \in Procs, Closes(p), ~CloseFill(p)
      PROVE  UNCHANGED <<positions, trades>>
  BY <1>3 DEF Closes, CloseSelectTrades, CloseSelectRows, CloseSelectPeak,
                        CloseRefused, ledger
<1>4. ASSUME NEW id \in DOMAIN tick.rows, Checks(id)
      PROVE  UNCHANGED <<positions, trades>>
  BY <1>4 DEF Checks, MonitorTrail, MonitorExit, MonitorAborts,
              MonitorTickerFails, ledger
<1>5. CASE MonitorLoad \/ MonitorSelectTrades \/ MonitorSelectRows \/ MonitorMark
  BY <1>5 DEF MonitorLoad, MonitorSelectTrades, MonitorSelectRows, MonitorMark,
              ledger
<1>6. CASE MonitorCommit BY <1>6 DEF MonitorCommit
<1>7. CASE MarketMoves \/ TimePasses \/ EngineStateSet \/ Restart
  BY <1>7 DEF MarketMoves, TimePasses, EngineStateSet, Restart, ledger
<1>8. CASE UNCHANGED vars BY <1>8 DEF vars, ledger
<1> QED BY <1>1, <1>2, <1>3, <1>4, <1>5, <1>6, <1>7, <1>8 DEF Next

-----------------------------------------------------------------------------
(* ClosedIffTraded.                                                        *)

LEMMA ClosedIffTradedStep ==
  ASSUME TypeOK, TypeOK', ClosedIffTraded, [Next]_vars
  PROVE  ClosedIffTraded'
<1>1. CASE UNCHANGED <<positions, trades>>
  BY <1>1 DEF ClosedIffTraded, TradesOf
<1>2. ASSUME NEW row, row.status = "OPEN", positions' = Append(positions, row),
             UNCHANGED trades
      PROVE  ClosedIffTraded'
  <2> DEFINE n == Len(positions)
  <2>1. /\ DOMAIN positions = 1..n /\ n \in Nat /\ DOMAIN positions' = 1..(n + 1)
        /\ positions'[n + 1] = row
        /\ \A id \in 1..n : positions'[id] = positions[id]
    BY <1>2, TypeFacts
  <2>2. TradesOf(n + 1) = {} BY <2>1 DEF TypeOK, TradesOf
  <2>3. \A id : TradesOf(id)' = TradesOf(id) BY <1>2 DEF TradesOf
  <2>4. ASSUME NEW id \in 1..(n + 1)
        PROVE  positions'[id].status = "CLOSED" <=> TradesOf(id) # {}
    <3>1. CASE id = n + 1 BY <1>2, <2>1, <2>2, <3>1
    <3>2. CASE id # n + 1
      <4>1. id \in 1..n BY <2>1, <3>2
      <4> QED BY <2>1, <4>1 DEF ClosedIffTraded
    <3> QED BY <3>1, <3>2
  <2> QED BY <2>1, <2>3, <2>4 DEF ClosedIffTraded
<1>3. ASSUME NEW p \in Procs, CloseFill(p) PROVE ClosedIffTraded'
  <2> DEFINE n == proc[p].row
  <2>1. n \in DOMAIN positions BY <1>3, CloseFillEffect
  <2>2. PICK trade \in TradeType :
          /\ trade.position = n
          /\ positions' = ClosedRow(p, trade)
          /\ trades' = Append(trades, trade)
    BY <1>3, CloseFillEffect
  <2>3. /\ DOMAIN positions' = DOMAIN positions
        /\ \A id \in DOMAIN positions :
             positions'[id].status = IF id = n THEN "CLOSED" ELSE positions[id].status
    <3>1. trade.fees \in Int BY DEF TradeType
    <3> QED BY <2>1, <2>2, <3>1, ClosedRowRows
  <2> DEFINE m == Len(trades)
  <2>4. /\ m \in Nat /\ DOMAIN trades = 1..m /\ DOMAIN trades' = 1..(m + 1)
        /\ trades'[m + 1] = trade /\ \A i \in 1..m : trades'[i] = trades[i]
    BY <2>2, TypeFacts
  <2>5. ASSUME NEW id \in DOMAIN positions
        PROVE  TradesOf(id)' = IF id = n THEN TradesOf(id) \cup {m + 1} ELSE TradesOf(id)
    BY <2>2, <2>4 DEF TradesOf
  <2> HIDE DEF n, m
  <2> QED BY <2>3, <2>5 DEF ClosedIffTraded
<1>4. CASE positions' = Flushed(Monitor) /\ UNCHANGED trades
  <2>1. /\ DOMAIN positions' = DOMAIN positions
        /\ \A id \in DOMAIN positions : positions'[id].status = positions[id].status
    BY <1>4, FlushedRows
  <2> QED BY <1>4, <2>1 DEF ClosedIffTraded, TradesOf
<1> QED BY <1>1, <1>2, <1>3, <1>4, TableSteps

\* However handlers overlap, a row is CLOSED exactly when a trade of it is in
\* the ledger.
THEOREM ClosedRowsHaveTrades == Spec => []ClosedIffTraded
<1>1. Init => ClosedIffTraded BY DEF Init, ClosedIffTraded
<1>2. TypeOK /\ TypeOK' /\ ClosedIffTraded /\ [Next]_vars => ClosedIffTraded'
  BY ClosedIffTradedStep
<1> QED BY <1>1, <1>2, TypeCorrect, PTL DEF Spec

-----------------------------------------------------------------------------
(* The tables are a history.                                               *)

\* A row stays what was bought, CLOSED is for ever, and no trade is rewritten:
\* what load_portfolio adds up is never taken back, although the monitor and
\* overlapping closes write rows they read before other commits.
HistoryStands ==
  [][/\ \A id \in DOMAIN positions :
          /\ id \in DOMAIN positions' /\ SameEntry(positions'[id], positions[id])
          /\ positions[id].status = "CLOSED" => positions'[id].status = "CLOSED"
     /\ \A i \in DOMAIN trades : i \in DOMAIN trades' /\ trades'[i] = trades[i]]_vars

LEMMA RowsStand ==
  ASSUME TypeOK, [Next]_vars
  PROVE  \A id \in DOMAIN positions :
           /\ id \in DOMAIN positions' /\ SameEntry(positions'[id], positions[id])
           /\ positions[id].status = "CLOSED" => positions'[id].status = "CLOSED"
<1>1. CASE UNCHANGED positions BY <1>1 DEF SameEntry
<1>2. ASSUME NEW row, positions' = Append(positions, row)
      PROVE  \A id \in DOMAIN positions :
               id \in DOMAIN positions' /\ positions'[id] = positions[id]
  BY <1>2, TypeFacts
<1>3. ASSUME NEW p \in Procs, CloseFill(p)
      PROVE  /\ DOMAIN positions' = DOMAIN positions
             /\ \A id \in DOMAIN positions :
                  /\ SameEntry(positions'[id], positions[id])
                  /\ positions'[id].status \in {"CLOSED", positions[id].status}
  <2>1. proc[p].row \in DOMAIN positions BY <1>3, CloseFillEffect
  <2>2. PICK trade \in TradeType : positions' = ClosedRow(p, trade)
    BY <1>3, CloseFillEffect
  <2>3. trade.fees \in Int BY DEF TradeType
  <2> QED BY <2>1, <2>2, <2>3, ClosedRowRows
<1>4. CASE positions' = Flushed(Monitor) BY <1>4, FlushedRows
<1> QED BY <1>1, <1>2, <1>3, <1>4, TableSteps DEF SameEntry

LEMMA TradesStand ==
  ASSUME TypeOK, [Next]_vars
  PROVE  \A i \in DOMAIN trades : i \in DOMAIN trades' /\ trades'[i] = trades[i]
<1>1. CASE UNCHANGED trades BY <1>1
<1>2. ASSUME NEW trade, trades' = Append(trades, trade)
      PROVE  \A i \in DOMAIN trades : i \in DOMAIN trades' /\ trades'[i] = trades[i]
  BY <1>2, TypeFacts
<1>3. ASSUME NEW p \in Procs, CloseFill(p)
      PROVE  \E trade : trades' = Append(trades, trade)
  BY <1>3, CloseFillEffect
<1> QED BY <1>1, <1>2, <1>3, TableSteps

\* Whatever handlers overlap, the tables only grow.
THEOREM HistoryIsKept == Spec => HistoryStands
<1>1. TypeOK /\ [Next]_vars =>
        [/\ \A id \in DOMAIN positions :
              /\ id \in DOMAIN positions' /\ SameEntry(positions'[id], positions[id])
              /\ positions[id].status = "CLOSED" => positions'[id].status = "CLOSED"
         /\ \A i \in DOMAIN trades : i \in DOMAIN trades' /\ trades'[i] = trades[i]]_vars
  BY RowsStand, TradesStand
<1> QED BY <1>1, TypeCorrect, PTL DEF Spec, HistoryStands

-----------------------------------------------------------------------------
(* StopNeverLowered.                                                       *)

\* A step that writes no stop of a row the tick knows, and takes rows or
\* pending stops away at most, keeps TickFollowsRows.
LEMMA TickKeepsFollowing ==
  ASSUME TypeOK, TickFollowsRows,
         \A id \in DOMAIN positions :
           id \in DOMAIN positions' /\ positions'[id].stop = positions[id].stop,
         DOMAIN tick.rows' \subseteq DOMAIN tick.rows,
         \A id \in DOMAIN tick.rows' : tick.rows'[id] = tick.rows[id],
         DOMAIN tick.pending' \subseteq DOMAIN tick.pending,
         \A id \in DOMAIN tick.pending' : tick.pending'[id] = tick.pending[id]
  PROVE  TickFollowsRows'
<1>1. DOMAIN tick.rows \subseteq DOMAIN positions
      /\ DOMAIN tick.pending \subseteq DOMAIN positions
  BY TypeFacts DEF TickOK, OnRows
<1> QED BY <1>1 DEF TickFollowsRows

\* The rows of tick' after a row has been checked.
LEMMA CheckedEffect ==
  ASSUME TypeOK, NEW id \in DOMAIN tick.rows, NEW prices, NEW pending,
         Checked(id, prices, pending)
  PROVE  /\ DOMAIN tick.rows' = DOMAIN tick.rows \ {id}
         /\ \A k \in DOMAIN tick.rows' : tick.rows'[k] = tick.rows[k]
         /\ tick.pending' = pending
<1> DEFINE rows == Restrict(tick.rows, DOMAIN tick.rows \ {id})
<1>1. DOMAIN tick = {"pc", "rows", "pending", "prices"}
  BY TypeFacts DEF TickOK, NoTick
<1>2. DOMAIN rows = DOMAIN tick.rows \ {id}
      /\ \A k \in DOMAIN rows : rows[k] = tick.rows[k]
  BY DEF Restrict
<1>3. tick' = [tick EXCEPT !.rows = rows, !.prices = prices, !.pending = pending]
  BY DEF Checked
<1> HIDE DEF rows
<1>4. tick'.rows = rows /\ tick'.pending = pending BY <1>1, <1>3
<1> QED BY <1>2, <1>4

LEMMA CheckFollows ==
  ASSUME TypeOK, TickFollowsRows, NEW id \in DOMAIN tick.rows, Checks(id)
  PROVE  TickFollowsRows'
<1>1. UNCHANGED positions
  BY DEF Checks, MonitorTrail, MonitorExit, MonitorAborts, MonitorTickerFails, ledger
<1>2. CASE MonitorAborts(id)
  BY <1>2 DEF MonitorAborts, TickFollowsRows, NoTick, EmptyMap
<1>3. ASSUME NEW prices, Checked(id, prices, tick.pending) PROVE TickFollowsRows'
  BY <1>1, <1>3, CheckedEffect, TickKeepsFollowing
<1>4. CASE MonitorExit(id) BY <1>3, <1>4 DEF MonitorExit
<1>5. CASE MonitorTickerFails(id) BY <1>3, <1>5 DEF MonitorTickerFails
<1>6. CASE MonitorTrail(id)
  <2>1. Checked(id, PricesWith(positions[id].symbol), WithRaisedStop(id))
    BY <1>6 DEF MonitorTrail
  <2>2. CASE WithRaisedStop(id) = tick.pending BY <1>3, <2>1, <2>2
  <2>3. ASSUME NEW stop \in Int,
               tick.rows[id] # NoPrice => stop >= tick.rows[id],
               WithRaisedStop(id) = With(tick.pending, id, stop)
        PROVE  TickFollowsRows'
    <3>1. /\ DOMAIN tick.rows' = DOMAIN tick.rows \ {id}
          /\ \A k \in DOMAIN tick.rows' : tick.rows'[k] = tick.rows[k]
          /\ tick.pending' = With(tick.pending, id, stop)
      BY <2>1, <2>3, CheckedEffect
    <3>2. /\ DOMAIN tick.pending' = DOMAIN tick.pending \cup {id}
          /\ \A k \in DOMAIN tick.pending' :
               tick.pending'[k] = IF k = id THEN stop ELSE tick.pending[k]
      BY <3>1 DEF With
    <3>3. tick.rows[id] = positions[id].stop BY DEF TickFollowsRows
    <3> QED BY <1>1, <2>3, <3>1, <3>2, <3>3 DEF TickFollowsRows
  <2> QED BY <2>2, <2>3, RaisedStop
<1> QED BY <1>2, <1>4, <1>5, <1>6 DEF Checks

\* The stops the monitor writes, by the commit of an exit or of the loop.
LEMMA FlushFollows ==
  ASSUME TypeOK, TickFollowsRows, DOMAIN positions' = DOMAIN positions,
         \A id \in DOMAIN positions : positions'[id].stop = Flushed(Monitor)[id].stop,
         \/ tick' = NoTick
         \/ tick'.rows = tick.rows /\ tick'.pending = EmptyMap
  PROVE  TickFollowsRows'
<1>1. \A id \in DOMAIN positions :
        positions'[id].stop = IF id \in DOMAIN tick.pending
                              THEN tick.pending[id] ELSE positions[id].stop
  BY FlushedRows
<1>2. DOMAIN tick.rows \subseteq DOMAIN positions BY TypeFacts DEF TickOK, OnRows
<1>3. CASE tick' = NoTick BY <1>3 DEF TickFollowsRows, NoTick, EmptyMap
<1>4. CASE tick'.rows = tick.rows /\ tick'.pending = EmptyMap
  BY <1>1, <1>2, <1>4 DEF TickFollowsRows, EmptyMap
<1> QED BY <1>3, <1>4

LEMMA TickFollowsRowsStep ==
  ASSUME TypeOK, TickFollowsRows, [Next]_vars
  PROVE  TickFollowsRows'
<1>1. ASSUME UNCHANGED positions, UNCHANGED tick \/ tick' = NoTick
      PROVE  TickFollowsRows'
  BY <1>1 DEF TickFollowsRows, NoTick, EmptyMap
<1>2. ASSUME NEW c \in Clients, Opens(c) \/ RequestClose(c) \/ RequestFails(c)
      PROVE  TickFollowsRows'
  <2>1. CASE OpenFill(c)
    <3>1. PICK row : row.status = "OPEN" /\ positions' = Append(positions, row)
      BY <2>1, OpenFillEffect
    <3>2. UNCHANGED tick BY <2>1 DEF OpenFill
    <3>3. \A id \in DOMAIN positions :
            id \in DOMAIN positions' /\ positions'[id].stop = positions[id].stop
      BY <3>1, TypeFacts
    <3> QED BY <3>2, <3>3, TickKeepsFollowing
  <2>2. CASE ~OpenFill(c)
    <3>1. UNCHANGED positions /\ UNCHANGED tick
      BY <1>2, <2>2 DEF Opens, RequestOpen, OpenSelectRows, OpenSelectPeak, OpenRefused,
                        RequestClose, RequestFails, ledger
    <3> QED BY <1>1, <3>1
  <2> QED BY <2>1, <2>2
<1>3. ASSUME NEW p \in Procs, Closes(p) PROVE TickFollowsRows'
  <2>1. CASE CloseFill(p)
    <3>1. /\ DOMAIN positions' = DOMAIN positions
          /\ \A id \in DOMAIN positions : positions'[id].stop = Flushed(p)[id].stop
      <4>1. proc[p].row \in DOMAIN positions BY <2>1, CloseFillEffect
      <4>2. PICK trade \in TradeType : positions' = ClosedRow(p, trade)
        BY <2>1, CloseFillEffect
      <4>3. trade.fees \in Int BY DEF TradeType
      <4> QED BY <4>1, <4>2, <4>3, ClosedRowRows
    <3>2. tick' = IF p = Monitor THEN [tick EXCEPT !.pending = EmptyMap] ELSE tick
      BY <2>1 DEF CloseFill
    <3>3. DOMAIN tick = DOMAIN NoTick BY TypeFacts DEF TickOK
    <3>4. CASE p = Monitor
      <4>1. tick'.rows = tick.rows /\ tick'.pending = EmptyMap
        BY <3>2, <3>3, <3>4 DEF NoTick
      <4> QED BY <3>1, <3>4, <4>1, FlushFollows
    <3>5. CASE p # Monitor
      <4>1. \A id \in DOMAIN positions : positions'[id].stop = positions[id].stop
        BY <3>1, <3>5, FlushedRows
      <4> QED BY <3>1, <3>2, <3>5, <4>1, TickKeepsFollowing
    <3> QED BY <3>4, <3>5
  <2>2. CASE ~CloseFill(p)
    <3>1. UNCHANGED positions /\ UNCHANGED tick
      BY <1>3, <2>2 DEF Closes, CloseSelectTrades, CloseSelectRows, CloseSelectPeak,
                        CloseRefused, ledger
    <3> QED BY <1>1, <3>1
  <2> QED BY <2>1, <2>2
<1>4. CASE MonitorLoad
  <2>1. UNCHANGED positions BY <1>4 DEF MonitorLoad, ledger
  <2>2. tick'.rows = [id \in OpenIds |-> positions[id].stop] /\ tick'.pending = EmptyMap
    BY <1>4 DEF MonitorLoad, NoTick
  <2> QED BY <2>1, <2>2 DEF TickFollowsRows, EmptyMap
<1>5. CASE MonitorCommit
  <2>1. positions' = Flushed(Monitor) BY <1>5 DEF MonitorCommit
  <2>2. \/ tick' = NoTick
        \/ tick' = [tick EXCEPT !.pc = "marking", !.pending = EmptyMap]
    BY <1>5 DEF MonitorCommit
  <2>3. DOMAIN tick = DOMAIN NoTick BY TypeFacts DEF TickOK
  <2>4. \/ tick' = NoTick
        \/ tick'.rows = tick.rows /\ tick'.pending = EmptyMap
    BY <2>2, <2>3 DEF NoTick
  <2> QED BY <2>1, <2>4, FlushedRows, FlushFollows
<1>6. CASE MonitorSelectTrades \/ MonitorSelectRows \/ MonitorMark
  <2>1. UNCHANGED positions /\ (UNCHANGED tick \/ tick' = NoTick)
    BY <1>6 DEF MonitorSelectTrades, MonitorSelectRows, MonitorMark, ledger
  <2> QED BY <1>1, <2>1
<1>7. CASE MarketMoves \/ TimePasses \/ EngineStateSet \/ Restart
  <2>1. UNCHANGED positions /\ (UNCHANGED tick \/ tick' = NoTick)
    BY <1>7 DEF MarketMoves, TimePasses, EngineStateSet, Restart, ledger
  <2> QED BY <1>1, <2>1
<1>8. CASE UNCHANGED vars
  <2>1. UNCHANGED positions /\ UNCHANGED tick BY <1>8 DEF vars, ledger
  <2> QED BY <1>1, <2>1
<1> QED BY <1>2, <1>3, <1>4, <1>5, <1>6, <1>7, <1>8, CheckFollows DEF Next

\* No step of any handler lowers a stop that is set, whatever the monitor had
\* loaded when it computed the stop it writes.
THEOREM StopsOnlyRise == Spec => StopNeverLowered
<1> DEFINE Kept == \A id \in DOMAIN positions :
                     positions[id].stop # NoPrice =>
                       /\ positions'[id].stop # NoPrice
                       /\ positions'[id].stop >= positions[id].stop
<1>1. Init => TickFollowsRows
  BY DEF Init, TickFollowsRows, NoTick, EmptyMap
<1>2. TypeOK /\ TickFollowsRows /\ [Next]_vars => TickFollowsRows'
  BY TickFollowsRowsStep
<1>3. TypeOK /\ TickFollowsRows /\ [Next]_vars => [Kept]_vars
  <2> SUFFICES ASSUME TypeOK, TickFollowsRows, [Next]_vars PROVE Kept OBVIOUS
  <2>1. \A id \in DOMAIN positions : positions[id].stop \in OptInt
    BY TypeFacts DEF RowType
  <2>2. \A id \in DOMAIN tick.pending : tick.pending[id] \in Int
    BY TypeFacts DEF TickOK, OnRows
  <2>3. \A x \in OptInt : x # NoPrice => x \in Int /\ x >= x BY DEF OptInt
  <2>4. ASSUME \A id \in DOMAIN positions : positions'[id].stop = positions[id].stop
        PROVE  Kept
    BY <2>1, <2>3, <2>4
  <2>5. ASSUME NEW p, \A id \in DOMAIN positions :
                        positions'[id].stop = Flushed(p)[id].stop
        PROVE  Kept
    <3>1. \A id \in DOMAIN positions :
            positions'[id].stop = IF p = Monitor /\ id \in DOMAIN tick.pending
                                  THEN tick.pending[id] ELSE positions[id].stop
      BY <2>5, FlushedRows
    <3>2. \A x \in Int : x # NoPrice BY FillsAssumption
    <3> QED BY <2>1, <2>2, <2>3, <3>1, <3>2 DEF TickFollowsRows
  <2>6. ASSUME NEW p \in Procs, CloseFill(p) PROVE Kept
    <3>1. proc[p].row \in DOMAIN positions BY <2>6, CloseFillEffect
    <3>2. PICK trade \in TradeType : positions' = ClosedRow(p, trade)
      BY <2>6, CloseFillEffect
    <3>3. trade.fees \in Int BY DEF TradeType
    <3>4. \A id \in DOMAIN positions : positions'[id].stop = Flushed(p)[id].stop
      BY <3>1, <3>2, <3>3, ClosedRowRows
    <3> HIDE DEF Kept
    <3> QED BY <2>5, <3>4
  <2>7. ASSUME NEW row, positions' = Append(positions, row) PROVE Kept
    <3>1. \A id \in DOMAIN positions : positions'[id].stop = positions[id].stop
      BY <2>7, TypeFacts
    <3> HIDE DEF Kept
    <3> QED BY <2>4, <3>1
  <2>8. CASE UNCHANGED positions BY <2>4, <2>8
  <2>9. CASE positions' = Flushed(Monitor) BY <2>5, <2>9
  <2> HIDE DEF Kept
  <2> QED BY <2>6, <2>7, <2>8, <2>9, TableSteps
<1> QED BY <1>1, <1>2, <1>3, TypeCorrect, PTL DEF Spec, StopNeverLowered
-----------------------------------------------------------------------------
(* What a step does to the tables and to the entries in flight, in the form *)
(* the proofs about overlapping handlers use it.                            *)

LEMMA LedgerSteps ==
  ASSUME [Next]_vars
  PROVE  \/ UNCHANGED ledger
         \/ \E c \in Clients : OpenFill(c)
         \/ \E p \in Procs : CloseFill(p)
         \/ MonitorCommit
         \/ MonitorMark
<1>1. ASSUME NEW c \in Clients, Opens(c) \/ RequestClose(c) \/ RequestFails(c)
      PROVE  UNCHANGED ledger \/ OpenFill(c)
  BY <1>1 DEF Opens, RequestOpen, OpenSelectRows, OpenSelectPeak, OpenRefused, RequestClose,
              RequestFails
<1>2. ASSUME NEW p \in Procs, Closes(p) PROVE UNCHANGED ledger \/ CloseFill(p)
  BY <1>2 DEF Closes, CloseSelectTrades, CloseSelectRows, CloseSelectPeak, CloseRefused
<1>3. ASSUME NEW id \in DOMAIN tick.rows, Checks(id) PROVE UNCHANGED ledger
  BY <1>3 DEF Checks, MonitorTrail, MonitorExit, MonitorAborts, MonitorTickerFails
<1>4. CASE \/ MonitorLoad \/ MonitorSelectTrades \/ MonitorSelectRows \/ MarketMoves
           \/ TimePasses \/ EngineStateSet \/ Restart \/ UNCHANGED vars
  BY <1>4 DEF MonitorLoad, MonitorSelectTrades, MonitorSelectRows, MarketMoves,
              TimePasses, EngineStateSet, Restart, vars
<1> QED BY <1>1, <1>2, <1>3, <1>4 DEF Next

\* A step opens no row and gives none another symbol.
OpensNoRow ==
  /\ DOMAIN positions' = DOMAIN positions
  /\ \A id \in DOMAIN positions :
       /\ positions'[id].symbol = positions[id].symbol
       /\ positions'[id].status = "OPEN" => positions[id].status = "OPEN"

\* Only an entry opens a row.
LEMMA OnlyEntriesOpen ==
  ASSUME TypeOK, [Next]_vars
  PROVE  OpensNoRow \/ \E c \in Clients : OpenFill(c)
<1>1. CASE UNCHANGED ledger \/ MonitorMark BY <1>1 DEF ledger, MonitorMark, OpensNoRow
<1>2. ASSUME NEW p \in Procs, CloseFill(p) PROVE OpensNoRow
  <2>1. PICK trade \in TradeType : positions' = ClosedRow(p, trade)
    BY <1>2, CloseFillEffect
  <2>2. trade.fees \in Int BY DEF TradeType
  <2>3. proc[p].row \in DOMAIN positions BY <1>2, CloseFillEffect
  <2> QED BY <2>1, <2>2, <2>3, ClosedRowRows DEF OpensNoRow, SameEntry
<1>3. CASE MonitorCommit
  BY <1>3, FlushedRows DEF MonitorCommit, OpensNoRow, SameEntry
<1> QED BY <1>1, <1>2, <1>3, LedgerSteps

UniqueOpen ==
  \A i, j \in OpenIds : positions[i].symbol = positions[j].symbol => i = j

LEMMA OpensNoRowEffect ==
  ASSUME OpensNoRow
  PROVE  /\ OpenIds' \subseteq OpenIds
         /\ \A id \in OpenIds : positions'[id].symbol = positions[id].symbol
         /\ UniqueOpen => UniqueOpen'
<1>1. OpenIds' \subseteq OpenIds BY DEF OpensNoRow, OpenIds
<1>2. \A id \in OpenIds : positions'[id].symbol = positions[id].symbol
  BY DEF OpensNoRow, OpenIds
<1> QED BY <1>1, <1>2 DEF UniqueOpen

\* A row whose symbol is not open keeps the open symbols distinct.
LEMMA EntryKeepsUnique ==
  ASSUME TypeOK, UniqueOpen, NEW c \in Clients, OpenFill(c),
         OpenIn(proc[c].symbol) = {}
  PROVE  UniqueOpen'
<1>1. PICK row \in RowType :
        row.symbol = proc[c].symbol /\ positions' = Append(positions, row)
  BY OpenFillEffect
<1> DEFINE n == Len(positions)
<1>2. /\ DOMAIN positions = 1..n /\ n \in Nat /\ DOMAIN positions' = 1..(n + 1)
      /\ positions'[n + 1] = row /\ \A id \in 1..n : positions'[id] = positions[id]
  BY <1>1, TypeFacts
<1> SUFFICES ASSUME NEW i \in OpenIds', NEW j \in OpenIds',
                    positions'[i].symbol = positions'[j].symbol
             PROVE  i = j
  BY DEF UniqueOpen
<1>3. \A k \in OpenIds' : k = n + 1 \/ (k \in OpenIds /\ positions'[k] = positions[k])
  BY <1>2 DEF OpenIds
<1>4. \A k \in OpenIds : positions[k].symbol # row.symbol BY <1>1 DEF OpenIn
<1> HIDE DEF n
<1> QED BY <1>2, <1>3, <1>4 DEF UniqueOpen

\* Symbols stay distinct if every entry is for a symbol that is not open.
LEMMA UniqueKept ==
  ASSUME TypeOK, UniqueOpen, [Next]_vars,
         \A c \in Clients : OpenFill(c) => OpenIn(proc[c].symbol) = {}
  PROVE  UniqueOpen'
BY OnlyEntriesOpen, OpensNoRowEffect, EntryKeepsUnique

LEMMA OpenCountType ==
  ASSUME TypeOK
  PROVE  IsFiniteSet(OpenIds) /\ Cardinality(OpenIds) \in Nat
<1>1. OpenIds \subseteq DOMAIN positions BY DEF OpenIds
<1> QED BY <1>1, TypeFacts, CountType

\* The limit is kept if every entry finds room.
LEMMA MaxKept ==
  ASSUME TypeOK, WithinMaxPositions, [Next]_vars,
         \A c \in Clients : OpenFill(c) => Cardinality(OpenIds) < MaxSimultaneousPositions
  PROVE  WithinMaxPositions'
<1>1. IsFiniteSet(OpenIds) /\ Cardinality(OpenIds) \in Nat
      /\ MaxSimultaneousPositions \in Nat
      /\ Cardinality(OpenIds) <= MaxSimultaneousPositions
  BY OpenCountType, RiskAssumption DEF WithinMaxPositions
<1>2. CASE OpensNoRow
  <2>1. OpenIds' \subseteq OpenIds BY <1>2, OpensNoRowEffect
  <2>2. Cardinality(OpenIds') <= Cardinality(OpenIds) /\ Cardinality(OpenIds') \in Nat
    BY <1>1, <2>1, FS_Subset, FS_CardinalityType
  <2> QED BY <1>1, <2>2 DEF WithinMaxPositions
<1>3. ASSUME NEW c \in Clients, OpenFill(c) PROVE WithinMaxPositions'
  <2>1. PICK row \in RowType :
          row.status = "OPEN" /\ positions' = Append(positions, row)
    BY <1>3, OpenFillEffect
  <2>2. OpenIds' = OpenIds \cup {Len(positions) + 1} /\ Len(positions) + 1 \notin OpenIds
    BY <2>1, TypeFacts DEF OpenIds
  <2>3. Cardinality(OpenIds') = Cardinality(OpenIds) + 1
    BY <1>1, <2>2, FS_AddElement
  <2> QED BY <1>1, <1>3, <2>3 DEF WithinMaxPositions
<1> QED BY <1>2, <1>3, OnlyEntriesOpen

\* What an entry in flight knows changes when it selects the open rows, and
\* when it passes the check of its symbol and selects the peak.
LEMMA EntryMoves ==
  ASSUME TypeOK, [Next]_vars, NEW c \in Clients
  PROVE  \/ proc'[c] = proc[c]
         \/ proc'[c].pc \notin {"openPeak", "openFill"}
         \/ /\ UNCHANGED positions /\ proc'[c].pc = "openPeak"
            /\ proc'[c].view.rows = OpenRows
         \/ /\ UNCHANGED positions
            /\ proc[c].pc = "openPeak" /\ proc'[c].pc = "openFill"
            /\ proc'[c].symbol = proc[c].symbol
            /\ proc'[c].view.rows = proc[c].view.rows
            /\ ~ \E id \in DOMAIN proc[c].view.rows :
                   proc[c].view.rows[id].symbol = proc[c].symbol
<1> DEFINE Goal ==
         \/ proc'[c] = proc[c]
         \/ proc'[c].pc \notin {"openPeak", "openFill"}
         \/ /\ UNCHANGED positions /\ proc'[c].pc = "openPeak"
            /\ proc'[c].view.rows = OpenRows
         \/ /\ UNCHANGED positions
            /\ proc[c].pc = "openPeak" /\ proc'[c].pc = "openFill"
            /\ proc'[c].symbol = proc[c].symbol
            /\ proc'[c].view.rows = proc[c].view.rows
            /\ ~ \E id \in DOMAIN proc[c].view.rows :
                   proc[c].view.rows[id].symbol = proc[c].symbol
<1> SUFFICES Goal OBVIOUS
<1>0. c \in Procs /\ Monitor \in Procs /\ c # Monitor BY AccountAssumption DEF Procs
<1>1. ASSUME NEW p \in Procs, NEW r, Await(p, r)
      PROVE  proc'[c] = IF c = p THEN r ELSE proc[c]
  BY <1>0, <1>1 DEF Await, TypeOK
<1>2. ASSUME NEW p \in Procs, NEW r, Await(p, r), r.pc \notin {"openPeak", "openFill"}
      PROVE  Goal
  BY <1>1, <1>2
<1>3. ASSUME UNCHANGED proc \/ \E r : Await(Monitor, r) PROVE Goal
  BY <1>0, <1>1, <1>3
<1>4. ASSUME NEW d \in Clients, Opens(d) \/ RequestClose(d) \/ RequestFails(d)
      PROVE  Goal
  <2>0. d \in Procs BY DEF Procs
  <2>1. CASE Reply(d)
    <3>1. Await(d, Idle) /\ Idle.pc = "idle" BY <2>1 DEF Reply, Await, Idle
    <3> HIDE DEF Goal
    <3> QED BY <1>2, <2>0, <3>1
  <2>2. CASE RequestOpen(d)
    <3>1. PICK s \in Symbols, plan \in Plans :
            Await(d, [Idle EXCEPT !.pc = "openRows", !.symbol = s, !.plan = plan,
                                  !.view.trades = Len(trades)])
      BY <2>2 DEF RequestOpen
    <3> DEFINE r == [Idle EXCEPT !.pc = "openRows", !.symbol = s, !.plan = plan,
                                 !.view.trades = Len(trades)]
    <3>2. r.pc = "openRows" BY DEF Idle
    <3>3. PICK next : Await(d, next) /\ next.pc = "openRows" BY <3>1, <3>2
    <3> HIDE DEF Goal
    <3> QED BY <1>2, <2>0, <3>3
  <2>3. CASE RequestClose(d)
    <3>1. PICK s \in Symbols : CloseSelectRow(d, s, NoPrice) BY <2>3 DEF RequestClose
    <3>2. PICK id \in OpenIn(s) :
            Await(d, [Idle EXCEPT !.pc = "closeTrades", !.symbol = s, !.row = id,
                                  !.ref = NoPrice])
      BY <3>1 DEF CloseSelectRow
    <3> DEFINE r == [Idle EXCEPT !.pc = "closeTrades", !.symbol = s, !.row = id,
                                 !.ref = NoPrice]
    <3>3. r.pc = "closeTrades" BY DEF Idle
    <3>4. PICK next : Await(d, next) /\ next.pc = "closeTrades" BY <3>2, <3>3
    <3> HIDE DEF Goal
    <3> QED BY <1>2, <2>0, <3>4
  <2>4. CASE OpenSelectRows(d)
    <3>1. SelectRows(d, "openPeak") /\ UNCHANGED positions
      BY <2>4 DEF OpenSelectRows, ledger
    <3>2. PICK r : Await(d, r) /\ r.pc = "openPeak" /\ r.view.rows = OpenRows
      BY <2>0, <3>1, SelectEffect
    <3> QED BY <1>1, <2>0, <3>1, <3>2
  <2>5. CASE OpenSelectPeak(d) /\ ~Reply(d)
    <3>1. /\ proc[d].pc = "openPeak" /\ SelectPeak(d, "openFill") /\ UNCHANGED positions
          /\ ~ \E id \in DOMAIN proc[d].view.rows :
                 proc[d].view.rows[id].symbol = proc[d].symbol
      BY <2>5 DEF OpenSelectPeak, ledger
    <3>2. PICK r : /\ Await(d, r) /\ r.pc = "openFill" /\ r.symbol = proc[d].symbol
                   /\ r.view.rows = proc[d].view.rows
      BY <2>0, <3>1, SelectEffect DEF SameRequest
    <3>3. proc'[c] = IF c = d THEN r ELSE proc[c] BY <1>1, <2>0, <3>2
    <3> QED BY <3>1, <3>2, <3>3
  <2> HIDE DEF Goal
  <2> QED BY <1>4, <2>1, <2>2, <2>3, <2>4, <2>5
          DEF Opens, OpenFill, OpenRefused, RequestFails
<1>5. ASSUME NEW p \in Procs, Closes(p) PROVE Goal
  <2>1. CASE CloseFill(p) \/ CloseRefused(p)
    <3>1. Await(p, Idle) /\ Idle.pc = "idle"
      BY <2>1 DEF CloseFill, CloseRefused, Reply, Await, Idle
    <3> HIDE DEF Goal
    <3> QED BY <1>2, <3>1
  <2>2. CASE CloseSelectTrades(p) \/ CloseSelectRows(p) \/ CloseSelectPeak(p)
    <3>1. PICK r : Await(p, r) /\ r.pc \in {"closeRows", "closePeak", "closeFill"}
      BY <2>2, SelectEffect DEF CloseSelectTrades, CloseSelectRows, CloseSelectPeak
    <3> HIDE DEF Goal
    <3> QED BY <1>2, <3>1
  <2> QED BY <1>5, <2>1, <2>2 DEF Closes
<1>6. ASSUME NEW id \in DOMAIN tick.rows, Checks(id) PROVE Goal
  <2>1. UNCHANGED proc \/ \E r : Await(Monitor, r)
    BY <1>6 DEF Checks, MonitorTrail, MonitorExit, MonitorAborts, MonitorTickerFails,
                CloseSelectRow
  <2> HIDE DEF Goal
  <2> QED BY <1>3, <2>1
<1>7. CASE MonitorLoad \/ MonitorCommit \/ MonitorSelectTrades \/ MonitorSelectRows
             \/ MonitorMark
  <2>1. UNCHANGED proc \/ \E r : Await(Monitor, r)
    BY <1>7 DEF MonitorLoad, MonitorCommit, MonitorSelectTrades, MonitorSelectRows,
                MonitorMark, SelectTrades, SelectRows, Reply, Await
  <2> HIDE DEF Goal
  <2> QED BY <1>3, <2>1
<1>8. CASE MarketMoves \/ TimePasses \/ EngineStateSet \/ UNCHANGED vars
  BY <1>8 DEF MarketMoves, TimePasses, EngineStateSet, vars
<1>9. CASE Restart BY <1>0, <1>9 DEF Restart, Idle
<1> HIDE DEF Goal
<1> QED BY <1>4, <1>5, <1>6, <1>7, <1>8, <1>9 DEF Next

\* Past the check of an entry, no row it read has its symbol.
EntriesChecked ==
  \A c \in Clients :
    proc[c].pc = "openFill" =>
      \A id \in DOMAIN proc[c].view.rows :
        proc[c].view.rows[id].symbol # proc[c].symbol

LEMMA EntriesCheckedStep ==
  ASSUME TypeOK, EntriesChecked, [Next]_vars
  PROVE  EntriesChecked'
BY EntryMoves DEF EntriesChecked

\* The risk engine approved the entry that commits: no halt, room for one
\* position more than it counted, and no exit within the cooldown.
LEMMA EntryPassed ==
  ASSUME TypeOK, NEW c \in Clients, NEW held \in HeldChoices(proc[c].view.rows),
         Fills(c, held)
  PROVE  LET account == AccountState(proc[c].view, held, EmptyMap)
             exit    == LastExit(proc[c].symbol, proc[c].view.trades)
         IN  /\ CheckAccountHalts(account) = "none"
             /\ Cardinality(held) < MaxSimultaneousPositions
             /\ exit = NoPrice \/ now - exit = NoPrice \/ ~(now - exit < Cooldown)
<1> DEFINE r == proc[c]
           account == AccountState(r.view, held, EmptyMap)
           exit == LastExit(r.symbol, r.view.trades)
           ref  == price[r.symbol]
           request == [symbol |-> r.symbol, entry |-> ref, stop |-> r.plan.stop,
                       filters |-> Filters(r.symbol), spread |-> NoPrice,
                       atr |-> NoPrice, slippage |-> NoPrice,
                       sinceExit |-> IF exit = NoPrice THEN NoPrice ELSE now - exit]
<1>1. c \in Procs BY DEF Procs
<1>2. EntryVerdict(c, held).decision = "APPROVED" BY DEF Fills
<1>3. EntryVerdict(c, held) = Evaluate(request, account, HealthySystem)
  BY DEF EntryVerdict
<1>4. /\ CheckAccountHalts(account) = "none"
      /\ CheckTradeConditions(request, account) = "none"
  <2> HIDE DEF request, account
  <2> QED BY <1>2, <1>3, ApprovedByEveryCheck
<1>5. account.open = Cardinality(held) BY DEF AccountState
<1>6. Cardinality(held) \in Nat /\ MaxSimultaneousPositions \in Nat
  <2>1. held \subseteq DOMAIN positions
    BY <1>1, ViewTyped DEF HeldChoices, ViewOK, OnRows
  <2> QED BY <2>1, TypeFacts, CountType, RiskAssumption
<1>7. /\ ~(request.sinceExit # NoPrice /\ request.sinceExit < Cooldown)
      /\ ~(account.open >= MaxSimultaneousPositions)
  <2> HIDE DEF request, account
  <2> QED BY <1>4 DEF CheckTradeConditions, PositionLimitReached
<1>8. exit = NoPrice \/ now - exit = NoPrice \/ ~(now - exit < Cooldown)
  <2>1. request.sinceExit = IF exit = NoPrice THEN NoPrice ELSE now - exit OBVIOUS
  <2> HIDE DEF request, exit
  <2> QED BY <1>7, <2>1
<1>9. Cardinality(held) < MaxSimultaneousPositions
  <2> HIDE DEF account
  <2> QED BY <1>5, <1>6, <1>7
<1> HIDE DEF account
<1> QED BY <1>4, <1>8, <1>9 DEF account

\* A dictionary of rows of distinct symbols holds them all.
Distinct(rows) ==
  \A i, j \in DOMAIN rows : rows[i].symbol = rows[j].symbol => i = j

LEMMA HeldIsAll ==
  ASSUME NEW rows, Distinct(rows), NEW held \in HeldChoices(rows)
  PROVE  held = DOMAIN rows
<1>1. held \subseteq DOMAIN rows BY DEF HeldChoices
<1>2. ASSUME NEW id \in DOMAIN rows PROVE id \in held
  <2>1. PICK k \in held : {h \in held : rows[h].symbol = rows[id].symbol} = {k}
    BY <1>2 DEF HeldChoices
  <2>2. rows[k].symbol = rows[id].symbol /\ k \in DOMAIN rows BY <1>1, <2>1
  <2> QED BY <1>2, <2>1, <2>2 DEF Distinct
<1> QED BY <1>1, <1>2

\* Two open rows of one symbol are one row, so a symbol has at most one.
LEMMA UniqueIsOne ==
  ASSUME UniqueOpen
  PROVE  OneOpenPerSymbol
<1> SUFFICES ASSUME NEW s \in Symbols PROVE Cardinality(OpenIn(s)) <= 1
  BY DEF OneOpenPerSymbol
<1>1. CASE OpenIn(s) = {} BY <1>1, FS_EmptySet
<1>2. CASE OpenIn(s) # {}
  <2>1. PICK id : id \in OpenIn(s) BY <1>2
  <2>2. OpenIn(s) = {id} BY <2>1 DEF UniqueOpen, OpenIn
  <2>3. Cardinality({id}) = 1 BY FS_Singleton
  <2> QED BY <2>2, <2>3
<1> QED BY <1>1, <1>2

-----------------------------------------------------------------------------
(* What overlapping requests can cost at worst: every request that has read *)
(* the open rows too early may add one row, and no more.                    *)

SymbolsOf(rows) == {rows[id].symbol : id \in DOMAIN rows}

OpenSymbols == SymbolsOf(OpenRows)

\* The entries in flight that have read no open row of the symbol, and those
\* that have read fewer open symbols than the limit.
Unseen(symbol) ==
  {c \in Clients : /\ proc[c].pc \in {"openPeak", "openFill"}
                   /\ proc[c].symbol = symbol
                   /\ symbol \notin SymbolsOf(proc[c].view.rows)}

Roomy ==
  {c \in Clients : /\ proc[c].pc \in {"openPeak", "openFill"}
                   /\ Cardinality(SymbolsOf(proc[c].view.rows)) < MaxSimultaneousPositions}

RowsBound ==
  \A s \in Symbols :
    Cardinality(OpenIn(s)) + Cardinality(Unseen(s)) <= Cardinality(Clients)

SymbolsBound ==
  Cardinality(OpenSymbols) + Cardinality(Roomy)
    <= MaxSimultaneousPositions - 1 + Cardinality(Clients)

\* There are no more symbols than rows.
LEMMA FewerSymbols ==
  ASSUME NEW rows, NEW held, held \subseteq DOMAIN rows, IsFiniteSet(held),
         \A id \in DOMAIN rows : \E k \in held : rows[k].symbol = rows[id].symbol
  PROVE  /\ IsFiniteSet(SymbolsOf(rows)) /\ Cardinality(SymbolsOf(rows)) \in Nat
         /\ Cardinality(SymbolsOf(rows)) <= Cardinality(held)
<1> DEFINE f == [id \in held |-> rows[id].symbol]
<1>1. f \in Surjection(held, SymbolsOf(rows))
  <2>1. \A id \in held : f[id] \in SymbolsOf(rows) BY DEF SymbolsOf
  <2>2. \A s \in SymbolsOf(rows) : \E id \in held : f[id] = s BY DEF SymbolsOf
  <2> QED BY <2>1, <2>2 DEF Surjection
<1> HIDE DEF f
<1> QED BY <1>1, FS_Surjection, FS_CardinalityType

LEMMA OpenSymbolsType ==
  ASSUME TypeOK
  PROVE  /\ IsFiniteSet(OpenSymbols) /\ Cardinality(OpenSymbols) \in Nat
         /\ OpenSymbols = {positions[id].symbol : id \in OpenIds}
<1>1. DOMAIN OpenRows = OpenIds /\ \A id \in OpenIds : OpenRows[id] = positions[id]
  BY DEF OpenRows
<1>2. IsFiniteSet(OpenIds) BY OpenCountType
<1> HIDE DEF OpenRows
<1>3. IsFiniteSet(OpenSymbols) /\ Cardinality(OpenSymbols) \in Nat
  BY <1>1, <1>2, FewerSymbols DEF OpenSymbols
<1> QED BY <1>1, <1>3 DEF OpenSymbols, SymbolsOf

LEMMA OpenInType ==
  ASSUME TypeOK, NEW s
  PROVE  IsFiniteSet(OpenIn(s)) /\ Cardinality(OpenIn(s)) \in Nat
<1>1. OpenIn(s) \subseteq DOMAIN positions BY DEF OpenIn, OpenIds
<1> QED BY <1>1, TypeFacts, CountType

\* Some of the clients.
LEMMA SomeClients ==
  ASSUME IsFiniteSet(Clients), NEW S, S \subseteq Clients
  PROVE  /\ IsFiniteSet(S) /\ Cardinality(S) \in Nat /\ Cardinality(Clients) \in Nat
         /\ Cardinality(S) <= Cardinality(Clients)
BY FS_Subset, FS_CardinalityType

\* A symbol of which a row is open, or the limit once it is reached, is seen by
\* whoever reads the rows.
LEMMA ReadersSee ==
  ASSUME TypeOK, [Next]_vars
  PROVE  /\ \A s : OpenIn(s) # {} => Unseen(s)' \subseteq Unseen(s)
         /\ ~(Cardinality(OpenSymbols) < MaxSimultaneousPositions)
              => Roomy' \subseteq Roomy
<1>1. ASSUME NEW s, OpenIn(s) # {}, NEW c \in Unseen(s)' PROVE c \in Unseen(s)
  <2>1. /\ c \in Clients /\ proc'[c].pc \in {"openPeak", "openFill"}
        /\ proc'[c].symbol = s /\ s \notin SymbolsOf(proc'[c].view.rows)
    BY DEF Unseen, SymbolsOf
  <2>2. s \in OpenSymbols
    BY <1>1 DEF OpenSymbols, SymbolsOf, OpenRows, OpenIn
  <2>3. proc'[c].view.rows # OpenRows BY <2>1, <2>2 DEF OpenSymbols
  <2>4. \/ proc'[c] = proc[c]
        \/ /\ proc[c].pc = "openPeak" /\ proc'[c].symbol = proc[c].symbol
           /\ proc'[c].view.rows = proc[c].view.rows
    BY <2>1, <2>3, EntryMoves
  <2> QED BY <2>1, <2>4 DEF Unseen, SymbolsOf
<1>2. ASSUME ~(Cardinality(OpenSymbols) < MaxSimultaneousPositions), NEW c \in Roomy'
      PROVE  c \in Roomy
  <2>1. /\ c \in Clients /\ proc'[c].pc \in {"openPeak", "openFill"}
        /\ Cardinality(SymbolsOf(proc'[c].view.rows)) < MaxSimultaneousPositions
    BY DEF Roomy, SymbolsOf
  <2>2. proc'[c].view.rows # OpenRows BY <1>2, <2>1 DEF OpenSymbols
  <2>3. \/ proc'[c] = proc[c]
        \/ proc[c].pc = "openPeak" /\ proc'[c].view.rows = proc[c].view.rows
    BY <2>1, <2>2, EntryMoves
  <2> QED BY <2>1, <2>3 DEF Roomy, SymbolsOf
<1> QED BY <1>1, <1>2

\* The entry that commits had seen neither its symbol nor the limit, and is
\* in flight no more.
LEMMA EntryUsesItsPlace ==
  ASSUME TypeOK, EntriesChecked, [Next]_vars, IsFiniteSet(Clients),
         NEW d \in Clients, OpenFill(d)
  PROVE  LET symbol == proc[d].symbol
         IN  /\ \A s : OpenIn(s)' = IF s = symbol THEN OpenIn(s) \cup {Len(positions) + 1}
                                    ELSE OpenIn(s)
             /\ Len(positions) + 1 \notin OpenIds
             /\ d \in Unseen(symbol)
             /\ OpenSymbols' = OpenSymbols \cup {symbol}
             /\ d \in Roomy
             /\ \A s : Unseen(s)' \subseteq Unseen(s) \ {d}
             /\ Roomy' \subseteq Roomy \ {d}
<1> DEFINE symbol == proc[d].symbol
           rows == proc[d].view.rows
           n == Len(positions)
<1>1. PICK held \in HeldChoices(rows), row \in RowType :
        /\ Fills(d, held) /\ row.status = "OPEN" /\ row.symbol = symbol
        /\ positions' = Append(positions, row)
  BY OpenFillEffect
<1>2. /\ DOMAIN positions = 1..n /\ n \in Nat /\ DOMAIN positions' = 1..(n + 1)
      /\ positions'[n + 1] = row /\ \A id \in 1..n : positions'[id] = positions[id]
      /\ n + 1 \notin 1..n /\ OpenIds \subseteq 1..n
  BY <1>1, TypeFacts DEF OpenIds
<1>3. d \in Procs /\ proc[d].pc = "openFill" /\ Reply(d) BY DEF OpenFill, Procs
<1>4. proc'[d] = Idle /\ \A c \in Clients \ {d} : proc'[c] = proc[c]
  BY <1>3 DEF Reply, TypeOK, Procs
<1>5. OpenIds' = OpenIds \cup {n + 1} BY <1>1, <1>2 DEF OpenIds
<1>6. \A s : OpenIn(s)' = IF s = symbol THEN OpenIn(s) \cup {n + 1} ELSE OpenIn(s)
  BY <1>1, <1>2, <1>5 DEF OpenIn
<1>7. OpenSymbols' = OpenSymbols \cup {symbol}
  <2>1. /\ OpenSymbols = {positions[id].symbol : id \in OpenIds}
        /\ OpenSymbols' = {positions'[id].symbol : id \in OpenIds'}
    BY DEF OpenSymbols, SymbolsOf, OpenRows
  <2> QED BY <1>1, <1>2, <1>5, <2>1
<1>8. symbol \notin SymbolsOf(rows) BY <1>3 DEF EntriesChecked, SymbolsOf
<1>9. Cardinality(SymbolsOf(rows)) < MaxSimultaneousPositions
  <2>1. Cardinality(held) < MaxSimultaneousPositions BY <1>1, EntryPassed
  <2>2. held \subseteq DOMAIN rows
        /\ \A id \in DOMAIN rows : \E k \in held : rows[k].symbol = rows[id].symbol
    <3>1. ASSUME NEW id \in DOMAIN rows
          PROVE  \E k \in held : rows[k].symbol = rows[id].symbol
      <4>1. PICK k \in held : {h \in held : rows[h].symbol = rows[id].symbol} = {k}
        BY <1>1 DEF HeldChoices
      <4> QED BY <4>1
    <3> QED BY <1>1, <3>1 DEF HeldChoices
  <2>3. IsFiniteSet(held) /\ Cardinality(held) \in Nat
    <3>1. held \subseteq DOMAIN positions
      BY <1>3, <2>2, ViewTyped DEF ViewOK, OnRows
    <3> QED BY <3>1, TypeFacts, CountType
  <2> HIDE DEF rows
  <2>4. Cardinality(SymbolsOf(rows)) \in Nat
        /\ Cardinality(SymbolsOf(rows)) <= Cardinality(held)
    BY <2>2, <2>3, FewerSymbols
  <2> QED BY <2>1, <2>3, <2>4, RiskAssumption
<1>10. d \in Unseen(symbol) /\ d \in Roomy BY <1>3, <1>8, <1>9 DEF Unseen, Roomy
<1>11. ASSUME NEW s PROVE Unseen(s)' \subseteq Unseen(s) \ {d}
  BY <1>4 DEF Unseen, SymbolsOf, Idle
<1>12. ASSUME NEW c \in Roomy' PROVE c \in Roomy \ {d}
  <2>1. /\ c \in Clients /\ proc'[c].pc \in {"openPeak", "openFill"}
        /\ Cardinality(SymbolsOf(proc'[c].view.rows)) < MaxSimultaneousPositions
    BY DEF Roomy, SymbolsOf
  <2>2. c # d BY <1>4, <2>1 DEF Idle
  <2>3. proc'[c] = proc[c] BY <1>4, <2>1, <2>2
  <2> QED BY <2>1, <2>2, <2>3 DEF Roomy
<1> HIDE DEF symbol, rows, n
<1> QED BY <1>2, <1>6, <1>7, <1>10, <1>11, <1>12 DEF symbol, n

LEMMA RowsBoundStep ==
  ASSUME TypeOK, TypeOK', EntriesChecked, IsFiniteSet(Clients), RowsBound, [Next]_vars
  PROVE  RowsBound'
<1> SUFFICES ASSUME NEW s \in Symbols
             PROVE  Cardinality(OpenIn(s)') + Cardinality(Unseen(s)') <= Cardinality(Clients)
  BY DEF RowsBound
<1>1. /\ Unseen(s) \subseteq Clients /\ Unseen(s)' \subseteq Clients BY DEF Unseen
<1>2. /\ IsFiniteSet(Unseen(s)) /\ Cardinality(Unseen(s)) \in Nat
      /\ IsFiniteSet(Unseen(s)') /\ Cardinality(Unseen(s)') \in Nat
      /\ Cardinality(Unseen(s)') <= Cardinality(Clients) /\ Cardinality(Clients) \in Nat
  BY <1>1, SomeClients
<1>3. IsFiniteSet(OpenIn(s)) /\ Cardinality(OpenIn(s)) \in Nat BY OpenInType
<1>4. Cardinality(OpenIn(s)) + Cardinality(Unseen(s)) <= Cardinality(Clients)
  BY DEF RowsBound
<1>5. CASE OpensNoRow
  <2>1. OpenIn(s)' \subseteq OpenIn(s)
    BY <1>5, OpensNoRowEffect DEF OpenIn
  <2>2. Cardinality(OpenIn(s)') <= Cardinality(OpenIn(s)) /\ Cardinality(OpenIn(s)') \in Nat
    BY <1>3, <2>1, FS_Subset, FS_CardinalityType
  <2>3. CASE OpenIn(s) = {}
    <3>1. Cardinality(OpenIn(s)) = 0 BY <2>3, FS_EmptySet
    <3> QED BY <1>2, <2>2, <3>1
  <2>4. CASE OpenIn(s) # {}
    <3>1. Unseen(s)' \subseteq Unseen(s) BY <2>4, ReadersSee
    <3>2. Cardinality(Unseen(s)') <= Cardinality(Unseen(s)) BY <1>2, <3>1, FS_Subset
    <3> QED BY <1>2, <1>3, <1>4, <2>2, <3>2
  <2> QED BY <2>3, <2>4
<1>6. ASSUME NEW d \in Clients, OpenFill(d)
      PROVE  Cardinality(OpenIn(s)') + Cardinality(Unseen(s)') <= Cardinality(Clients)
  <2>1. CASE s # proc[d].symbol
    <3>1. OpenIn(s)' = OpenIn(s) /\ Unseen(s)' \subseteq Unseen(s)
      BY <1>6, <2>1, EntryUsesItsPlace
    <3>2. Cardinality(Unseen(s)') <= Cardinality(Unseen(s)) BY <1>2, <3>1, FS_Subset
    <3> QED BY <1>2, <1>3, <1>4, <3>1, <3>2
  <2>2. CASE s = proc[d].symbol
    <3>1. /\ OpenIn(s)' = OpenIn(s) \cup {Len(positions) + 1}
          /\ Len(positions) + 1 \notin OpenIn(s)
          /\ d \in Unseen(s) /\ Unseen(s)' \subseteq Unseen(s) \ {d}
      <4>1. /\ OpenIn(s)' = OpenIn(s) \cup {Len(positions) + 1}
            /\ Len(positions) + 1 \notin OpenIds
            /\ d \in Unseen(proc[d].symbol)
            /\ Unseen(s)' \subseteq Unseen(s) \ {d}
        BY <1>6, <2>2, EntryUsesItsPlace
      <4>2. d \in Unseen(s) BY <2>2, <4>1
      <4>3. OpenIn(s) \subseteq OpenIds BY DEF OpenIn
      <4> QED BY <4>1, <4>2, <4>3
    <3>2. Cardinality(OpenIn(s)') = Cardinality(OpenIn(s)) + 1
      BY <1>3, <3>1, FS_AddElement
    <3>3. Cardinality(Unseen(s) \ {d}) = Cardinality(Unseen(s)) - 1
          /\ IsFiniteSet(Unseen(s) \ {d})
      BY <1>2, <3>1, FS_RemoveElement
    <3>4. Cardinality(Unseen(s)') <= Cardinality(Unseen(s)) - 1
      BY <3>1, <3>3, FS_Subset
    <3> QED BY <1>2, <1>3, <1>4, <3>2, <3>4
  <2> QED BY <2>1, <2>2
<1> QED BY <1>5, <1>6, OnlyEntriesOpen

LEMMA SymbolsBoundStep ==
  ASSUME TypeOK, TypeOK', EntriesChecked, IsFiniteSet(Clients), SymbolsBound, [Next]_vars
  PROVE  SymbolsBound'
<1>1. Roomy \subseteq Clients /\ Roomy' \subseteq Clients BY DEF Roomy
<1>2. /\ IsFiniteSet(Roomy) /\ Cardinality(Roomy) \in Nat
      /\ IsFiniteSet(Roomy') /\ Cardinality(Roomy') \in Nat
      /\ Cardinality(Roomy') <= Cardinality(Clients) /\ Cardinality(Clients) \in Nat
  BY <1>1, SomeClients
<1>3. IsFiniteSet(OpenSymbols) /\ Cardinality(OpenSymbols) \in Nat BY OpenSymbolsType
<1>4. MaxSimultaneousPositions \in Nat \ {0} BY RiskAssumption
<1>5. CASE OpensNoRow
  <2>1. OpenSymbols' \subseteq OpenSymbols
    BY <1>5, OpensNoRowEffect DEF OpenSymbols, SymbolsOf, OpenRows
  <2>2. Cardinality(OpenSymbols') <= Cardinality(OpenSymbols)
        /\ Cardinality(OpenSymbols') \in Nat
    BY <1>3, <2>1, FS_Subset, FS_CardinalityType
  <2>3. CASE Cardinality(OpenSymbols) < MaxSimultaneousPositions
    BY <1>2, <1>3, <1>4, <2>2, <2>3 DEF SymbolsBound
  <2>4. CASE ~(Cardinality(OpenSymbols) < MaxSimultaneousPositions)
    <3>1. Roomy' \subseteq Roomy BY <2>4, ReadersSee
    <3>2. Cardinality(Roomy') <= Cardinality(Roomy) BY <1>2, <3>1, FS_Subset
    <3> QED BY <1>2, <1>3, <1>4, <2>2, <3>2 DEF SymbolsBound
  <2> QED BY <2>3, <2>4
<1>6. ASSUME NEW d \in Clients, OpenFill(d) PROVE SymbolsBound'
  <2>1. /\ OpenSymbols' = OpenSymbols \cup {proc[d].symbol}
        /\ d \in Roomy /\ Roomy' \subseteq Roomy \ {d}
    BY <1>6, EntryUsesItsPlace
  <2>2. Cardinality(OpenSymbols') <= Cardinality(OpenSymbols) + 1
        /\ Cardinality(OpenSymbols') \in Nat
    <3>1. /\ IsFiniteSet(OpenSymbols \cup {proc[d].symbol})
          /\ Cardinality(OpenSymbols \cup {proc[d].symbol})
               = IF proc[d].symbol \in OpenSymbols THEN Cardinality(OpenSymbols)
                 ELSE Cardinality(OpenSymbols) + 1
      BY <1>3, FS_AddElement
    <3> QED BY <1>3, <2>1, <3>1
  <2>3. Cardinality(Roomy \ {d}) = Cardinality(Roomy) - 1 /\ IsFiniteSet(Roomy \ {d})
    BY <1>2, <2>1, FS_RemoveElement
  <2>4. Cardinality(Roomy') <= Cardinality(Roomy) - 1 BY <2>1, <2>3, FS_Subset
  <2> QED BY <1>2, <1>3, <1>4, <2>2, <2>4 DEF SymbolsBound
<1> QED BY <1>5, <1>6, OnlyEntriesOpen

OverlapInv == TypeOK /\ EntriesChecked /\ RowsBound /\ SymbolsBound

LEMMA OverlapInit ==
  ASSUME IsFiniteSet(Clients)
  PROVE  Init => OverlapInv
<1> SUFFICES ASSUME Init PROVE OverlapInv OBVIOUS
<1>1. \A c \in Clients : proc[c].pc = "idle" BY DEF Init, Procs, Idle
<1>2. OpenIds = {} BY DEF Init, OpenIds
<1>3. EntriesChecked BY <1>1 DEF EntriesChecked
<1>4. Cardinality(Clients) \in Nat /\ Cardinality({}) = 0
  BY FS_EmptySet, FS_CardinalityType
<1>5. RowsBound
  <2>1. \A s : OpenIn(s) = {} /\ Unseen(s) = {} BY <1>1, <1>2 DEF OpenIn, Unseen
  <2> QED BY <1>4, <2>1 DEF RowsBound
<1>6. SymbolsBound
  <2>1. OpenSymbols = {} /\ Roomy = {}
    BY <1>1, <1>2 DEF OpenSymbols, SymbolsOf, OpenRows, Roomy
  <2> QED BY <1>4, <2>1, RiskAssumption DEF SymbolsBound
<1> QED BY <1>3, <1>5, <1>6, TypeInit DEF OverlapInv

LEMMA OverlapStep ==
  ASSUME IsFiniteSet(Clients)
  PROVE  OverlapInv /\ [Next]_vars => OverlapInv'
<1> SUFFICES ASSUME OverlapInv, [Next]_vars PROVE OverlapInv' OBVIOUS
<1>1. TypeOK /\ TypeOK' /\ EntriesChecked' BY TypeNext, EntriesCheckedStep DEF OverlapInv
<1> QED BY <1>1, RowsBoundStep, SymbolsBoundStep DEF OverlapInv

\* However requests overlap, a symbol has at most as many open rows as there
\* are requests that can be in flight together: only those that read the rows
\* before the first of them committed can add one.
RowsPerSymbol == \A s \in Symbols : Cardinality(OpenIn(s)) <= Cardinality(Clients)

\* Of every behaviour of the code as it is, whatever the number of clients.
THEOREM OverlapBoundsRows ==
  ASSUME IsFiniteSet(Clients)
  PROVE  Spec => []RowsPerSymbol
<1>1. OverlapInv => RowsPerSymbol
  <2> SUFFICES ASSUME OverlapInv, NEW s \in Symbols
               PROVE  Cardinality(OpenIn(s)) <= Cardinality(Clients)
    BY DEF RowsPerSymbol
  <2>1. Unseen(s) \subseteq Clients BY DEF Unseen
  <2>2. Cardinality(OpenIn(s)) \in Nat /\ Cardinality(Unseen(s)) \in Nat
        /\ Cardinality(Clients) \in Nat
    BY <2>1, SomeClients, OpenInType DEF OverlapInv
  <2> QED BY <2>2 DEF OverlapInv, RowsBound
<1> QED BY <1>1, OverlapInit, OverlapStep, PTL DEF Spec

\* However requests overlap, max_simultaneous_positions is exceeded by at most
\* one symbol for each request but one that can be in flight together.
SymbolsWithinMax ==
  Cardinality(OpenSymbols) <= MaxSimultaneousPositions - 1 + Cardinality(Clients)

\* Of every behaviour of the code as it is: with one client the bound is the
\* limit itself.
THEOREM OverlapBoundsSymbols ==
  ASSUME IsFiniteSet(Clients)
  PROVE  Spec => []SymbolsWithinMax
<1>1. OverlapInv => SymbolsWithinMax
  <2> SUFFICES ASSUME OverlapInv PROVE SymbolsWithinMax OBVIOUS
  <2>1. Roomy \subseteq Clients BY DEF Roomy
  <2>2. Cardinality(OpenSymbols) \in Nat /\ Cardinality(Roomy) \in Nat
        /\ Cardinality(Clients) \in Nat /\ MaxSimultaneousPositions \in Nat
    BY <2>1, SomeClients, OpenSymbolsType, RiskAssumption DEF OverlapInv
  <2> QED BY <2>2 DEF OverlapInv, SymbolsBound, SymbolsWithinMax
<1> QED BY <1>1, OverlapInit, OverlapStep, PTL DEF Spec

-----------------------------------------------------------------------------
(* What overlapping closes can cost at worst: every handler that found the  *)
(* row open may sell it, once, and no more.                                 *)

ClosePcs == {"closeTrades", "closeRows", "closePeak", "closeFill"}

\* The handlers that are about to sell the row.
Closing(id) == {p \in Procs : proc[p].pc \in ClosePcs /\ proc[p].row = id}

\* A handler in flight to close a row was so before, or finds the row open.
LEMMA CloseMoves ==
  ASSUME TypeOK, [Next]_vars, NEW c \in Procs, proc'[c].pc \in ClosePcs
  PROVE  /\ proc'[c].row \in OpenIds \/ c \in Closing(proc'[c].row)
         /\ proc'[c] = proc[c] \/ UNCHANGED <<positions, trades>>
<1> DEFINE Goal == /\ proc'[c].row \in OpenIds \/ c \in Closing(proc'[c].row)
                   /\ proc'[c] = proc[c] \/ UNCHANGED <<positions, trades>>
<1> SUFFICES Goal OBVIOUS
<1>0. Monitor \in Procs BY DEF Procs
<1>1. ASSUME NEW p \in Procs, NEW r, Await(p, r)
      PROVE  proc'[c] = IF c = p THEN r ELSE proc[c]
  BY <1>1 DEF Await, TypeOK
<1>2. CASE proc'[c] = proc[c] BY <1>2 DEF Closing
<1>3. ASSUME NEW p \in Procs, NEW r, Await(p, r), r.pc \notin ClosePcs PROVE Goal
  <2>1. c # p BY <1>1, <1>3
  <2> HIDE DEF Goal
  <2> QED BY <1>1, <1>2, <1>3, <2>1
<1>4. ASSUME NEW p \in Procs, Reply(p) PROVE Goal
  <2>1. Await(p, Idle) /\ Idle.pc \notin ClosePcs
    BY <1>4 DEF Reply, Await, Idle, ClosePcs
  <2> HIDE DEF Goal
  <2> QED BY <1>3, <2>1
<1>5. ASSUME NEW p \in Procs, NEW s, NEW ref, CloseSelectRow(p, s, ref),
             UNCHANGED <<positions, trades>>
      PROVE  Goal
  <2>1. PICK id \in OpenIn(s) :
          Await(p, [Idle EXCEPT !.pc = "closeTrades", !.symbol = s, !.row = id, !.ref = ref])
    BY <1>5 DEF CloseSelectRow
  <2> DEFINE r == [Idle EXCEPT !.pc = "closeTrades", !.symbol = s, !.row = id, !.ref = ref]
  <2>2. r.row = id BY DEF Idle
  <2>3. PICK next : Await(p, next) /\ next.row = id BY <2>1, <2>2
  <2>4. id \in OpenIds BY DEF OpenIn
  <2> HIDE DEF r
  <2>5. CASE c = p BY <1>1, <1>5, <2>3, <2>4, <2>5
  <2>6. CASE c # p
    <3>1. proc'[c] = proc[c] BY <1>1, <2>3, <2>6
    <3> HIDE DEF Goal
    <3> QED BY <1>2, <3>1
  <2> QED BY <2>5, <2>6
<1>6. ASSUME NEW d \in Clients, Opens(d) \/ RequestClose(d) \/ RequestFails(d)
      PROVE  Goal
  <2>0. d \in Procs BY DEF Procs
  <2>1. CASE Reply(d) BY <1>4, <2>0, <2>1
  <2>2. CASE RequestOpen(d)
    <3>1. PICK s \in Symbols, plan \in Plans :
            Await(d, [Idle EXCEPT !.pc = "openRows", !.symbol = s, !.plan = plan,
                                  !.view.trades = Len(trades)])
      BY <2>2 DEF RequestOpen
    <3> DEFINE r == [Idle EXCEPT !.pc = "openRows", !.symbol = s, !.plan = plan,
                                 !.view.trades = Len(trades)]
    <3>2. r.pc \notin ClosePcs BY DEF Idle, ClosePcs
    <3>3. PICK next : Await(d, next) /\ next.pc \notin ClosePcs BY <3>1, <3>2
    <3> HIDE DEF Goal
    <3> QED BY <1>3, <2>0, <3>3
  <2>3. CASE RequestClose(d)
    <3>1. \E s \in Symbols : CloseSelectRow(d, s, NoPrice) BY <2>3 DEF RequestClose
    <3>2. UNCHANGED <<positions, trades>> BY <2>3 DEF RequestClose, ledger
    <3> HIDE DEF Goal
    <3> QED BY <1>5, <2>0, <3>1, <3>2
  <2>4. CASE OpenSelectRows(d) \/ (OpenSelectPeak(d) /\ ~Reply(d))
    <3>1. SelectRows(d, "openPeak") \/ SelectPeak(d, "openFill")
      BY <2>4 DEF OpenSelectRows, OpenSelectPeak
    <3>2. PICK r : Await(d, r) /\ r.pc \in {"openPeak", "openFill"}
      BY <2>0, <3>1, SelectEffect
    <3>3. r.pc \notin ClosePcs BY <3>2 DEF ClosePcs
    <3> HIDE DEF Goal
    <3> QED BY <1>3, <2>0, <3>2, <3>3
  <2> HIDE DEF Goal
  <2> QED BY <1>6, <2>1, <2>2, <2>3, <2>4 DEF Opens, OpenFill, OpenRefused, RequestFails
<1>7. ASSUME NEW p \in Procs, Closes(p) PROVE Goal
  <2>1. CASE CloseFill(p) \/ CloseRefused(p)
    <3>1. Reply(p) BY <2>1 DEF CloseFill, CloseRefused
    <3> HIDE DEF Goal
    <3> QED BY <1>4, <3>1
  <2>2. CASE CloseSelectTrades(p) \/ CloseSelectRows(p) \/ CloseSelectPeak(p)
    <3>1. /\ proc[p].pc \in ClosePcs
          /\ \/ SelectTrades(p, "closeRows") \/ SelectRows(p, "closePeak")
             \/ SelectPeak(p, "closeFill")
          /\ UNCHANGED <<positions, trades>>
      BY <2>2 DEF CloseSelectTrades, CloseSelectRows, CloseSelectPeak, ClosePcs, ledger
    <3>2. PICK r : Await(p, r) /\ r.row = proc[p].row
      BY <3>1, SelectEffect DEF SameRequest
    <3>3. CASE c = p BY <1>1, <3>1, <3>2, <3>3 DEF Closing
    <3>4. CASE c # p
      <4>1. proc'[c] = proc[c] BY <1>1, <3>2, <3>4
      <4> HIDE DEF Goal
      <4> QED BY <1>2, <4>1
    <3> QED BY <3>3, <3>4
  <2> HIDE DEF Goal
  <2> QED BY <1>7, <2>1, <2>2 DEF Closes
<1>8. ASSUME NEW id \in DOMAIN tick.rows, Checks(id) PROVE Goal
  <2>1. \/ UNCHANGED proc
        \/ /\ \E s, ref : CloseSelectRow(Monitor, s, ref)
           /\ UNCHANGED <<positions, trades>>
    BY <1>8 DEF Checks, MonitorTrail, MonitorExit, MonitorAborts, MonitorTickerFails,
                ledger
  <2>2. CASE UNCHANGED proc
    <3> HIDE DEF Goal
    <3> QED BY <1>2, <2>2
  <2> HIDE DEF Goal
  <2> QED BY <1>0, <1>5, <2>1, <2>2
<1>9. CASE MonitorLoad \/ MonitorCommit \/ MonitorMark
  <2>1. UNCHANGED proc \/ Reply(Monitor)
    BY <1>9 DEF MonitorLoad, MonitorCommit, MonitorMark
  <2>2. CASE UNCHANGED proc
    <3> HIDE DEF Goal
    <3> QED BY <1>2, <2>2
  <2> HIDE DEF Goal
  <2> QED BY <1>0, <1>4, <2>1, <2>2
<1>10. CASE MonitorSelectTrades \/ MonitorSelectRows
  <2>1. SelectTrades(Monitor, "markRows") \/ SelectRows(Monitor, "markPeak")
    BY <1>10 DEF MonitorSelectTrades, MonitorSelectRows
  <2>2. PICK r : Await(Monitor, r) /\ r.pc \in {"markRows", "markPeak"}
    BY <1>0, <2>1, SelectEffect
  <2>3. r.pc \notin ClosePcs BY <2>2 DEF ClosePcs
  <2> HIDE DEF Goal
  <2> QED BY <1>0, <1>3, <2>2, <2>3
<1>11. CASE MarketMoves \/ TimePasses \/ EngineStateSet \/ UNCHANGED vars
  <2>1. UNCHANGED proc BY <1>11 DEF MarketMoves, TimePasses, EngineStateSet, vars
  <2> HIDE DEF Goal
  <2> QED BY <1>2, <2>1
<1>12. CASE Restart
  <2>1. proc'[c].pc \notin ClosePcs BY <1>12 DEF Restart, Idle, ClosePcs
  <2> QED BY <2>1
<1> HIDE DEF Goal
<1> QED BY <1>6, <1>7, <1>8, <1>9, <1>10, <1>11, <1>12 DEF Next

\* Nobody sets out to sell a row that is closed.
LEMMA NobodyJoins ==
  ASSUME TypeOK, [Next]_vars, NEW id, id \notin OpenIds
  PROVE  Closing(id)' \subseteq Closing(id)
<1> SUFFICES ASSUME NEW c \in Closing(id)' PROVE c \in Closing(id) OBVIOUS
<1>1. c \in Procs /\ proc'[c].pc \in ClosePcs /\ proc'[c].row = id
  BY DEF Closing, ClosePcs, Procs
<1> QED BY <1>1, CloseMoves

\* What a close does to the rows, to their trades and to those about to sell them.
LEMMA CloseCounts ==
  ASSUME TypeOK, [Next]_vars, NEW p \in Procs, CloseFill(p)
  PROVE  \E n \in DOMAIN positions :
           /\ n = proc[p].row
           /\ p \in Closing(n) /\ p \notin Closing(n)'
           /\ DOMAIN positions' = DOMAIN positions /\ OpenIds' = OpenIds \ {n}
           /\ TradesOf(n)' = TradesOf(n) \cup {Len(trades) + 1}
           /\ Len(trades) + 1 \notin TradesOf(n)
           /\ \A id : id # n => TradesOf(id)' = TradesOf(id)
<1>0. PICK n \in DOMAIN positions : n = proc[p].row BY CloseFillEffect
<1>1. proc[p].pc = "closeFill" /\ Reply(p) BY DEF CloseFill
<1>2. proc'[p].pc = "idle" BY <1>1 DEF Reply, TypeOK, Idle
<1>3. p \in Closing(n) /\ p \notin Closing(n)'
  BY <1>0, <1>1, <1>2 DEF Closing, ClosePcs
<1>4. PICK trade \in TradeType :
        /\ trade.position = n /\ positions' = ClosedRow(p, trade)
        /\ trades' = Append(trades, trade)
  BY <1>0, CloseFillEffect
<1>5. trade.fees \in Int BY DEF TradeType
<1>6. /\ DOMAIN positions' = DOMAIN positions
      /\ \A id \in DOMAIN positions :
           positions'[id].status = IF id = n THEN "CLOSED" ELSE positions[id].status
  BY <1>0, <1>4, <1>5, ClosedRowRows
<1>7. OpenIds' = OpenIds \ {n} BY <1>6 DEF OpenIds
<1> DEFINE m == Len(trades)
<1>8. /\ m \in Nat /\ DOMAIN trades = 1..m /\ DOMAIN trades' = 1..(m + 1)
      /\ trades'[m + 1] = trade /\ \A i \in 1..m : trades'[i] = trades[i]
  BY <1>4, TypeFacts
<1> HIDE DEF m
<1>9. /\ TradesOf(n)' = TradesOf(n) \cup {m + 1} /\ m + 1 \notin TradesOf(n)
      /\ \A id : id # n => TradesOf(id)' = TradesOf(id)
  BY <1>4, <1>8 DEF TradesOf
<1> QED BY <1>0, <1>3, <1>6, <1>7, <1>9 DEF m

LEMMA TradesOfType ==
  ASSUME TypeOK, NEW id
  PROVE  IsFiniteSet(TradesOf(id)) /\ Cardinality(TradesOf(id)) \in Nat
<1>1. TradesOf(id) \subseteq 1..Len(trades) /\ Len(trades) \in Nat
  BY TypeFacts DEF TradesOf
<1>2. IsFiniteSet(1..Len(trades)) BY <1>1, FS_Interval
<1> QED BY <1>1, <1>2, FS_Subset, FS_CardinalityType

\* Some of the handlers.
LEMMA SomeHandlers ==
  ASSUME IsFiniteSet(Clients), NEW S, S \subseteq Procs
  PROVE  /\ IsFiniteSet(S) /\ Cardinality(S) \in Nat
         /\ Cardinality(Procs) = Cardinality(Clients) + 1
         /\ Cardinality(Clients) \in Nat
         /\ Cardinality(S) <= Cardinality(Procs)
<1>1. Procs = Clients \cup {Monitor} /\ Monitor \notin Clients
  BY AccountAssumption DEF Procs
<1>2. IsFiniteSet(Procs) /\ Cardinality(Procs) = Cardinality(Clients) + 1
  BY <1>1, FS_AddElement
<1> QED BY <1>2, FS_Subset, FS_CardinalityType

\* The trades of a closed row, with those that may still come.
SalesBound ==
  \A id \in DOMAIN positions :
    id \notin OpenIds =>
      Cardinality(TradesOf(id)) + Cardinality(Closing(id)) <= Cardinality(Procs)

LEMMA SalesBoundStep ==
  ASSUME IsFiniteSet(Clients), TypeOK, TypeOK', ClosedIffTraded, SalesBound, [Next]_vars
  PROVE  SalesBound'
<1> SUFFICES ASSUME NEW id \in DOMAIN positions', id \notin OpenIds'
             PROVE  Cardinality(TradesOf(id)') + Cardinality(Closing(id)')
                      <= Cardinality(Procs)
  BY DEF SalesBound, Procs
<1>1. Closing(id) \subseteq Procs /\ Closing(id)' \subseteq Procs BY DEF Closing, Procs
<1>2. /\ IsFiniteSet(Closing(id)) /\ Cardinality(Closing(id)) \in Nat
      /\ Cardinality(Closing(id)') \in Nat
      /\ Cardinality(Procs) \in Nat
  BY <1>1, SomeHandlers
<1>3. IsFiniteSet(TradesOf(id)) /\ Cardinality(TradesOf(id)) \in Nat BY TradesOfType
<1>4. ASSUME id \in DOMAIN positions, id \notin OpenIds, TradesOf(id)' = TradesOf(id)
      PROVE  Cardinality(TradesOf(id)') + Cardinality(Closing(id)') <= Cardinality(Procs)
  <2>1. Cardinality(Closing(id)') <= Cardinality(Closing(id))
    BY <1>2, <1>4, NobodyJoins, FS_Subset
  <2>2. Cardinality(TradesOf(id)) + Cardinality(Closing(id)) <= Cardinality(Procs)
    BY <1>4 DEF SalesBound
  <2> QED BY <1>2, <1>3, <1>4, <2>1, <2>2
<1>5. CASE UNCHANGED <<positions, trades>>
  BY <1>4, <1>5 DEF OpenIds, TradesOf
<1>6. ASSUME NEW row, row.status = "OPEN", positions' = Append(positions, row),
             UNCHANGED trades
      PROVE  Cardinality(TradesOf(id)') + Cardinality(Closing(id)') <= Cardinality(Procs)
  <2>1. id \in DOMAIN positions /\ id \notin OpenIds BY <1>6, TypeFacts DEF OpenIds
  <2> QED BY <1>4, <1>6, <2>1 DEF TradesOf
<1>7. CASE positions' = Flushed(Monitor) /\ UNCHANGED trades
  <2>1. id \in DOMAIN positions /\ id \notin OpenIds BY <1>7, FlushedRows DEF OpenIds
  <2> QED BY <1>4, <1>7, <2>1 DEF TradesOf
<1>8. ASSUME NEW p \in Procs, CloseFill(p)
      PROVE  Cardinality(TradesOf(id)') + Cardinality(Closing(id)') <= Cardinality(Procs)
  <2>0. PICK n \in DOMAIN positions :
          /\ p \in Closing(n) /\ p \notin Closing(n)'
          /\ DOMAIN positions' = DOMAIN positions /\ OpenIds' = OpenIds \ {n}
          /\ TradesOf(n)' = TradesOf(n) \cup {Len(trades) + 1}
          /\ Len(trades) + 1 \notin TradesOf(n)
          /\ \A k : k # n => TradesOf(k)' = TradesOf(k)
    BY <1>8, CloseCounts
  <2>1. CASE id # n
    <3>1. id \in DOMAIN positions /\ id \notin OpenIds /\ TradesOf(id)' = TradesOf(id)
      BY <2>0, <2>1
    <3> QED BY <1>4, <3>1
  <2>2. CASE id = n
    <3>1. /\ id \in DOMAIN positions
          /\ p \in Closing(id) /\ p \notin Closing(id)'
          /\ TradesOf(id)' = TradesOf(id) \cup {Len(trades) + 1}
          /\ Len(trades) + 1 \notin TradesOf(id)
      BY <2>0, <2>2
    <3>2. Cardinality(TradesOf(id)') = Cardinality(TradesOf(id)) + 1
      BY <1>3, <3>1, FS_AddElement
    <3>3. CASE id \in OpenIds
      <4>1. TradesOf(id) = {} BY <3>1, <3>3 DEF ClosedIffTraded, OpenIds
      <4>2. Cardinality(TradesOf(id)) = 0 BY <4>1, FS_EmptySet
      <4>3. Closing(id)' \subseteq Procs \ {p} BY <1>1, <3>1
      <4>4. IsFiniteSet(Procs) BY SomeHandlers
      <4>5. /\ IsFiniteSet(Procs \ {p})
            /\ Cardinality(Procs \ {p}) = Cardinality(Procs) - 1
        BY <4>4, FS_RemoveElement
      <4>6. Cardinality(Closing(id)') <= Cardinality(Procs) - 1
        BY <4>3, <4>5, FS_Subset
      <4> QED BY <1>2, <3>2, <4>2, <4>6
    <3>4. CASE id \notin OpenIds
      <4>1. Closing(id)' \subseteq Closing(id) \ {p} BY <3>1, <3>4, NobodyJoins
      <4>2. /\ IsFiniteSet(Closing(id) \ {p})
            /\ Cardinality(Closing(id) \ {p}) = Cardinality(Closing(id)) - 1
        BY <1>2, <3>1, FS_RemoveElement
      <4>3. Cardinality(Closing(id)') <= Cardinality(Closing(id)) - 1
        BY <4>1, <4>2, FS_Subset
      <4>4. Cardinality(TradesOf(id)) + Cardinality(Closing(id)) <= Cardinality(Procs)
        BY <3>1, <3>4 DEF SalesBound
      <4> QED BY <1>2, <1>3, <3>2, <4>3, <4>4
    <3> QED BY <3>3, <3>4
  <2> QED BY <2>1, <2>2
<1> QED BY <1>5, <1>6, <1>7, <1>8, TableSteps

\* However closes overlap, a row has at most as many trades as there are
\* handlers that can be in flight together: only one that found the row open,
\* before the first of them committed, can sell it again.
SalesPerRow ==
  \A id \in DOMAIN positions : Cardinality(TradesOf(id)) <= Cardinality(Clients) + 1

\* Of every behaviour of the code as it is: the requests, and the monitor.
THEOREM OverlapBoundsSales ==
  ASSUME IsFiniteSet(Clients)
  PROVE  Spec => []SalesPerRow
<1>1. Init => SalesBound BY DEF Init, SalesBound
<1>2. TypeOK /\ TypeOK' /\ ClosedIffTraded /\ SalesBound /\ [Next]_vars => SalesBound'
  BY SalesBoundStep
<1>3. TypeOK /\ ClosedIffTraded /\ SalesBound => SalesPerRow
  <2> SUFFICES ASSUME TypeOK, ClosedIffTraded, SalesBound, NEW id \in DOMAIN positions
               PROVE  Cardinality(TradesOf(id)) <= Cardinality(Clients) + 1
    BY DEF SalesPerRow
  <2>1. Cardinality(TradesOf(id)) \in Nat BY TradesOfType
  <2>2. Closing(id) \subseteq Procs BY DEF Closing
  <2>3. /\ Cardinality(Closing(id)) \in Nat /\ Cardinality(Clients) \in Nat
        /\ Cardinality(Procs) = Cardinality(Clients) + 1
    BY <2>2, SomeHandlers
  <2>4. CASE id \in OpenIds
    <3>1. TradesOf(id) = {} BY <2>4 DEF ClosedIffTraded, OpenIds
    <3>2. Cardinality(TradesOf(id)) = 0 BY <3>1, FS_EmptySet
    <3> QED BY <2>3, <3>2
  <2>5. CASE id \notin OpenIds BY <2>1, <2>3, <2>5 DEF SalesBound
  <2> QED BY <2>4, <2>5
<1> QED BY <1>1, <1>2, <1>3, TypeCorrect, ClosedRowsHaveTrades, PTL DEF Spec

\* At most one handler at a time is about to sell a row.
OneSeller == \A p, q \in Procs :
  proc[p].pc \in ClosePcs /\ proc[q].pc \in ClosePcs /\ proc[p].row = proc[q].row => p = q

\* The row a handler is about to sell is open.
SellersFindOpen == \A p \in Procs : proc[p].pc \in ClosePcs => proc[p].row \in OpenIds

LEMMA SellersFindOpenStep ==
  ASSUME TypeOK, OneSeller, SellersFindOpen, [Next]_vars
  PROVE  SellersFindOpen'
<1> SUFFICES ASSUME NEW c \in Procs, proc'[c].pc \in ClosePcs
             PROVE  proc'[c].row \in OpenIds'
  BY DEF SellersFindOpen, Procs, ClosePcs
<1> DEFINE id == proc'[c].row
<1>1. id \in OpenIds BY CloseMoves DEF SellersFindOpen, Closing
<1>2. CASE UNCHANGED <<positions, trades>> BY <1>1, <1>2 DEF OpenIds
<1>3. ASSUME NEW row, positions' = Append(positions, row) PROVE id \in OpenIds'
  BY <1>1, <1>3, TypeFacts DEF OpenIds
<1>4. CASE positions' = Flushed(Monitor) BY <1>1, <1>4, FlushedRows DEF OpenIds
<1>5. ASSUME NEW p \in Procs, CloseFill(p) PROVE id \in OpenIds'
  <2>1. proc[p].pc = "closeFill" /\ proc'[p].pc = "idle"
    BY <1>5 DEF CloseFill, Reply, TypeOK, Idle
  <2>2. c # p BY <2>1 DEF ClosePcs
  <2>3. trades' # trades
    <3>1. PICK trade : trades' = Append(trades, trade) BY <1>5, CloseFillEffect
    <3> DEFINE m == Len(trades)
    <3>2. m \in Nat /\ DOMAIN trades = 1..m /\ DOMAIN trades' = 1..(m + 1)
      BY <3>1, TypeFacts
    <3>3. 1..m # 1..(m + 1)
      <4> HIDE DEF m
      <4> QED BY <3>2
    <3> QED BY <3>2, <3>3
  <2>4. proc'[c] = proc[c] BY <2>3, CloseMoves
  <2>5. id # proc[p].row BY <2>1, <2>2, <2>4 DEF OneSeller, ClosePcs
  <2> QED BY <1>1, <1>5, <2>5, CloseCounts
<1> QED BY <1>2, <1>3, <1>4, <1>5, TableSteps

SoldOnce == \A id \in DOMAIN positions : \A i, j \in TradesOf(id) : i = j

\* No two trades are of one row.
OneTradePerRow ==
  \A i, j \in DOMAIN trades : trades[i].position = trades[j].position => i = j

\* As long as no two closes of one row overlap, a row is sold once: that it is
\* open (account.py:341) still holds at the commit, whatever entries, checks of
\* other rows and restarts come in between.
THEOREM OneSellerSellsOnce == Spec /\ []OneSeller => []OneTradePerRow
<1> DEFINE I == SellersFindOpen /\ SoldOnce
<1>1. Init => I
  BY DEF Init, SellersFindOpen, SoldOnce, Idle, ClosePcs
<1>2. TypeOK /\ ClosedIffTraded /\ OneSeller /\ I /\ [Next]_vars => I'
  <2> SUFFICES ASSUME TypeOK, ClosedIffTraded, OneSeller, I, [Next]_vars
               PROVE  SoldOnce'
    BY SellersFindOpenStep
  <2>1. CASE UNCHANGED <<positions, trades>> BY <2>1 DEF SoldOnce, TradesOf
  <2>2. ASSUME NEW row, positions' = Append(positions, row), UNCHANGED trades
        PROVE  SoldOnce'
    <3>1. ASSUME NEW id \in DOMAIN positions' PROVE \A i, j \in TradesOf(id)' : i = j
      <4>1. TradesOf(id)' = TradesOf(id) BY <2>2 DEF TradesOf
      <4>2. CASE id \in DOMAIN positions BY <4>1, <4>2 DEF SoldOnce
      <4>3. CASE id \notin DOMAIN positions
        BY <4>1, <4>3 DEF TradesOf, TypeOK
      <4> QED BY <4>2, <4>3
    <3> QED BY <3>1 DEF SoldOnce, TradesOf
  <2>3. CASE positions' = Flushed(Monitor) /\ UNCHANGED trades
    BY <2>3, FlushedRows DEF SoldOnce, TradesOf
  <2>4. ASSUME NEW p \in Procs, CloseFill(p) PROVE SoldOnce'
    <3>0. PICK n \in DOMAIN positions :
            /\ n = proc[p].row /\ DOMAIN positions' = DOMAIN positions
            /\ TradesOf(n)' = TradesOf(n) \cup {Len(trades) + 1}
            /\ \A id : id # n => TradesOf(id)' = TradesOf(id)
      BY <2>4, CloseCounts
    <3>1. n \in OpenIds
      BY <2>4, <3>0 DEF SellersFindOpen, CloseFill, ClosePcs
    <3>2. TradesOf(n) = {} BY <3>1 DEF ClosedIffTraded, OpenIds
    <3>3. ASSUME NEW id \in DOMAIN positions, NEW i \in TradesOf(id)', NEW j \in TradesOf(id)'
          PROVE  i = j
      <4>1. CASE id # n
        <5>1. TradesOf(id)' = TradesOf(id) BY <3>0, <4>1
        <5> QED BY <3>3, <5>1 DEF SoldOnce
      <4>2. CASE id = n BY <3>0, <3>2, <3>3, <4>2
      <4> QED BY <4>1, <4>2
    <3> QED BY <3>0, <3>3 DEF SoldOnce, TradesOf
  <2> QED BY <2>1, <2>2, <2>3, <2>4, TableSteps
<1>3. TypeOK /\ I => OneTradePerRow
  BY DEF TypeOK, SoldOnce, TradesOf, OneTradePerRow
<1> QED BY <1>1, <1>2, <1>3, TypeCorrect, ClosedRowsHaveTrades, PTL DEF Spec

-----------------------------------------------------------------------------
(* What the checks of open_paper_trade are good for as long as no two      *)
(* entries are in flight together, whatever else is.                       *)

\* At most one entry at a time has read the open rows and not yet committed.
OneEntry ==
  \A c, d \in Clients :
    proc[c].pc \in {"openPeak", "openFill"} /\ proc[d].pc \in {"openPeak", "openFill"}
      => c = d

\* An entry that has read the open rows knows them all, although the monitor
\* may have closed some since.
KnowsRows(r) ==
  r.pc \in {"openPeak", "openFill"} =>
    /\ \A id \in OpenIds : /\ id \in DOMAIN r.view.rows
                           /\ r.view.rows[id].symbol = positions[id].symbol
    /\ Distinct(r.view.rows)

EntriesKnowRows == \A c \in Clients : KnowsRows(proc[c])

LEMMA EntriesKnowRowsStep ==
  ASSUME TypeOK, OneEntry, UniqueOpen, EntriesKnowRows, [Next]_vars
  PROVE  EntriesKnowRows'
<1> SUFFICES ASSUME NEW c \in Clients, proc'[c].pc \in {"openPeak", "openFill"}
             PROVE  /\ \A id \in OpenIds' :
                         /\ id \in DOMAIN proc'[c].view.rows
                         /\ proc'[c].view.rows[id].symbol = positions'[id].symbol
                    /\ Distinct(proc'[c].view.rows)
  BY DEF EntriesKnowRows, KnowsRows, Distinct
<1>1. KnowsRows(proc[c]) BY DEF EntriesKnowRows
<1>2. CASE UNCHANGED positions /\ proc'[c].view.rows = OpenRows
  <2>1. OpenIds' = OpenIds BY <1>2 DEF OpenIds
  <2>2. DOMAIN OpenRows = OpenIds /\ \A id \in OpenIds : OpenRows[id] = positions[id]
    BY DEF OpenRows
  <2>3. Distinct(OpenRows) BY <2>2 DEF UniqueOpen, Distinct
  <2> QED BY <1>2, <2>1, <2>2, <2>3
<1>3. CASE /\ UNCHANGED positions /\ proc[c].pc = "openPeak"
           /\ proc'[c].view.rows = proc[c].view.rows
  <2>1. OpenIds' = OpenIds BY <1>3 DEF OpenIds
  <2> QED BY <1>1, <1>3, <2>1 DEF KnowsRows
<1>4. CASE proc'[c] = proc[c] /\ OpensNoRow
  BY <1>1, <1>4, OpensNoRowEffect DEF KnowsRows
<1>5. CASE proc'[c] = proc[c] /\ \E d \in Clients : OpenFill(d)
  <2>1. PICK d \in Clients : OpenFill(d) BY <1>5
  <2>2. c = d BY <1>5, <2>1 DEF OneEntry, OpenFill
  <2>3. proc'[c] = Idle BY <2>1, <2>2 DEF OpenFill, Reply, TypeOK, Procs
  <2> QED BY <2>3 DEF Idle
<1> QED BY <1>2, <1>3, <1>4, <1>5, EntryMoves, OnlyEntriesOpen

\* An entry commits only when its symbol is not open and there is room.
LEMMA EntryHasRoom ==
  ASSUME TypeOK, EntriesChecked, EntriesKnowRows, NEW c \in Clients, OpenFill(c)
  PROVE  /\ OpenIn(proc[c].symbol) = {}
         /\ Cardinality(OpenIds) < MaxSimultaneousPositions
<1> DEFINE rows == proc[c].view.rows
<1>1. /\ proc[c].pc = "openFill" /\ c \in Procs
      /\ \A id \in OpenIds : id \in DOMAIN rows /\ rows[id].symbol = positions[id].symbol
      /\ Distinct(rows)
  BY DEF OpenFill, EntriesKnowRows, KnowsRows, Procs
<1>2. OpenIn(proc[c].symbol) = {} BY <1>1 DEF EntriesChecked, OpenIn
<1>3. PICK held \in HeldChoices(rows) : Fills(c, held) BY OpenFillEffect
<1>4. held = DOMAIN rows BY <1>1, <1>3, HeldIsAll
<1>5. Cardinality(held) < MaxSimultaneousPositions BY <1>3, EntryPassed
<1>6. Cardinality(OpenIds) <= Cardinality(held) /\ Cardinality(held) \in Nat
  <2>1. held \subseteq DOMAIN positions
    BY <1>1, <1>4, ViewTyped DEF ViewOK, OnRows
  <2>2. IsFiniteSet(held) /\ Cardinality(held) \in Nat BY <2>1, TypeFacts, CountType
  <2>3. OpenIds \subseteq held BY <1>1, <1>4
  <2> QED BY <2>2, <2>3, FS_Subset
<1>7. Cardinality(OpenIds) \in Nat /\ MaxSimultaneousPositions \in Nat
  BY OpenCountType, RiskAssumption
<1> QED BY <1>2, <1>5, <1>6, <1>7

\* The inductive invariant.
OneEntryInv ==
  /\ TypeOK /\ UniqueOpen /\ EntriesChecked /\ EntriesKnowRows /\ WithinMaxPositions

LEMMA OneEntryInit == Init => OneEntryInv
<1> SUFFICES ASSUME Init PROVE OneEntryInv OBVIOUS
<1>1. OpenIds = {} BY DEF Init, OpenIds
<1>2. \A c \in Clients : proc[c] = Idle BY DEF Init, Procs
<1>3. WithinMaxPositions BY <1>1, FS_EmptySet, RiskAssumption DEF WithinMaxPositions
<1> QED BY <1>1, <1>2, <1>3, TypeInit
        DEF OneEntryInv, UniqueOpen, EntriesChecked, EntriesKnowRows, KnowsRows, Idle

LEMMA OneEntryStep == OneEntryInv /\ OneEntry /\ [Next]_vars => OneEntryInv'
<1> SUFFICES ASSUME OneEntryInv, OneEntry, [Next]_vars PROVE OneEntryInv' OBVIOUS
<1>1. /\ TypeOK /\ UniqueOpen /\ EntriesChecked /\ EntriesKnowRows
      /\ WithinMaxPositions
  BY DEF OneEntryInv
<1>2. TypeOK' /\ EntriesChecked' BY <1>1, TypeNext, EntriesCheckedStep
<1>3. UniqueOpen' /\ WithinMaxPositions'
  BY <1>1, EntryHasRoom, UniqueKept, MaxKept
<1>4. EntriesKnowRows' BY <1>1, EntriesKnowRowsStep
<1> QED BY <1>2, <1>3, <1>4 DEF OneEntryInv

\* As long as no two entries overlap (closes, the monitor and restarts may come
\* at any moment), no symbol ever has two open rows: whatever is closed between
\* the reads of an entry and its commit, the entry's check holds.
THEOREM OneEntryOneRow == Spec /\ []OneEntry => []OneOpenPerSymbol
<1>1. OneEntryInv => OneOpenPerSymbol BY UniqueIsOne DEF OneEntryInv
<1> QED BY <1>1, OneEntryInit, OneEntryStep, PTL DEF Spec

\* Nor are there ever more open rows than max_simultaneous_positions: the rows
\* an entry counted are at least those that are open when it commits.
THEOREM OneEntryWithinMax == Spec /\ []OneEntry => []WithinMaxPositions
<1>1. OneEntryInv => WithinMaxPositions BY DEF OneEntryInv
<1> QED BY <1>1, OneEntryInit, OneEntryStep, PTL DEF Spec

-----------------------------------------------------------------------------
(* The balance: what the tables add up to.                                 *)

\* The cost of each row that is open.
CostIfOpen == [id \in DOMAIN positions |->
                 IF id \in OpenIds THEN Cost(positions[id]) ELSE 0]

Nets == [i \in DOMAIN trades |-> trades[i].net]

CashSums ==
  /\ OpenCost(OpenRows) = SumTo(CostIfOpen, Len(positions))
  /\ CostIfOpen \in [1..Len(positions) -> Int]
  /\ Realised(Len(trades)) = SumTo(Nets, Len(trades))
  /\ Nets \in [1..Len(trades) -> Int]

LEMMA OpenCostSum == TypeOK => CashSums
<1> SUFFICES ASSUME TypeOK PROVE CashSums OBVIOUS
<1> DEFINE amount == [id \in DOMAIN OpenRows |-> Cost(OpenRows[id])]
<1>1. DOMAIN amount = OpenIds /\ \A id \in OpenIds : amount[id] = Cost(positions[id])
  BY DEF OpenRows
<1>2. [id \in DOMAIN positions |-> IF id \in DOMAIN amount THEN amount[id] ELSE 0]
        = CostIfOpen
  <2> HIDE DEF amount
  <2> QED BY <1>1 DEF CostIfOpen
<1>3. OpenCost(OpenRows) = SumTo(CostIfOpen, Len(positions))
  BY <1>2 DEF OpenCost, SumRows
<1>4. \A id \in DOMAIN positions : Cost(positions[id]) \in Int BY TypeFacts, CostType
<1>5. CostIfOpen \in [1..Len(positions) -> Int] BY <1>4, TypeFacts DEF CostIfOpen
<1>6. Realised(Len(trades)) = SumTo(Nets, Len(trades)) BY DEF Realised, Nets
<1>7. Nets \in [1..Len(trades) -> Int]
  <2>1. \A i \in DOMAIN trades : trades[i] \in TradeType BY TypeFacts
  <2>2. \A i \in DOMAIN trades : trades[i].net \in Int BY <2>1 DEF TradeType
  <2> QED BY <2>2, TypeFacts DEF Nets
<1> QED BY <1>3, <1>5, <1>6, <1>7 DEF CashSums

\* The cash of the ledger, from its tables.
Cash == InitialBalance + Realised(Len(trades)) - OpenCost(OpenRows)

Balanced == snapshot.balance = Cash

LEMMA CashType ==
  ASSUME TypeOK
  PROVE  Cash \in Int
<1>1. Realised(Len(trades)) \in Int BY TypeFacts, RealisedType
<1>2. OpenCost(OpenRows) \in Int BY TypeFacts, OpenCostType
<1> QED BY <1>1, <1>2, AccountAssumption DEF Cash

\* A row more costs its cost.
LEMMA CashAfterEntry ==
  ASSUME TypeOK, TypeOK', NEW row \in RowType, row.status = "OPEN",
         positions' = Append(positions, row), UNCHANGED trades
  PROVE  Cash' = Cash - Cost(row)
<1> DEFINE n == Len(positions)
           f == CostIfOpen
           g == CostIfOpen'
<1>0. CashSums /\ CashSums' BY OpenCostSum, PTL
<1>1. /\ n \in Nat /\ Len(positions') = n + 1
      /\ DOMAIN positions = 1..n /\ DOMAIN positions' = 1..(n + 1)
      /\ positions'[n + 1] = row
      /\ \A id \in 1..n : positions'[id] = positions[id]
  BY TypeFacts
<1>2. f \in [1..n -> Int] /\ g \in [1..(n + 1) -> Int]
  BY <1>0, <1>1 DEF CashSums
<1>3. OpenIds' = OpenIds \cup {n + 1} BY <1>1 DEF OpenIds
<1>4. g[n + 1] = Cost(row)
  BY <1>1, <1>3 DEF CostIfOpen, Cost
<1>5. \A id \in 1..n : g[id] = f[id]
  BY <1>1, <1>3 DEF CostIfOpen, Cost
<1>6. SumTo(g, n + 1) = SumTo(g, n) + g[n + 1]
  <2>1. n + 1 \in Nat /\ n + 1 \in 1..(n + 1) /\ (n + 1) - 1 = n BY <1>1
  <2> HIDE DEF g, f, n
  <2> QED BY <1>2, <2>1, SumToStep
<1>7. SumTo(g, n) = SumTo(f, n)
  <2>1. n + 1 \in Nat /\ n <= n + 1 /\ n <= n BY <1>1
  <2> HIDE DEF g, f, n
  <2> QED BY <1>1, <1>2, <1>5, <2>1, SumToCongruence
<1>8. OpenCost(OpenRows)' = SumTo(g, n + 1) /\ OpenCost(OpenRows) = SumTo(f, n)
  BY <1>0, <1>1 DEF CashSums
<1>9. OpenCost(OpenRows)' = OpenCost(OpenRows) + Cost(row)
  BY <1>4, <1>6, <1>7, <1>8
<1>10. Realised(Len(trades))' = Realised(Len(trades)) BY DEF Realised
<1>11. Realised(Len(trades)) \in Int /\ OpenCost(OpenRows) \in Int /\ Cost(row) \in Int
       /\ InitialBalance \in Int
  BY TypeFacts, RealisedType, OpenCostType, CostType, AccountAssumption
<1> QED BY <1>9, <1>10, <1>11 DEF Cash

\* A row that closes gives its cost back, and the net result of its trade.
LEMMA CashAfterExit ==
  ASSUME TypeOK, TypeOK', NEW n \in OpenIds, NEW trade \in TradeType,
         DOMAIN positions' = DOMAIN positions, positions'[n].status = "CLOSED",
         \A id \in DOMAIN positions \ {n} :
           /\ positions'[id].status = positions[id].status
           /\ SameEntry(positions'[id], positions[id])
           /\ positions'[id].fees = positions[id].fees,
         trades' = Append(trades, trade)
  PROVE  Cash' = Cash + Cost(positions[n]) + trade.net
<1> DEFINE k == Len(positions)
           f == CostIfOpen
           g == CostIfOpen'
           m == Len(trades)
           a == Nets
           b == Nets'
<1>0. CashSums /\ CashSums' BY OpenCostSum, PTL
<1>1. k \in Nat /\ DOMAIN positions = 1..k /\ Len(positions') = k /\ n \in 1..k
  <2>1. positions' \in Seq(RowType) BY DEF TypeOK
  <2> QED BY <2>1, TypeFacts DEF OpenIds
<1>2. f \in [1..k -> Int] /\ g \in [1..k -> Int]
  BY <1>0, <1>1 DEF CashSums
<1>3. OpenIds' = OpenIds \ {n} BY <1>1 DEF OpenIds
<1>4. f[n] = Cost(positions[n]) /\ g[n] = 0 BY <1>1, <1>3 DEF CostIfOpen
<1>5. \A id \in 1..k : id # n => g[id] = f[id]
  BY <1>1, <1>3 DEF CostIfOpen, Cost, SameEntry
<1>6. SumTo(g, k) = SumTo(f, k) + g[n] - f[n]
  <2> HIDE DEF f, g, k
  <2> QED BY <1>1, <1>2, <1>5, SumToUpdate
<1>7. OpenCost(OpenRows)' = SumTo(g, k) /\ OpenCost(OpenRows) = SumTo(f, k)
  BY <1>0, <1>1 DEF CashSums
<1>8. /\ m \in Nat /\ Len(trades') = m + 1 /\ DOMAIN trades = 1..m
      /\ DOMAIN trades' = 1..(m + 1) /\ trades'[m + 1] = trade
      /\ \A i \in 1..m : trades'[i] = trades[i]
  BY TypeFacts
<1>9. a \in [1..m -> Int] /\ b \in [1..(m + 1) -> Int]
  BY <1>0, <1>8 DEF CashSums
<1>10. b[m + 1] = trade.net /\ \A i \in 1..m : b[i] = a[i] BY <1>8 DEF Nets
<1>11. SumTo(b, m + 1) = SumTo(a, m) + trade.net
  <2>1. m + 1 \in Nat /\ m + 1 \in 1..(m + 1) /\ (m + 1) - 1 = m /\ m <= m + 1 /\ m <= m
    BY <1>8
  <2> HIDE DEF a, b, m
  <2>2. SumTo(b, m + 1) = SumTo(b, m) + b[m + 1] BY <1>9, <2>1, SumToStep
  <2>3. SumTo(b, m) = SumTo(a, m) BY <1>8, <1>9, <1>10, <2>1, SumToCongruence
  <2> QED BY <1>10, <2>2, <2>3
<1>12. Realised(Len(trades))' = SumTo(b, m + 1) /\ Realised(Len(trades)) = SumTo(a, m)
  BY <1>0, <1>8 DEF CashSums
<1>13. /\ Realised(Len(trades)) \in Int /\ OpenCost(OpenRows) \in Int
       /\ Cost(positions[n]) \in Int /\ trade.net \in Int /\ InitialBalance \in Int
  <2>1. trade.net \in Int BY DEF TradeType
  <2>2. positions[n] \in RowType BY <1>1, TypeFacts
  <2> QED BY <2>1, <2>2, TypeFacts, RealisedType, OpenCostType, CostType,
             AccountAssumption
<1>14. OpenCost(OpenRows)' = OpenCost(OpenRows) - Cost(positions[n])
  <2> HIDE DEF f, g, k
  <2> QED BY <1>4, <1>6, <1>7, <1>13
<1>15. Realised(Len(trades))' = Realised(Len(trades)) + trade.net
  <2> HIDE DEF a, b, m
  <2> QED BY <1>11, <1>12
<1> QED BY <1>13, <1>14, <1>15 DEF Cash

\* Steps that leave what the rows cost.
LEMMA CashKept ==
  ASSUME TypeOK, UNCHANGED trades,
         DOMAIN positions' = DOMAIN positions, Len(positions') = Len(positions),
         \A id \in DOMAIN positions :
           /\ positions'[id].status = positions[id].status
           /\ SameEntry(positions'[id], positions[id])
           /\ positions'[id].fees = positions[id].fees
  PROVE  Cash' = Cash
<1>1. OpenIds' = OpenIds BY DEF OpenIds
<1> DEFINE amount == [id \in OpenIds |-> Cost(positions[id])]
<1>2. [id \in DOMAIN OpenRows |-> Cost(OpenRows[id])] = amount BY DEF OpenRows
<1>3. [id \in DOMAIN OpenRows |-> Cost(OpenRows[id])]' = amount
  <2>1. \A id \in OpenIds : Cost(positions'[id]) = Cost(positions[id])
    BY DEF Cost, SameEntry, OpenIds
  <2> QED BY <1>1, <2>1 DEF OpenRows, Cost
<1> HIDE DEF amount
<1>4. SumRows(amount)' = SumRows(amount)
  <2>1. amount' = amount BY <1>1 DEF amount, OpenIds, Cost, SameEntry
  <2> QED BY <2>1 DEF SumRows
<1>5. OpenCost(OpenRows) = SumRows(amount) BY <1>2 DEF OpenCost
<1>6. OpenCost(OpenRows)' = SumRows(amount)'
  <2>1. amount' = amount BY <1>1 DEF amount, OpenIds, Cost, SameEntry
  <2> QED BY <1>3, <2>1 DEF OpenCost
<1>7. Realised(Len(trades))' = Realised(Len(trades)) BY DEF Realised
<1> QED BY <1>4, <1>5, <1>6, <1>7 DEF Cash

-----------------------------------------------------------------------------
(* The commits, when what they rest on still holds (ValidatedSpec).         *)

\* The balance never goes below zero.
NeverInDebt == snapshot.balance >= 0

\* The inductive invariant of ValidatedSpec.
AccountInv ==
  /\ TypeOK
  /\ UniqueOpen /\ EntriesChecked
  /\ ClosedIffTraded /\ OneTradePerRow
  /\ Balanced /\ NeverInDebt
  /\ WithinMaxPositions

\* The dictionary of positions holds every open row.
LEMMA HeldIsOpen ==
  ASSUME UniqueOpen, NEW held \in HeldChoices(OpenRows)
  PROVE  held = OpenIds
<1>1. DOMAIN OpenRows = OpenIds /\ \A id \in OpenIds : OpenRows[id] = positions[id]
  BY DEF OpenRows
<1>2. Distinct(OpenRows) BY <1>1 DEF UniqueOpen, Distinct
<1> QED BY <1>1, <1>2, HeldIsAll

\* Whoever commits to the ledger has read what it still shows.
LEMMA ValidatedCommit ==
  ASSUME TypeOK, [ValidatedNext]_vars
  PROVE  /\ \A c \in Clients : OpenFill(c) => Current(proc[c])
         /\ \A p \in Procs : CloseFill(p) => Current(proc[p])
         /\ MonitorMark => Current(proc[Monitor]) \/ UNCHANGED ledger
<1>1. UNCHANGED ledger \/ ValidatedStep BY DEF vars, ValidatedNext
<1>2. ASSUME NEW p \in Procs, proc[p].pc # "idle", Reply(p), ~UNCHANGED ledger
      PROVE  Current(proc[p])
  <2>1. proc'[p] = Idle BY <1>2 DEF Reply, TypeOK
  <2>2. proc'[p] # proc[p] BY <1>2, <2>1 DEF Idle
  <2> QED BY <1>1, <1>2, <2>2 DEF ValidatedStep
<1>3. ASSUME NEW c \in Clients, OpenFill(c) PROVE Current(proc[c])
  <2>1. c \in Procs /\ proc[c].pc # "idle" /\ Reply(c) BY <1>3 DEF OpenFill, Procs
  <2>2. ~UNCHANGED ledger
    <3>1. PICK row \in RowType : positions' = Append(positions, row)
      BY <1>3, OpenFillEffect
    <3>2. Len(positions') = Len(positions) + 1 /\ Len(positions) \in Nat
      BY <3>1, TypeFacts
    <3> QED BY <3>2 DEF ledger
  <2> QED BY <1>2, <2>1, <2>2
<1>4. ASSUME NEW p \in Procs, CloseFill(p) PROVE Current(proc[p])
  <2>1. proc[p].pc # "idle" /\ Reply(p) BY <1>4 DEF CloseFill
  <2>2. ~UNCHANGED ledger
    <3>1. PICK trade \in TradeType : trades' = Append(trades, trade)
      BY <1>4, CloseFillEffect
    <3>2. Len(trades') = Len(trades) + 1 /\ Len(trades) \in Nat BY <3>1, TypeFacts
    <3> QED BY <3>2 DEF ledger
  <2> QED BY <1>2, <2>1, <2>2
<1>5. MonitorMark => Current(proc[Monitor]) \/ UNCHANGED ledger
  BY <1>2 DEF MonitorMark, Procs
<1> QED BY <1>3, <1>4, <1>5

\* A handler about to commit computes the balance of the last snapshot.
LEMMA BalanceIsCash ==
  ASSUME AccountInv, NEW p \in Procs, Current(proc[p]),
         proc[p].pc \in {"openFill", "closeFill", "markPeak"}
  PROVE  /\ proc[p].view.trades = Len(trades)
         /\ proc[p].view.rows = OpenRows
         /\ Portfolio(proc[p].view).balance = snapshot.balance
<1>1. proc[p].view.trades = Len(trades) /\ proc[p].view.rows = OpenRows
  BY DEF Current
<1> QED BY <1>1 DEF Portfolio, AccountInv, Balanced, Cash

LEMMA EntryCost ==
  ASSUME NEW row, row.quantity \in Nat \ {0}, row.entry \in Nat \ {0}, row.fees \in Nat
  PROVE  Cost(row) \in Nat \ {0}
<1>1. \A a, b \in Nat \ {0} : a * b \in Nat \ {0} OBVIOUS
<1>2. row.quantity * row.entry * D \in Nat \ {0} BY <1>1, FillsAssumption
<1> QED BY <1>2 DEF Cost

\* The entry's commit: paid from the balance, and its row the first of its symbol.
LEMMA CurrentEntry ==
  ASSUME AccountInv, NEW c \in Clients, OpenFill(c), Current(proc[c])
  PROVE  \E row \in RowType :
           /\ row.status = "OPEN" /\ row.symbol = proc[c].symbol
           /\ OpenIn(proc[c].symbol) = {}
           /\ OpenIds \in HeldChoices(proc[c].view.rows) /\ Fills(c, OpenIds)
           /\ Cost(row) \in Nat \ {0} /\ Cost(row) <= snapshot.balance
           /\ Len(positions) < MaxPositions
           /\ positions' = Append(positions, row)
           /\ UNCHANGED trades
           /\ snapshot'.balance = snapshot.balance - Cost(row)
<1>1. proc[c].pc = "openFill" /\ c \in Procs /\ UNCHANGED trades
  BY DEF OpenFill, Procs
<1>2. PICK held \in HeldChoices(proc[c].view.rows), row \in RowType :
        /\ Fills(c, held)
        /\ row = NewRow(c, EntryFill(c, EntryVerdict(c, held)))
        /\ row.status = "OPEN" /\ row.symbol = proc[c].symbol
        /\ row.quantity \in Nat \ {0} /\ row.entry \in Nat \ {0}
        /\ row.fees \in Nat
        /\ Len(positions) < MaxPositions
        /\ positions' = Append(positions, row)
        /\ RecordSnapshot(Portfolio(proc[c].view).balance - Cost(row),
                          Value(proc[c].view.rows, held, EmptyMap)
                            + row.quantity * price[proc[c].symbol] * Unit,
                          Cardinality(held) + 1)
  BY OpenFillEffect DEF AccountInv
<1>3. held = OpenIds BY <1>1, <1>2, BalanceIsCash, HeldIsOpen DEF AccountInv
<1>4. Portfolio(proc[c].view).balance = snapshot.balance BY <1>1, BalanceIsCash
<1>5. Cost(row) \in Nat \ {0} BY <1>2, EntryCost
<1>6. Cost(row) <= snapshot.balance
  <2>1. Cost(NewRow(c, EntryFill(c, EntryVerdict(c, held))))
          <= Portfolio(proc[c].view).balance
    BY <1>2 DEF Fills
  <2> QED BY <1>2, <1>4, <2>1
<1>7. snapshot'.balance = snapshot.balance - Cost(row)
  BY <1>2, <1>4 DEF RecordSnapshot
<1>8. OpenIn(proc[c].symbol) = {}
  <2>1. proc[c].view.rows = OpenRows BY <1>1, BalanceIsCash
  <2> QED BY <1>1, <2>1 DEF AccountInv, EntriesChecked, OpenIn, OpenRows
<1> QED BY <1>1, <1>2, <1>3, <1>5, <1>6, <1>7, <1>8

\* The exit's commit: the row asked for is closed, and what the sale brings in
\* is its cost and the net result of its trade.
LEMMA CurrentExit ==
  ASSUME AccountInv, NEW p \in Procs, CloseFill(p), Current(proc[p])
  PROVE  \E n \in OpenIds, trade \in TradeType :
           /\ n = proc[p].row /\ trade.position = n
           /\ positions' = ClosedRow(p, trade)
           /\ trades' = Append(trades, trade)
           /\ Cost(positions[n]) + trade.net \in Nat
           /\ snapshot'.balance = snapshot.balance + (Cost(positions[n]) + trade.net)
<1> DEFINE r == proc[p]
           n == r.row
<1>1. TypeOK /\ r.pc = "closeFill" BY DEF AccountInv, CloseFill
<1>2. /\ r.view.rows = OpenRows /\ Portfolio(r.view).balance = snapshot.balance
      /\ n \in OpenIds /\ positions[n].symbol = r.symbol
  BY <1>1, BalanceIsCash DEF Current
<1> DEFINE Commit(held, id) ==
             LET row   == r.view.rows[id]
                 fill  == ExitFill(p, row)
                 trade == ExitTrade(p, row, fill)
             IN  /\ row.symbol = r.symbol
                 /\ fill.quantity > 0
                 /\ positions' = ClosedRow(p, trade)
                 /\ trades' = Append(trades, trade)
                 /\ RecordSnapshot(Portfolio(r.view).balance
                                     + row.quantity * fill.price * D - fill.fee,
                                   Value(r.view.rows, held \ {id}, EmptyMap),
                                   Cardinality(held) - 1)
<1>3. PICK held \in HeldChoices(r.view.rows) : \E id \in held : Commit(held, id)
  BY DEF CloseFill
<1>4. PICK id \in held : Commit(held, id) BY <1>3
<1>5. held = OpenIds BY <1>2, HeldIsOpen DEF AccountInv
<1>6. r.view.rows[id] = positions[id] /\ id \in OpenIds BY <1>2, <1>4, <1>5 DEF OpenRows
<1>7. id = n BY <1>2, <1>4, <1>6 DEF AccountInv, UniqueOpen
<1> DEFINE row   == positions[n]
           fill  == ExitFill(p, row)
           trade == ExitTrade(p, row, fill)
           q     == row.quantity
<1>8. /\ fill.quantity > 0
      /\ positions' = ClosedRow(p, trade)
      /\ trades' = Append(trades, trade)
      /\ snapshot'.balance = snapshot.balance + q * fill.price * D - fill.fee
  BY <1>2, <1>4, <1>6, <1>7 DEF RecordSnapshot
<1>9. RequestOK(r, DOMAIN positions, Len(trades)) /\ row \in RowType
      /\ r.symbol \in Symbols /\ n \in Nat
  BY <1>1, <1>2, TypeFacts DEF RequestOK, OpenIds
<1>10. /\ q \in Nat \ {0} /\ q \in 1..MaxQuantity /\ row.entry \in Int
       /\ row.fees \in Int /\ row.symbol \in Symbols
  BY <1>9, AccountAssumption DEF RowType
<1>11. /\ fill.price \in Nat \ {0} /\ fill.fee \in Nat
       /\ fill.fee <= q * fill.price * D
  <2> DEFINE ref == IF r.ref # NoPrice THEN r.ref ELSE price[r.symbol]
             step == Filters(r.symbol).step
  <2>1. price[r.symbol] \in Int BY <1>1, <1>9, TypeFacts
  <2>2. ref \in Int BY <1>9, <2>1 DEF RequestOK, OptInt
  <2>3. step \in OptInt
    BY <1>9, AccountAssumption DEF Filters, NoFilters, FilterType, OptInt
  <2>4. fill = SimulateFill(q, ref, "SELL", NoPrice, step) BY DEF ExitFill
  <2>5. fill.quantity # 0 BY <1>8
  <2> HIDE DEF ref, step, fill, q
  <2> QED BY <1>10, <2>2, <2>3, <2>4, <2>5, FillBounds
<1> DEFINE proceeds == q * fill.price * D - fill.fee
<1>12. proceeds \in Nat /\ proceeds = Cost(row) + trade.net
       /\ snapshot'.balance = snapshot.balance + proceeds
  <2>1. trade.net = (fill.price - row.entry) * q * D - (row.fees + fill.fee)
    BY DEF ExitTrade
  <2>2. Cost(row) = q * row.entry * D + row.fees BY DEF Cost
  <2>3. snapshot.balance \in Int BY <1>1 DEF TypeOK
  <2>4. D \in Int BY UnitType
  <2> DEFINE x == fill.price
             y == row.entry
  <2>5. q \in Int /\ x \in Int /\ y \in Int BY <1>10, <1>11
  <2> DEFINE paid == q * y * D
             sold == q * x * D
  <2>6. (x - y) * q * D = sold - paid /\ sold \in Int /\ paid \in Int
    <3> HIDE DEF fill, row, trade, q, x, y
    <3> QED BY <2>4, <2>5
  <2>7. /\ trade.net = sold - paid - (row.fees + fill.fee)
        /\ Cost(row) = paid + row.fees
        /\ proceeds = sold - fill.fee /\ fill.fee <= sold
        /\ snapshot'.balance = snapshot.balance + sold - fill.fee
    BY <1>8, <1>11, <2>1, <2>2, <2>6
  <2> HIDE DEF fill, row, trade, q, x, y, paid, sold, proceeds
  <2> QED BY <1>10, <1>11, <2>3, <2>6, <2>7
<1>13. trade \in TradeType /\ trade.position = n
  <2>1. now \in Nat BY <1>1, TypeFacts
  <2>2. (fill.price - row.entry) * q * D \in Int
    <3> HIDE DEF row, fill, q
    <3> QED BY <1>10, <1>11, UnitType
  <2> HIDE DEF row, fill
  <2> QED BY <1>9, <1>10, <1>11, <2>1, <2>2 DEF ExitTrade, TradeType
<1>14. n = proc[p].row OBVIOUS
<1> HIDE DEF fill, trade, proceeds, n
<1> QED BY <1>2, <1>8, <1>12, <1>13, <1>14
\* A row is traded once: it is open until then.
LEMMA OneTradeStep ==
  ASSUME AccountInv, [ValidatedNext]_vars
  PROVE  OneTradePerRow'
<1>0. [Next]_vars /\ \A p \in Procs : CloseFill(p) => Current(proc[p])
  BY ValidatedCommit DEF AccountInv, ValidatedNext
<1>1. CASE UNCHANGED trades BY <1>1 DEF AccountInv, OneTradePerRow
<1>2. ASSUME NEW p \in Procs, CloseFill(p) PROVE OneTradePerRow'
  <2>1. PICK n \in OpenIds, trade \in TradeType :
          trade.position = n /\ trades' = Append(trades, trade)
    BY <1>2, <1>0, CurrentExit
  <2> DEFINE m == Len(trades)
  <2>2. /\ m \in Nat /\ DOMAIN trades = 1..m /\ DOMAIN trades' = 1..(m + 1)
        /\ trades'[m + 1] = trade /\ \A i \in 1..m : trades'[i] = trades[i]
    BY <2>1, TypeFacts DEF AccountInv
  <2>3. \A i \in DOMAIN trades : trades[i].position # n
    BY <2>1 DEF AccountInv, ClosedIffTraded, TradesOf, OpenIds
  <2> HIDE DEF m
  <2>4. \A i \in 1..(m + 1) : i \in 1..m \/ i = m + 1 BY <2>2
  <2>5. \A i, j \in 1..m : trades[i].position = trades[j].position => i = j
    BY <2>2 DEF AccountInv, OneTradePerRow
  <2> QED BY <2>1, <2>2, <2>3, <2>4, <2>5 DEF OneTradePerRow
<1>3. CASE UNCHANGED ledger \/ (\E c \in Clients : OpenFill(c)) \/ MonitorCommit
           \/ MonitorMark
  <2>1. UNCHANGED trades
    BY <1>3 DEF ledger, OpenFill, MonitorCommit, MonitorMark
  <2> QED BY <1>1, <2>1
<1> QED BY <1>0, <1>2, <1>3, LedgerSteps

\* The trailing stops a tick commits change no entry.
LEMMA CommitKeepsEntries ==
  ASSUME TypeOK, MonitorCommit
  PROVE  /\ DOMAIN positions' = DOMAIN positions /\ Len(positions') = Len(positions)
         /\ \A id \in DOMAIN positions :
              /\ positions'[id].status = positions[id].status
              /\ SameEntry(positions'[id], positions[id])
              /\ positions'[id].fees = positions[id].fees
         /\ UNCHANGED <<trades, snapshot>>
BY FlushedRows DEF MonitorCommit

\* So does a close, but for the row it closes.
LEMMA ExitKeepsEntries ==
  ASSUME TypeOK, NEW p \in Procs, CloseFill(p), NEW trade \in TradeType,
         positions' = ClosedRow(p, trade)
  PROVE  /\ DOMAIN positions' = DOMAIN positions
         /\ positions'[proc[p].row].status = "CLOSED"
         /\ \A id \in DOMAIN positions \ {proc[p].row} :
              /\ positions'[id].status = positions[id].status
              /\ SameEntry(positions'[id], positions[id])
              /\ positions'[id].fees = positions[id].fees
<1>1. trade.fees \in Int BY DEF TradeType
<1>2. proc[p].row \in DOMAIN positions BY CloseFillEffect
<1> QED BY <1>1, <1>2, ClosedRowRows

\* The balance of the snapshot is that of the tables after every commit, and is
\* not negative.
LEMMA BalancedStep ==
  ASSUME AccountInv, TypeOK', [ValidatedNext]_vars
  PROVE  Balanced' /\ NeverInDebt'
<1>0. /\ TypeOK /\ Balanced /\ NeverInDebt /\ Cash \in Int /\ snapshot.balance \in Int
      /\ [Next]_vars
      /\ \A c \in Clients : OpenFill(c) => Current(proc[c])
      /\ \A p \in Procs : CloseFill(p) => Current(proc[p])
      /\ MonitorMark => Current(proc[Monitor]) \/ UNCHANGED ledger
  BY CashType, ValidatedCommit DEF AccountInv, ValidatedNext, TypeOK
<1>1. CASE UNCHANGED ledger
  BY <1>0, <1>1 DEF ledger, Balanced, NeverInDebt, Cash, Realised, OpenCost, OpenRows, OpenIds, SumRows
<1>2. ASSUME NEW c \in Clients, OpenFill(c) PROVE Balanced' /\ NeverInDebt'
  <2>1. PICK row \in RowType :
          /\ row.status = "OPEN" /\ positions' = Append(positions, row)
          /\ UNCHANGED trades
          /\ Cost(row) \in Nat \ {0} /\ Cost(row) <= snapshot.balance
          /\ snapshot'.balance = snapshot.balance - Cost(row)
    BY <1>0, <1>2, CurrentEntry
  <2>2. Cash' = Cash - Cost(row) BY <1>0, <2>1, CashAfterEntry
  <2> QED BY <1>0, <2>1, <2>2 DEF Balanced, NeverInDebt
<1>3. ASSUME NEW p \in Procs, CloseFill(p) PROVE Balanced' /\ NeverInDebt'
  <2>1. PICK n \in OpenIds, trade \in TradeType :
          /\ n = proc[p].row /\ positions' = ClosedRow(p, trade)
          /\ trades' = Append(trades, trade)
          /\ Cost(positions[n]) + trade.net \in Nat
          /\ snapshot'.balance = snapshot.balance + (Cost(positions[n]) + trade.net)
    BY <1>0, <1>3, CurrentExit
  <2>2. Cash' = Cash + Cost(positions[n]) + trade.net
    BY <1>0, <1>3, <2>1, ExitKeepsEntries, CashAfterExit
  <2>3. Cost(positions[n]) \in Int /\ trade.net \in Int
    BY <1>0, TypeFacts, CostType DEF OpenIds, TradeType
  <2> QED BY <1>0, <2>1, <2>2, <2>3 DEF Balanced, NeverInDebt
<1>4. CASE MonitorCommit
  BY <1>0, <1>4, CommitKeepsEntries, CashKept DEF Balanced, NeverInDebt
<1>5. CASE MonitorMark /\ ~UNCHANGED ledger
  <2>1. proc[Monitor].pc = "markPeak" /\ Monitor \in Procs
        /\ UNCHANGED <<positions, trades>>
        /\ snapshot'.balance = Portfolio(proc[Monitor].view).balance
    BY <1>5 DEF MonitorMark, RecordSnapshot, Procs
  <2>2. snapshot'.balance = snapshot.balance BY <1>0, <1>5, <2>1, BalanceIsCash
  <2>3. Cash' = Cash
    BY <2>1 DEF Cash, Realised, OpenCost, OpenRows, OpenIds, SumRows
  <2> QED BY <1>0, <2>2, <2>3 DEF Balanced, NeverInDebt
<1> QED BY <1>0, <1>1, <1>2, <1>3, <1>4, <1>5, LedgerSteps

\* What the risk engine was asked when it approved the entry that commits: the
\* account of the tables.
LEMMA EntryApproved ==
  ASSUME AccountInv, NEW c \in Clients, OpenFill(c), Current(proc[c])
  PROVE  LET account == AccountState(proc[c].view, OpenIds, EmptyMap)
             exit    == LastExit(proc[c].symbol, Len(trades))
         IN  /\ proc[c].view.trades = Len(trades) /\ proc[c].view.rows = OpenRows
             /\ proc[c].view.peak = peak
             /\ CheckAccountHalts(account) = "none"
             /\ Cardinality(OpenIds) < MaxSimultaneousPositions
             /\ exit = NoPrice \/ now - exit = NoPrice \/ ~(now - exit < Cooldown)
<1>1. proc[c].view.trades = Len(trades) /\ proc[c].view.rows = OpenRows
      /\ proc[c].view.peak = peak
  BY DEF OpenFill, Current
<1>2. OpenIds \in HeldChoices(proc[c].view.rows) /\ Fills(c, OpenIds) /\ TypeOK
  BY CurrentEntry DEF AccountInv
<1> QED BY <1>1, <1>2, EntryPassed

LEMMA AccountInit == Init => AccountInv
<1> SUFFICES ASSUME Init PROVE AccountInv OBVIOUS
<1>1. TypeOK /\ UniqueOpen /\ EntriesChecked /\ WithinMaxPositions
  BY OneEntryInit DEF OneEntryInv
<1>2. positions = <<>> /\ trades = <<>> /\ snapshot.balance = InitialBalance
  BY DEF Init
<1>3. Len(positions) = 0 /\ Len(trades) = 0 BY <1>2
<1>4. ClosedIffTraded /\ OneTradePerRow BY <1>2 DEF ClosedIffTraded, OneTradePerRow
<1>5. Balanced /\ NeverInDebt
  <2>1. CashSums BY <1>1, OpenCostSum
  <2>2. Realised(Len(trades)) = 0 /\ OpenCost(OpenRows) = 0
    <3> DEFINE f == CostIfOpen
               a == Nets
    <3>1. f \in [1..0 -> Int] /\ a \in [1..0 -> Int]
          /\ OpenCost(OpenRows) = SumTo(f, 0) /\ Realised(Len(trades)) = SumTo(a, 0)
      BY <1>3, <2>1 DEF CashSums
    <3> HIDE DEF f, a
    <3> QED BY <3>1, SumToZero
  <2> QED BY <1>2, <2>2, AccountAssumption DEF Balanced, NeverInDebt, Cash
<1> QED BY <1>1, <1>4, <1>5 DEF AccountInv

LEMMA AccountStep == AccountInv /\ [ValidatedNext]_vars => AccountInv'
<1> SUFFICES ASSUME AccountInv, [ValidatedNext]_vars PROVE AccountInv' OBVIOUS
<1>1. [Next]_vars /\ TypeOK /\ UniqueOpen /\ EntriesChecked /\ ClosedIffTraded
      /\ WithinMaxPositions
  BY DEF ValidatedNext, AccountInv
<1>2. TypeOK' /\ EntriesChecked' BY <1>1, TypeNext, EntriesCheckedStep
<1>3. \A c \in Clients : OpenFill(c) => /\ OpenIn(proc[c].symbol) = {}
                                        /\ Cardinality(OpenIds) < MaxSimultaneousPositions
  BY <1>1, ValidatedCommit, CurrentEntry, EntryApproved
<1>4. UniqueOpen' /\ WithinMaxPositions' BY <1>1, <1>3, UniqueKept, MaxKept
<1>5. ClosedIffTraded' BY <1>1, <1>2, ClosedIffTradedStep
<1>6. OneTradePerRow' /\ Balanced' /\ NeverInDebt' BY <1>2, OneTradeStep, BalancedStep
<1> QED BY <1>2, <1>4, <1>5, <1>6 DEF AccountInv

\* However many handlers overlap: if each commits only while what it read is
\* still what the tables hold, there are never more open positions than
\* max_simultaneous_positions, for every plan, price and number of clients.
THEOREM ValidatedWithinMax == ValidatedSpec => []WithinMaxPositions
<1>1. AccountInv => WithinMaxPositions BY DEF AccountInv
<1> QED BY <1>1, AccountInit, AccountStep, PTL DEF ValidatedSpec

\* Nor has a symbol two open rows.
THEOREM ValidatedOneRow == ValidatedSpec => []OneOpenPerSymbol
<1>1. AccountInv => OneOpenPerSymbol BY UniqueIsOne DEF AccountInv
<1> QED BY <1>1, AccountInit, AccountStep, PTL DEF ValidatedSpec

\* Nor is the balance of the account ever negative.
THEOREM ValidatedNeverInDebt == ValidatedSpec => []NeverInDebt
<1>1. AccountInv => NeverInDebt BY DEF AccountInv
<1> QED BY <1>1, AccountInit, AccountStep, PTL DEF ValidatedSpec

-----------------------------------------------------------------------------
(* The account implements the ledger.                                      *)

\* The sum over one index is the value there.
LEMMA SumOfOne ==
  ASSUME NEW f, NEW i, f[i] \in Int
  PROVE  SumFunctionOnSet(f, {i}) = f[i]
<1> DEFINE iter == CHOOSE iter : iter = [s \in SUBSET {i} |->
                     IF s = {} THEN 0
                     ELSE LET x == CHOOSE x \in s : TRUE
                          IN  f[x] + iter[s \ {x}]]
           sums == [s \in SUBSET {i} |-> IF s = {} THEN 0 ELSE f[i]]
<1>1. \A s \in SUBSET {i} : s # {} => s = {i} /\ (CHOOSE x \in s : TRUE) = i
  <2> SUFFICES ASSUME NEW s \in SUBSET {i}, s # {}
               PROVE  s = {i} /\ (CHOOSE x \in s : TRUE) = i
    OBVIOUS
  <2>1. s = {i} OBVIOUS
  <2>2. (CHOOSE x \in {i} : TRUE) = i OBVIOUS
  <2> QED BY <2>1, <2>2
<1>2. ASSUME NEW s \in SUBSET {i}
      PROVE  sums[s] = IF s = {} THEN 0
                       ELSE LET x == CHOOSE x \in s : TRUE
                            IN  f[x] + sums[s \ {x}]
  <2>1. CASE s = {} BY <2>1
  <2>2. CASE s # {}
    <3>1. s = {i} /\ (CHOOSE x \in s : TRUE) = i BY <1>1, <2>2
    <3>2. {i} \ {i} = {} /\ {} \in SUBSET {i} OBVIOUS
    <3>3. sums[{i} \ {i}] = 0 BY <3>2
    <3>4. sums[s] = f[i] BY <2>2
    <3> HIDE DEF sums
    <3> QED BY <2>2, <3>1, <3>3, <3>4
  <2> QED BY <2>1, <2>2
<1>3. sums = [s \in SUBSET {i} |->
                IF s = {} THEN 0
                ELSE LET x == CHOOSE x \in s : TRUE
                     IN  f[x] + sums[s \ {x}]]
  <2>1. sums = [s \in SUBSET {i} |-> sums[s]] OBVIOUS
  <2> HIDE DEF sums
  <2> QED BY <1>2, <2>1
<1>4. iter = [s \in SUBSET {i} |->
                IF s = {} THEN 0
                ELSE LET x == CHOOSE x \in s : TRUE
                     IN  f[x] + iter[s \ {x}]]
  <2> HIDE DEF sums
  <2> QED BY <1>3
<1>5. iter[{}] = 0
  <2> HIDE DEF iter
  <2>1. {} \in SUBSET {i} OBVIOUS
  <2> QED BY <1>4, <2>1
<1>6. iter[{i}] = f[i] + iter[{}]
  <2> HIDE DEF iter
  <2>1. {i} \in SUBSET {i} /\ {i} # {} /\ {i} \ {i} = {} OBVIOUS
  <2>2. (CHOOSE x \in {i} : TRUE) = i OBVIOUS
  <2> QED BY <1>4, <2>1, <2>2
<1>7. SumFunctionOnSet(f, {i}) = iter[{i}]
  BY DEF SumFunctionOnSet, FoldFunctionOnSet, MapThenFoldSet
<1> HIDE DEF iter
<1> QED BY <1>5, <1>6, <1>7

\* The entries the ledger holds, and what those that ended returned.
Held == [id \in OpenIds |-> Cost(positions[id])]

Returned ==
  [id \in DOMAIN positions \ OpenIds |->
     SumFunctionOnSet([i \in DOMAIN trades |-> trades[i].net], TradesOf(id))]

\* A closed row's result is the net of its one trade.
ResultIsNet ==
  \A i \in DOMAIN trades :
    /\ TradesOf(trades[i].position) = {i}
    /\ SumFunctionOnSet([j \in DOMAIN trades |-> trades[j].net],
                        TradesOf(trades[i].position)) = trades[i].net

LEMMA AccountResult == AccountInv => ResultIsNet
<1> SUFFICES ASSUME AccountInv, NEW i \in DOMAIN trades
             PROVE  /\ TradesOf(trades[i].position) = {i}
                    /\ SumFunctionOnSet([j \in DOMAIN trades |-> trades[j].net],
                                        TradesOf(trades[i].position)) = trades[i].net
  BY DEF ResultIsNet
<1>1. TradesOf(trades[i].position) = {i}
  BY DEF AccountInv, OneTradePerRow, TradesOf
<1>2. trades[i].net \in Int
  <2>1. trades[i] \in TradeType BY TypeFacts DEF AccountInv
  <2> QED BY <2>1 DEF TradeType
<1> DEFINE f == [j \in DOMAIN trades |-> trades[j].net]
<1>3. f[i] = trades[i].net OBVIOUS
<1>4. SumFunctionOnSet(f, {i}) = f[i]
  <2> HIDE DEF f
  <2> QED BY <1>2, <1>3, SumOfOne
<1> QED BY <1>1, <1>3, <1>4

\* What has ended has a result that later commits leave alone.
LEMMA ReturnedKept ==
  ASSUME AccountInv, AccountInv', NEW id \in DOMAIN positions \ OpenIds,
         \A i \in DOMAIN trades : i \in DOMAIN trades' /\ trades'[i] = trades[i]
  PROVE  SumFunctionOnSet([i \in DOMAIN trades |-> trades[i].net], TradesOf(id))'
           = SumFunctionOnSet([i \in DOMAIN trades |-> trades[i].net], TradesOf(id))
<1>1. ResultIsNet /\ ResultIsNet' BY AccountResult, PTL
<1>2. positions[id].status = "CLOSED"
  <2>1. positions[id] \in RowType BY TypeFacts DEF AccountInv
  <2> QED BY <2>1 DEF RowType, OpenIds
<1>3. TradesOf(id) # {} BY <1>2 DEF AccountInv, ClosedIffTraded
<1>4. PICK i : i \in DOMAIN trades /\ trades[i].position = id BY <1>3 DEF TradesOf
<1>5. i \in DOMAIN trades' /\ trades'[i] = trades[i] BY <1>4
<1> QED BY <1>1, <1>4, <1>5 DEF ResultIsNet

LEMMA LedgerEnter ==
  ASSUME AccountInv, AccountInv', NEW c \in Clients, OpenFill(c), Current(proc[c])
  PROVE  AsLedger!Enter
<1> DEFINE n == Len(positions)
<1>1. PICK row \in RowType :
        /\ row.status = "OPEN"
        /\ Cost(row) \in Nat \ {0} /\ Cost(row) <= snapshot.balance
        /\ n < MaxPositions
        /\ positions' = Append(positions, row)
        /\ UNCHANGED trades
        /\ snapshot'.balance = snapshot.balance - Cost(row)
  BY CurrentEntry
<1>2. /\ DOMAIN positions = 1..n /\ n \in Nat /\ DOMAIN positions' = 1..(n + 1)
      /\ positions'[n + 1] = row /\ \A id \in 1..n : positions'[id] = positions[id]
      /\ snapshot.balance \in Int
  BY <1>1, TypeFacts DEF AccountInv, TypeOK
<1>3. OpenIds' = OpenIds \cup {n + 1} /\ OpenIds \subseteq 1..n
  BY <1>1, <1>2 DEF OpenIds
<1>4. n + 1 \in 1..MaxPositions BY <1>1, <1>2, AccountAssumption
<1>5. DOMAIN Held = OpenIds /\ DOMAIN Returned = DOMAIN positions \ OpenIds
  BY DEF Held, Returned
<1>6. n + 1 \notin DOMAIN Held \cup DOMAIN Returned BY <1>2, <1>3, <1>5
<1>7. snapshot.balance - snapshot'.balance = Cost(row) BY <1>1, <1>2
<1>8. Held' = [y \in DOMAIN Held \cup {n + 1} |->
                 IF y = n + 1 THEN snapshot.balance - snapshot'.balance ELSE Held[y]]
  <2>1. Held' = [y \in OpenIds' |-> Cost(positions'[y])] BY DEF Held
  <2>2. \A y \in OpenIds' : Cost(positions'[y]) = IF y = n + 1 THEN Cost(row) ELSE Held[y]
    <3>1. \A y \in OpenIds : y # n + 1 /\ Cost(positions'[y]) = Held[y]
      BY <1>2, <1>3 DEF Held
    <3> QED BY <1>2, <1>3, <3>1
  <2> QED BY <1>3, <1>5, <1>7, <2>1, <2>2
<1>9. Returned' = Returned
  <2>1. DOMAIN positions' \ OpenIds' = DOMAIN positions \ OpenIds BY <1>2, <1>3
  <2>2. \A id : SumFunctionOnSet([i \in DOMAIN trades |-> trades[i].net], TradesOf(id))'
              = SumFunctionOnSet([i \in DOMAIN trades |-> trades[i].net], TradesOf(id))
    BY <1>1 DEF TradesOf
  <2> QED BY <2>1, <2>2 DEF Returned
<1>10. snapshot'.balance < snapshot.balance /\ snapshot'.balance >= 0 BY <1>1, <1>2
<1> HIDE DEF n
<1> QED BY <1>4, <1>6, <1>8, <1>9, <1>10
        DEF AsLedger!Enter, AsLedger!Used, AsLedger!With, Held, Returned

LEMMA LedgerEnd ==
  ASSUME AccountInv, AccountInv', NEW p \in Procs, CloseFill(p), Current(proc[p])
  PROVE  AsLedger!End
<1>1. PICK n \in OpenIds, trade \in TradeType :
        /\ n = proc[p].row /\ trade.position = n
        /\ positions' = ClosedRow(p, trade)
        /\ trades' = Append(trades, trade)
        /\ Cost(positions[n]) + trade.net \in Nat
        /\ snapshot'.balance = snapshot.balance + (Cost(positions[n]) + trade.net)
  BY CurrentExit
<1>2. TypeOK BY DEF AccountInv
<1>3. /\ DOMAIN positions' = DOMAIN positions
      /\ positions'[n].status = "CLOSED"
      /\ \A id \in DOMAIN positions \ {n} :
           /\ positions'[id].status = positions[id].status
           /\ SameEntry(positions'[id], positions[id])
           /\ positions'[id].fees = positions[id].fees
  BY <1>1, <1>2, ExitKeepsEntries
<1>4. OpenIds' = OpenIds \ {n} /\ n \in DOMAIN positions BY <1>3 DEF OpenIds
<1>5. snapshot.balance \in Int /\ Cost(positions[n]) \in Int /\ trade.net \in Int
  BY <1>2, <1>4, TypeFacts, CostType DEF TypeOK, TradeType
<1> DEFINE m == Len(trades)
<1>6. /\ m \in Nat /\ DOMAIN trades = 1..m /\ DOMAIN trades' = 1..(m + 1)
      /\ trades'[m + 1] = trade /\ \A i \in 1..m : trades'[i] = trades[i]
  BY <1>1, <1>2, TypeFacts
<1>7. DOMAIN Held = OpenIds /\ DOMAIN Returned = DOMAIN positions \ OpenIds
      /\ Held[n] = Cost(positions[n])
  BY DEF Held, Returned
<1>8. Held' = [x \in DOMAIN Held \ {n} |-> Held[x]]
  <2>1. Held' = [y \in OpenIds' |-> Cost(positions[y])'] BY DEF Held
  <2>2. \A y \in OpenIds' : Cost(positions[y])' = Held[y]
    BY <1>3, <1>4 DEF Held, Cost, SameEntry, OpenIds
  <2> QED BY <1>4, <1>7, <2>1, <2>2
<1>9. snapshot'.balance - snapshot.balance - Held[n] = trade.net
  BY <1>1, <1>5, <1>7
<1>10. Returned' = [y \in DOMAIN Returned \cup {n} |->
                      IF y = n THEN snapshot'.balance - snapshot.balance - Held[n]
                      ELSE Returned[y]]
  <2> DEFINE result(id) ==
        SumFunctionOnSet([i \in DOMAIN trades |-> trades[i].net], TradesOf(id))
  <2>1. Returned' = [y \in DOMAIN positions' \ OpenIds' |-> result(y)'] BY DEF Returned
  <2>2. DOMAIN positions' \ OpenIds' = DOMAIN Returned \cup {n} BY <1>3, <1>4, <1>7
  <2>3. result(n)' = trade.net
    <3>1. ResultIsNet' BY AccountResult, PTL
    <3>2. m + 1 \in DOMAIN trades' BY <1>6
    <3> QED BY <1>1, <1>6, <3>1, <3>2 DEF ResultIsNet
  <2>4. ASSUME NEW y \in DOMAIN Returned PROVE y # n /\ result(y)' = Returned[y]
    <3>1. y \in DOMAIN positions \ OpenIds /\ Returned[y] = result(y)
      BY <1>7 DEF Returned
    <3>2. \A i \in DOMAIN trades : i \in DOMAIN trades' /\ trades'[i] = trades[i]
      BY <1>6
    <3>3. result(y)' = result(y) BY <3>1, <3>2, ReturnedKept
    <3> QED BY <1>1, <3>1, <3>3
  <2> HIDE DEF result
  <2> QED BY <1>9, <2>1, <2>2, <2>3, <2>4
<1>11. snapshot'.balance >= snapshot.balance BY <1>1, <1>5
<1>12. n \in DOMAIN Held BY <1>7
<1> QED BY <1>8, <1>10, <1>11, <1>12 DEF AsLedger!End, AsLedger!With, Held, Returned

LEMMA LedgerStutters ==
  ASSUME AccountInv,
         UNCHANGED ledger \/ MonitorCommit \/ (MonitorMark /\ Current(proc[Monitor]))
  PROVE  UNCHANGED AsLedger!vars
<1>1. ASSUME UNCHANGED trades, DOMAIN positions' = DOMAIN positions, OpenIds' = OpenIds,
             \A id \in OpenIds : Cost(positions[id])' = Cost(positions[id]),
             snapshot'.balance = snapshot.balance
      PROVE  UNCHANGED AsLedger!vars
  <2>1. Held' = Held BY <1>1 DEF Held
  <2>2. \A id : SumFunctionOnSet([i \in DOMAIN trades |-> trades[i].net], TradesOf(id))'
              = SumFunctionOnSet([i \in DOMAIN trades |-> trades[i].net], TradesOf(id))
    BY <1>1 DEF TradesOf
  <2>3. Returned' = Returned BY <1>1, <2>2 DEF Returned
  <2> QED BY <1>1, <2>1, <2>3 DEF AsLedger!vars, Held, Returned
<1>2. CASE UNCHANGED ledger
  <2>1. UNCHANGED <<positions, trades, snapshot>> BY <1>2 DEF ledger
  <2>2. OpenIds' = OpenIds /\ \A id \in OpenIds : Cost(positions[id])' = Cost(positions[id])
    BY <2>1 DEF OpenIds, Cost
  <2> QED BY <1>1, <2>1, <2>2
<1>3. CASE MonitorCommit
  <2>1. TypeOK BY DEF AccountInv
  <2>2. OpenIds' = OpenIds BY <1>3, <2>1, CommitKeepsEntries DEF OpenIds
  <2>3. \A id \in OpenIds : Cost(positions[id])' = Cost(positions[id])
    BY <1>3, <2>1, CommitKeepsEntries DEF OpenIds, Cost, SameEntry
  <2> QED BY <1>1, <1>3, <2>1, <2>2, <2>3, CommitKeepsEntries
<1>4. CASE MonitorMark /\ Current(proc[Monitor])
  <2>1. proc[Monitor].pc = "markPeak" /\ Monitor \in Procs
        /\ UNCHANGED <<positions, trades>>
        /\ snapshot'.balance = Portfolio(proc[Monitor].view).balance
    BY <1>4 DEF MonitorMark, RecordSnapshot, Procs
  <2>2. OpenIds' = OpenIds /\ \A id \in OpenIds : Cost(positions[id])' = Cost(positions[id])
    BY <2>1 DEF OpenIds, Cost
  <2> QED BY <1>1, <1>4, <2>1, <2>2, BalanceIsCash
<1> QED BY <1>2, <1>3, <1>4

LEMMA LedgerInit == Init => AsLedger!Init
<1> SUFFICES ASSUME Init PROVE AsLedger!Init OBVIOUS
<1>1. positions = <<>> /\ trades = <<>> /\ snapshot.balance = InitialBalance
  BY DEF Init
<1>2. OpenIds = {} /\ DOMAIN positions \ OpenIds = {} BY <1>1 DEF OpenIds
<1>3. Held = [x \in {} |-> 0] /\ Returned = [x \in {} |-> 0]
  BY <1>2 DEF Held, Returned
<1> QED BY <1>1, <1>3 DEF AsLedger!Init, Held, Returned

\* Every behaviour of handlers that commit only what is still true is one of the
\* ledger: cash moves by the cost of the row that opens and, once per row, by
\* what its sale brings in, for every fee, slippage, lot grid and plan.
THEOREM ValidatedAccountIsLedger == ValidatedSpec => ImplementsLedger
<1>1. AccountInv /\ AccountInv' /\ [ValidatedNext]_vars
        => [AsLedger!Next]_(AsLedger!vars)
  <2> SUFFICES ASSUME AccountInv, AccountInv', [ValidatedNext]_vars
               PROVE  [AsLedger!Next]_(AsLedger!vars)
    OBVIOUS
  <2>1. TypeOK /\ [Next]_vars BY DEF AccountInv, ValidatedNext
  <2>2. /\ \A c \in Clients : OpenFill(c) => Current(proc[c])
        /\ \A p \in Procs : CloseFill(p) => Current(proc[p])
        /\ MonitorMark => Current(proc[Monitor]) \/ UNCHANGED ledger
    BY <2>1, ValidatedCommit
  <2> QED BY <2>1, <2>2, LedgerSteps, LedgerEnter, LedgerEnd, LedgerStutters
          DEF AsLedger!Next
<1> QED BY <1>1, LedgerInit, AccountInit, AccountStep, PTL
        DEF ValidatedSpec, ImplementsLedger, AsLedger!Spec

-----------------------------------------------------------------------------
(* An entry and the halts of the ledger it is committed to.                *)

\* A bounded set of naturals has a largest member.
LEMMA MaxOfBounded ==
  ASSUME NEW b \in Nat, NEW S, S \subseteq 0..b, S # {}
  PROVE  Max(S) \in S /\ \A y \in S : Max(S) >= y
<1> DEFINE T == {n \in Nat : \E x \in S : n = b - x}
<1>1. T \subseteq Nat OBVIOUS
<1>2. T # {}
  <2>1. PICK x \in S : TRUE OBVIOUS
  <2>2. b - x \in Nat BY <2>1
  <2> QED BY <2>1, <2>2
<1>3. PICK n \in T : \A k \in T : n <= k
  <2> HIDE DEF T
  <2> QED BY <1>1, <1>2, LeastElement
<1>4. PICK x \in S : n = b - x BY <1>3
<1>5. \A y \in S : x >= y
  <2> SUFFICES ASSUME NEW y \in S PROVE x >= y OBVIOUS
  <2>1. b - y \in T OBVIOUS
  <2> QED BY <1>3, <1>4, <2>1
<1> QED BY <1>4, <1>5 DEF Max

\* The values of a finite sequence of naturals have a bound.
LEMMA PrefixBounded ==
  ASSUME NEW m \in Nat, NEW f, \A i \in 1..m : f[i] \in Nat
  PROVE  \E b \in Nat : \A i \in 1..m : f[i] <= b
<1> DEFINE T == {n \in 0..m : ~ \E b \in Nat : \A i \in 1..n : f[i] <= b}
<1>1. SUFFICES ASSUME T # {} PROVE FALSE
  <2>1. m \in 0..m OBVIOUS
  <2> QED BY <2>1
<1>2. T \subseteq Nat OBVIOUS
<1>3. PICK n \in T : \A k \in T : n <= k
  <2> HIDE DEF T
  <2> QED BY <1>1, <1>2, LeastElement
<1>4. n # 0
  <2>1. \A i \in 1..0 : f[i] <= 0 OBVIOUS
  <2> QED BY <1>3, <2>1
<1>5. n \in 1..m /\ n - 1 \in 0..m /\ n - 1 \notin T
  <2>1. n \in 1..m /\ n - 1 \in 0..m BY <1>4
  <2> HIDE DEF T
  <2> QED BY <1>3, <2>1
<1>6. PICK b \in Nat : \A i \in 1..(n - 1) : f[i] <= b BY <1>5
<1>7. PICK c \in Nat : c >= b /\ c >= f[n] BY <1>5
<1>8. \A i \in 1..n : f[i] <= c
  <2> SUFFICES ASSUME NEW i \in 1..n PROVE f[i] <= c OBVIOUS
  <2>1. f[i] \in Nat BY <1>5
  <2>2. i = n \/ i \in 1..(n - 1) BY <1>5
  <2> QED BY <1>6, <1>7, <2>1, <2>2
<1> QED BY <1>3, <1>8

\* The sum of a sum of two functions is the sum of their sums.
LEMMA SumToPlus ==
  ASSUME NEW m \in Nat, NEW f \in [1..m -> Int], NEW g \in [1..m -> Int],
         NEW h \in [1..m -> Int], \A i \in 1..m : h[i] = f[i] + g[i]
  PROVE  SumTo(h, m) = SumTo(f, m) + SumTo(g, m)
<1> DEFINE T == {n \in 0..m : SumTo(h, n) # SumTo(f, n) + SumTo(g, n)}
<1>1. SUFFICES ASSUME T # {} PROVE FALSE
  <2>1. m \in 0..m OBVIOUS
  <2> QED BY <2>1
<1>2. T \subseteq Nat OBVIOUS
<1>3. PICK n \in T : \A k \in T : n <= k
  <2> HIDE DEF T
  <2> QED BY <1>1, <1>2, LeastElement
<1>4. n # 0
  <2>1. SumTo(f, 0) = 0 /\ SumTo(g, 0) = 0 /\ SumTo(h, 0) = 0 BY SumToZero
  <2> QED BY <1>3, <2>1
<1>5. n \in 1..m /\ n - 1 \in 0..m /\ n - 1 \notin T BY <1>3, <1>4
<1>6. SumTo(h, n - 1) = SumTo(f, n - 1) + SumTo(g, n - 1) BY <1>5
<1>7. /\ SumTo(h, n) = SumTo(h, n - 1) + h[n]
      /\ SumTo(f, n) = SumTo(f, n - 1) + f[n]
      /\ SumTo(g, n) = SumTo(g, n - 1) + g[n]
  BY <1>5, SumToStep
<1>8. /\ SumTo(f, n - 1) \in Int /\ SumTo(g, n - 1) \in Int
      /\ f[n] \in Int /\ g[n] \in Int /\ h[n] = f[n] + g[n]
  BY <1>5, SumToType
<1> QED BY <1>3, <1>6, <1>7, <1>8

\* What the open rows have cost is what they are worth at their entry prices,
\* and their fees.
LEMMA CostIsValueAndFees ==
  ASSUME TypeOK
  PROVE  /\ OpenCost(OpenRows) = Value(OpenRows, OpenIds, EmptyMap)
                                   + SumRows([id \in OpenIds |-> positions[id].fees])
         /\ Value(OpenRows, OpenIds, EmptyMap) \in Int
         /\ SumRows([id \in OpenIds |-> positions[id].fees]) \in Int
<1> DEFINE n == Len(positions)
           value == [id \in OpenIds |-> MarketValue(OpenRows[id], EmptyMap)]
           fees  == [id \in OpenIds |-> positions[id].fees]
           f == [id \in DOMAIN positions |-> IF id \in DOMAIN value THEN value[id] ELSE 0]
           g == [id \in DOMAIN positions |-> IF id \in DOMAIN fees THEN fees[id] ELSE 0]
           h == CostIfOpen
<1>1. /\ n \in Nat /\ DOMAIN positions = 1..n /\ OpenIds \subseteq 1..n
      /\ \A id \in 1..n : positions[id] \in RowType
  BY TypeFacts DEF OpenIds
<1>2. ASSUME NEW id \in OpenIds
      PROVE  /\ value[id] \in Int /\ fees[id] \in Int
             /\ Cost(positions[id]) = value[id] + fees[id]
  <2>1. /\ positions[id].quantity \in Int /\ positions[id].entry \in Int
        /\ positions[id].fees \in Int
    BY <1>1, AccountAssumption DEF RowType
  <2>2. OpenRows[id] = positions[id] BY DEF OpenRows
  <2>3. MarkOf(positions[id], EmptyMap) = positions[id].entry BY DEF MarkOf, EmptyMap
  <2>4. value[id] = positions[id].quantity * positions[id].entry * D
    BY <2>2, <2>3 DEF MarketValue
  <2>5. positions[id].quantity * positions[id].entry * D \in Int BY <2>1, UnitType
  <2> QED BY <2>1, <2>4, <2>5 DEF Cost
<1>3. /\ f \in [1..n -> Int] /\ g \in [1..n -> Int] /\ h \in [1..n -> Int]
      /\ \A i \in 1..n : h[i] = f[i] + g[i]
  <2>1. \A i \in 1..n : /\ f[i] = IF i \in OpenIds THEN value[i] ELSE 0
                        /\ g[i] = IF i \in OpenIds THEN fees[i] ELSE 0
                        /\ h[i] = IF i \in OpenIds THEN Cost(positions[i]) ELSE 0
    BY <1>1 DEF CostIfOpen
  <2>2. DOMAIN f = 1..n /\ DOMAIN g = 1..n /\ DOMAIN h = 1..n BY <1>1 DEF CostIfOpen
  <2>3. \A i \in 1..n : f[i] \in Int /\ g[i] \in Int /\ h[i] = f[i] + g[i]
    <3> SUFFICES ASSUME NEW i \in 1..n
                 PROVE  f[i] \in Int /\ g[i] \in Int /\ h[i] = f[i] + g[i]
      OBVIOUS
    <3> HIDE DEF f, g, h, value, fees, n
    <3>1. CASE i \in OpenIds BY <1>2, <2>1, <3>1
    <3>2. CASE i \notin OpenIds BY <2>1, <3>2
    <3> QED BY <3>1, <3>2
  <2>4. f = [i \in 1..n |-> f[i]] /\ g = [i \in 1..n |-> g[i]] /\ h = [i \in 1..n |-> h[i]]
    BY <1>1 DEF CostIfOpen
  <2> HIDE DEF f, g, h, value, fees, n
  <2> QED BY <2>3, <2>4
<1>4. SumTo(h, n) = SumTo(f, n) + SumTo(g, n) /\ SumTo(f, n) \in Int /\ SumTo(g, n) \in Int
  <2> HIDE DEF f, g, h, n
  <2>1. n \in 0..n BY <1>1
  <2> QED BY <1>1, <1>3, <2>1, SumToPlus, SumToType
<1>5. Value(OpenRows, OpenIds, EmptyMap) = SumTo(f, n) BY DEF Value, SumRows
<1>6. SumRows(fees) = SumTo(g, n) BY DEF SumRows
<1>7. OpenCost(OpenRows) = SumTo(h, n) BY OpenCostSum DEF CashSums
<1> HIDE DEF f, g, h, n
<1> QED BY <1>4, <1>5, <1>6, <1>7

\* A drawdown seen from a lower peak is smaller.
LEMMA LowerPeak ==
  ASSUME NEW p \in Int, NEW q \in Int, NEW e \in Int, q <= p,
         NEW m \in Int, NEW d \in Int, m <= d, (p - e) * d < m * p
  PROVE  (q - e) * d < m * q
<1>1. \A a, b \in Nat : a * b \in Nat OBVIOUS
<1>2. (p - q) * (d - m) >= 0
  <2>1. p - q \in Nat /\ d - m \in Nat OBVIOUS
  <2> HIDE <1>1
  <2> QED BY <1>1, <2>1
<1>3. (p - q) * (d - m) = ((p - e) * d - m * p) - ((q - e) * d - m * q) OBVIOUS
<1>4. (p - e) * d \in Int /\ m * p \in Int /\ (q - e) * d \in Int /\ m * q \in Int
      /\ (p - q) * (d - m) \in Int
  OBVIOUS
<1> QED BY <1>2, <1>3, <1>4
\* A losing streak shorter than its limit has a win among the last trades.
LEMMA WinInStreak ==
  ASSUME TypeOK, NEW k \in Nat, ~(Streak(Len(trades)) >= k), Len(trades) >= k
  PROVE  \E i \in Len(trades) - k + 1..Len(trades) : trades[i].net > 0
<1> DEFINE n == Len(trades)
           wins == {i \in 1..n : trades[i].net > 0}
           m == Max({0} \cup wins)
<1>1. n \in Nat BY TypeFacts
<1>2. m \in {0} \cup wins
  <2>1. {0} \cup wins \subseteq 0..n /\ {0} \cup wins # {} BY <1>1
  <2> HIDE DEF wins, n
  <2> QED BY <1>1, <2>1, MaxOfBounded
<1>3. Streak(n) = n - m BY DEF Streak
<1>4. m \in Nat BY <1>1, <1>2
<1>5. n - m < k /\ m # 0
  <2> HIDE DEF m, n
  <2> QED BY <1>1, <1>3, <1>4 DEF n
<1>6. m \in wins BY <1>2, <1>5
<1>7. m \in n - k + 1..n /\ trades[m].net > 0
  <2>1. m \in 1..n /\ trades[m].net > 0 BY <1>6
  <2> HIDE DEF m, n
  <2> QED BY <1>1, <1>5, <2>1
<1> QED BY <1>7

\* The last exit from a symbol is a time, if there was one.
LEMMA LastExitType ==
  ASSUME TypeOK, NEW symbol
  PROVE  LastExit(symbol, Len(trades)) \in OptInt
<1> DEFINE n == Len(trades)
           exits == {trades[i].time : i \in {j \in 1..n : trades[j].symbol = symbol}}
           times == [i \in 1..n |-> trades[i].time]
<1>1. n \in Nat /\ \A i \in 1..n : trades[i].time \in Nat
  <2>1. n \in Nat /\ \A i \in 1..n : trades[i] \in TradeType BY TypeFacts
  <2> QED BY <2>1 DEF TradeType
<1>2. PICK b \in Nat : \A i \in 1..n : times[i] <= b
  <2>1. \A i \in 1..n : times[i] \in Nat BY <1>1
  <2> HIDE DEF times, n
  <2> QED BY <1>1, <2>1, PrefixBounded
<1>3. exits \subseteq 0..b BY <1>1, <1>2
<1>4. LastExit(symbol, n) = IF exits = {} THEN NoPrice ELSE Max(exits)
  BY DEF LastExit
<1>5. exits # {} => Max(exits) \in Int
  <2> HIDE DEF exits, n
  <2> SUFFICES ASSUME exits # {} PROVE Max(exits) \in Int OBVIOUS
  <2>1. Max(exits) \in exits BY <1>3, MaxOfBounded
  <2>2. Max(exits) \in 0..b BY <1>3, <2>1
  <2> QED BY <2>2
<1> HIDE DEF exits, n
<1> QED BY <1>4, <1>5 DEF OptInt, n

\* The account an entry is judged on is that of the tables.
LEMMA EntryAccount ==
  ASSUME TypeOK, NEW view, view.trades = Len(trades), view.rows = OpenRows,
         view.peak = peak
  PROVE  LET account == AccountState(view, OpenIds, EmptyMap)
         IN  /\ account.equity = InitialBalance + Realised(Len(trades))
                                   - SumRows([id \in OpenIds |-> positions[id].fees])
             /\ account.equity \in Int /\ account.peak \in Nat \ {0}
             /\ Max({InitialBalance, peak}) \in Nat \ {0}
             /\ Max({InitialBalance, peak}) <= account.peak
             /\ account.streak = Streak(Len(trades))
<1> DEFINE account == AccountState(view, OpenIds, EmptyMap)
           realised == Realised(Len(trades))
           fees == SumRows([id \in OpenIds |-> positions[id].fees])
           value == Value(OpenRows, OpenIds, EmptyMap)
<1>1. /\ account.equity = (InitialBalance + realised - OpenCost(OpenRows)) + value
      /\ account.peak = Max({InitialBalance, InitialBalance + realised, peak})
      /\ account.streak = Streak(Len(trades))
  BY DEF AccountState, Portfolio
<1>2. OpenCost(OpenRows) = value + fees /\ value \in Int /\ fees \in Int
  BY CostIsValueAndFees
<1>3. realised \in Int /\ InitialBalance \in Nat \ {0} /\ peak \in Int
  BY TypeFacts, RealisedType, AccountAssumption
<1> HIDE DEF account, realised, fees, value
<1>4. account.equity = InitialBalance + realised - fees /\ account.equity \in Int
  BY <1>1, <1>2, <1>3
<1>5. \A a, b, c \in Int :
        /\ Max({a, b, c}) \in Int /\ Max({a, b, c}) >= a /\ Max({a, b, c}) >= c
        /\ Max({a, c}) \in {a, c} /\ Max({a, c}) >= a
  <2> SUFFICES ASSUME NEW a \in Int, NEW b \in Int, NEW c \in Int
               PROVE  /\ Max({a, b, c}) \in Int /\ Max({a, b, c}) >= a
                      /\ Max({a, b, c}) >= c
                      /\ Max({a, c}) \in {a, c} /\ Max({a, c}) >= a
    OBVIOUS
  <2>1. \E x \in {a, b, c} : \A y \in {a, b, c} : x >= y OBVIOUS
  <2>2. Max({a, b, c}) \in {a, b, c} /\ \A y \in {a, b, c} : Max({a, b, c}) >= y
    BY <2>1 DEF Max
  <2> QED BY <2>2, MaxOfTwo
<1>6. InitialBalance + realised \in Int /\ InitialBalance \in Int /\ peak \in Int
  BY <1>3
<1>7. /\ account.peak \in Int /\ account.peak >= InitialBalance /\ account.peak >= peak
      /\ Max({InitialBalance, peak}) \in {InitialBalance, peak}
      /\ Max({InitialBalance, peak}) >= InitialBalance
  <2> DEFINE high == Max({InitialBalance, InitialBalance + realised, peak})
             low  == Max({InitialBalance, peak})
  <2>1. /\ high \in Int /\ high >= InitialBalance /\ high >= peak
        /\ low \in {InitialBalance, peak} /\ low >= InitialBalance
    BY <1>5, <1>6, Zenon
  <2> QED BY <1>1, <2>1
<1>8. /\ account.peak \in Nat \ {0} /\ Max({InitialBalance, peak}) \in Nat \ {0}
      /\ Max({InitialBalance, peak}) <= account.peak
  BY <1>3, <1>7
<1> QED BY <1>1, <1>4, <1>8 DEF account, realised, fees

LEMMA EntryRespects ==
  ASSUME AccountInv, AccountInv', [ValidatedNext]_vars, Entered
  PROVE  LET n      == Len(trades)
             equity == InitialBalance + Realised(n)
                         - SumRows([id \in OpenIds |-> positions[id].fees])
             symbol == positions'[Len(positions')].symbol
             exit   == LastExit(symbol, n)
         IN  /\ n >= MaxConsecutiveLosses =>
                  \E i \in n - MaxConsecutiveLosses + 1..n : trades[i].net > 0
             /\ (Max({InitialBalance, peak}) - equity) * D
                  < MaxDrawdown * Max({InitialBalance, peak})
             /\ exit = NoPrice \/ now - exit >= Cooldown
<1>0. [Next]_vars /\ TypeOK /\ TypeOK' BY DEF AccountInv, ValidatedNext
<1>1. PICK c \in Clients : OpenFill(c) /\ Current(proc[c])
  <2>1. ASSUME DOMAIN positions' = DOMAIN positions PROVE FALSE
    <3>1. Len(positions) \in Nat /\ DOMAIN positions = 1..Len(positions)
      BY TypeFacts DEF AccountInv
    <3>2. Len(positions') \in Nat /\ DOMAIN positions' = 1..Len(positions')
      BY DEF AccountInv, TypeOK
    <3> QED BY <2>1, <3>1, <3>2 DEF Entered
  <2>2. CASE UNCHANGED ledger \/ MonitorMark BY <2>1, <2>2 DEF ledger, MonitorMark
  <2>3. CASE MonitorCommit BY <2>1, <2>3, CommitKeepsEntries DEF AccountInv
  <2>4. ASSUME NEW p \in Procs, CloseFill(p) PROVE FALSE
    <3>1. PICK trade \in TradeType : positions' = ClosedRow(p, trade)
      BY <1>0, <2>4, CloseFillEffect
    <3> QED BY <1>0, <2>1, <2>4, <3>1, ExitKeepsEntries
  <2> QED BY <1>0, <2>2, <2>3, <2>4, LedgerSteps, ValidatedCommit
<1> DEFINE n == Len(trades)
           account == AccountState(proc[c].view, OpenIds, EmptyMap)
           exit == LastExit(proc[c].symbol, n)
           equity == InitialBalance + Realised(n)
                       - SumRows([id \in OpenIds |-> positions[id].fees])
           top == Max({InitialBalance, peak})
<1>2. /\ proc[c].view.trades = n /\ proc[c].view.rows = OpenRows
      /\ proc[c].view.peak = peak
      /\ CheckAccountHalts(account) = "none"
      /\ exit = NoPrice \/ now - exit = NoPrice \/ ~(now - exit < Cooldown)
  BY <1>1, EntryApproved
<1>3. positions'[Len(positions')].symbol = proc[c].symbol
  <2>1. PICK row \in RowType :
          row.symbol = proc[c].symbol /\ positions' = Append(positions, row)
    BY <1>1, CurrentEntry
  <2>2. Len(positions') = Len(positions) + 1 /\ positions'[Len(positions) + 1] = row
    BY <2>1, TypeFacts DEF AccountInv
  <2> QED BY <2>1, <2>2
<1>4. /\ account.equity = equity /\ equity \in Int /\ account.peak \in Nat \ {0}
      /\ top \in Nat \ {0} /\ top <= account.peak
      /\ account.streak = Streak(n)
  BY <1>2, EntryAccount DEF AccountInv
<1>5. /\ ~DrawdownReached(account) /\ ~(account.streak >= MaxConsecutiveLosses)
  <2> HIDE DEF account
  <2> QED BY <1>2 DEF CheckAccountHalts
<1>6. n >= MaxConsecutiveLosses =>
        \E i \in n - MaxConsecutiveLosses + 1..n : trades[i].net > 0
  BY <1>4, <1>5, WinInStreak, RiskAssumption DEF AccountInv
<1>7. (top - equity) * D < MaxDrawdown * top
  <2>1. D \in Int /\ MaxDrawdown \in Int /\ MaxDrawdown <= D
    BY UnitType, RiskAssumption
  <2> HIDE DEF account, top, equity
  <2>2. ~((account.peak - equity) * D >= MaxDrawdown * account.peak)
    BY <1>4, <1>5 DEF DrawdownReached
  <2>3. (account.peak - equity) * D \in Int /\ MaxDrawdown * account.peak \in Int
    BY <1>4, <2>1
  <2>4. (account.peak - equity) * D < MaxDrawdown * account.peak BY <2>2, <2>3
  <2>5. account.peak \in Int /\ top \in Int /\ top <= account.peak /\ equity \in Int
    BY <1>4
  <2>6. (account.peak - equity) * D < MaxDrawdown * account.peak BY <1>4, <2>4
  <2> HIDE <1>4
  <2> QED BY <2>1, <2>5, <2>6, LowerPeak
<1>8. exit = NoPrice \/ now - exit >= Cooldown
  <2>1. exit \in OptInt /\ now \in Int /\ Cooldown \in Int
    BY TypeFacts, LastExitType, RiskAssumption DEF AccountInv
  <2> HIDE DEF exit
  <2>2. CASE exit \in Int
    <3>1. now - exit \in Int /\ now - exit # NoPrice BY <2>1, <2>2, FillsAssumption
    <3> QED BY <1>2, <2>1, <2>2, <3>1, FillsAssumption
  <2> QED BY <2>1, <2>2 DEF OptInt
<1> QED BY <1>3, <1>6, <1>7, <1>8

\* Of handlers that commit only what is still true, no entry is committed to a
\* ledger that shows a full losing streak, the drawdown limit or an exit within
\* the cooldown.
THEOREM ValidatedEntryRespectsLedger == ValidatedSpec => EntryRespectsLedger
<1>1. AccountInv /\ AccountInv' /\ [ValidatedNext]_vars =>
        [Entered =>
           LET n      == Len(trades)
               equity == InitialBalance + Realised(n)
                           - SumRows([id \in OpenIds |-> positions[id].fees])
               symbol == positions'[Len(positions')].symbol
               exit   == LastExit(symbol, n)
           IN  /\ n >= MaxConsecutiveLosses =>
                    \E i \in n - MaxConsecutiveLosses + 1..n : trades[i].net > 0
               /\ (Max({InitialBalance, peak}) - equity) * D
                    < MaxDrawdown * Max({InitialBalance, peak})
               /\ exit = NoPrice \/ now - exit >= Cooldown]_vars
  BY EntryRespects
<1> QED BY <1>1, AccountInit, AccountStep, PTL DEF ValidatedSpec, EntryRespectsLedger

-----------------------------------------------------------------------------
(* Handlers that do not overlap (SerialSpec).  What a handler in flight has *)
(* read is what the tables hold, so that every commit is a validated one.   *)

AloneInFlight ==
  /\ \A p, q \in Procs : proc[p].pc # "idle" /\ proc[q].pc # "idle" => p = q
  /\ \A c \in Clients : proc[c].pc # "idle" => tick.pc = "idle"

\* Each SELECT a handler is past gave it the rows that are there.
UpToDate(r) ==
  /\ r.pc \in {"openRows", "openPeak", "openFill", "closeRows", "closePeak",
               "closeFill", "markRows", "markPeak"} => r.view.trades = Len(trades)
  /\ r.pc \in {"openPeak", "openFill", "closePeak", "closeFill", "markPeak"} =>
       r.view.rows = OpenRows
  /\ r.pc \in {"openFill", "closeFill"} => r.view.peak = peak
  /\ r.pc \in {"closeTrades", "closeRows", "closePeak", "closeFill"} =>
       r.row \in OpenIds /\ positions[r.row].symbol = r.symbol

ReadsCurrent == \A p \in Procs : UpToDate(proc[p])

\* At most one handler moves on; others are at most reset by a restart.
LEMMA OneMoves ==
  ASSUME TypeOK, [Next]_vars
  PROVE  \E p \in Procs :
           /\ \A q \in Procs \ {p} : proc'[q] \in {proc[q], Idle}
           /\ p \in Clients /\ proc'[p] \notin {proc[p], Idle} => UNCHANGED tick
<1>1. ASSUME NEW p \in Procs, NEW r, Await(p, r)
      PROVE  \A q \in Procs : proc'[q] = IF q = p THEN r ELSE proc[q]
  BY <1>1 DEF Await, TypeOK
<1>2. Monitor \in Procs /\ Monitor \notin Clients /\ Clients \subseteq Procs
  BY AccountAssumption DEF Procs
<1>3. ASSUME NEW c \in Clients, Opens(c) \/ RequestClose(c) \/ RequestFails(c)
      PROVE  UNCHANGED tick /\ \E r : Await(c, r)
  <2>1. UNCHANGED tick
    BY <1>3 DEF Opens, RequestOpen, OpenSelectRows, OpenSelectPeak, OpenFill, OpenRefused,
                RequestClose, RequestFails
  <2>2. \E r : Await(c, r)
    BY <1>3 DEF Opens, RequestOpen, OpenSelectRows, OpenSelectPeak, OpenFill, OpenRefused,
                RequestClose, RequestFails, CloseSelectRow, SelectRows, SelectPeak,
                Reply, Await
  <2> QED BY <2>1, <2>2
<1>4. ASSUME NEW p \in Procs, Closes(p)
      PROVE  \E r : Await(p, r) /\ (UNCHANGED tick \/ r = Idle)
  BY <1>4 DEF Closes, CloseSelectTrades, CloseSelectRows, CloseSelectPeak, CloseFill,
              CloseRefused, SelectTrades, SelectRows, SelectPeak, Reply, Await
<1>5. ASSUME NEW id \in DOMAIN tick.rows, Checks(id)
      PROVE  UNCHANGED proc \/ \E r : Await(Monitor, r)
  BY <1>5 DEF Checks, MonitorTrail, MonitorExit, MonitorAborts, MonitorTickerFails,
              CloseSelectRow
<1>6. CASE UNCHANGED proc \/ \E r : Await(Monitor, r) BY <1>1, <1>2, <1>6
<1>7. CASE MonitorLoad \/ MonitorCommit \/ MonitorSelectTrades \/ MonitorSelectRows
             \/ MonitorMark
  <2>1. UNCHANGED proc \/ \E r : Await(Monitor, r)
    BY <1>7 DEF MonitorLoad, MonitorCommit, MonitorSelectTrades, MonitorSelectRows,
                MonitorMark, SelectTrades, SelectRows, Reply, Await
  <2> QED BY <1>6, <2>1
<1>8. CASE MarketMoves \/ TimePasses \/ EngineStateSet \/ UNCHANGED vars
  <2>1. UNCHANGED proc BY <1>8 DEF MarketMoves, TimePasses, EngineStateSet, vars
  <2> QED BY <1>6, <2>1
<1>9. CASE Restart BY <1>2, <1>9 DEF Restart
<1>10. CASE \E c \in Clients : Opens(c) \/ RequestClose(c) \/ RequestFails(c)
  <2>1. PICK c \in Clients : Opens(c) \/ RequestClose(c) \/ RequestFails(c) BY <1>10
  <2>2. UNCHANGED tick /\ \E r : Await(c, r) BY <1>3, <2>1
  <2>3. c \in Procs /\ \A q \in Procs \ {c} : proc'[q] = proc[q] BY <1>1, <1>2, <2>2
  <2> QED BY <2>2, <2>3
<1>11. CASE \E p \in Procs : Closes(p)
  <2>1. PICK p \in Procs : Closes(p) BY <1>11
  <2>2. PICK r : Await(p, r) /\ (UNCHANGED tick \/ r = Idle) BY <1>4, <2>1
  <2>3. proc'[p] = r /\ \A q \in Procs \ {p} : proc'[q] = proc[q] BY <1>1, <2>2
  <2> QED BY <2>2, <2>3
<1>12. CASE \E id \in DOMAIN tick.rows : Checks(id) BY <1>5, <1>6, <1>12
<1> QED BY <1>7, <1>8, <1>9, <1>10, <1>11, <1>12 DEF Next

LEMMA AloneStep ==
  ASSUME TypeOK, AloneInFlight, [SerialNext]_vars
  PROVE  AloneInFlight'
<1>1. CASE UNCHANGED vars BY <1>1 DEF vars, AloneInFlight
<1>2. CASE SerialNext
  <2>1. PICK p \in Procs :
          /\ \A q \in Procs \ {p} : proc'[q] \in {proc[q], Idle}
          /\ p \in Clients /\ proc'[p] \notin {proc[p], Idle} => UNCHANGED tick
    BY <1>2, OneMoves DEF SerialNext
  <2>2. /\ \A q \in Procs : proc'[q] # proc[q] => Alone(q) \/ proc'[q] = Idle
        /\ tick' # tick => Alone(Monitor) \/ tick' = NoTick
    BY <1>2 DEF SerialNext, SerialStep
  <2>3. Idle.pc = "idle" /\ NoTick.pc = "idle" BY DEF Idle, NoTick
  <2>4. Clients \subseteq Procs /\ Monitor \notin Clients
    BY AccountAssumption DEF Procs
  <2>5. ASSUME NEW q \in Procs, proc'[q].pc # "idle", q # p
        PROVE  proc'[q] = proc[q] /\ proc'[p] \in {proc[p], Idle}
    BY <2>1, <2>2, <2>3, <2>5 DEF Alone
  <2>6. \A q, s \in Procs : proc'[q].pc # "idle" /\ proc'[s].pc # "idle" => q = s
    <3> SUFFICES ASSUME NEW q \in Procs, NEW s \in Procs, q # s,
                        proc'[q].pc # "idle", proc'[s].pc # "idle"
                 PROVE  FALSE
      OBVIOUS
    <3>1. proc'[q] = proc[q] /\ proc'[s] = proc[s] BY <2>3, <2>5
    <3> QED BY <3>1 DEF AloneInFlight
  <2>7. ASSUME NEW c \in Clients, proc'[c].pc # "idle" PROVE tick'.pc = "idle"
    <3>1. CASE proc'[c] = proc[c]
      <4>1. tick.pc = "idle" /\ ~Alone(Monitor)
        BY <2>4, <2>7, <3>1 DEF AloneInFlight, Alone
      <4> QED BY <2>2, <2>3, <4>1
    <3>2. CASE proc'[c] # proc[c]
      <4>1. tick.pc = "idle" BY <2>2, <2>3, <2>4, <2>7, <3>2 DEF Alone
      <4>2. UNCHANGED tick BY <2>1, <2>3, <2>4, <2>7, <3>2
      <4> QED BY <4>1, <4>2
    <3> QED BY <3>1, <3>2
  <2> QED BY <2>6, <2>7 DEF AloneInFlight
<1> QED BY <1>1, <1>2

\* When no handler is in flight there is nothing to be out of date.
LEMMA IdleCurrent ==
  ASSUME \A p \in Procs : proc'[p].pc = "idle"
  PROVE  ReadsCurrent'
BY DEF ReadsCurrent, UpToDate

\* A handler that goes on to r while the tables stay.
LEMMA CurrentKept ==
  ASSUME TypeOK, ReadsCurrent, UNCHANGED <<positions, trades, peak>>,
         NEW p \in Procs, NEW r, Await(p, r), UpToDate(r)
  PROVE  ReadsCurrent'
<1>1. \A q \in Procs : proc'[q] = IF q = p THEN r ELSE proc[q]
  BY DEF Await, TypeOK
<1>2. ASSUME NEW q \in Procs PROVE UpToDate(proc[q])'
  <2>1. UpToDate(proc'[q]) BY <1>1 DEF ReadsCurrent
  <2> QED BY <2>1 DEF UpToDate, OpenRows, OpenIds
<1> QED BY <1>2 DEF ReadsCurrent

\* The commits, each made by the only handler in flight.
LEMMA CommitLeavesIdle ==
  ASSUME TypeOK, AloneInFlight,
         \/ \E p \in Procs : proc[p].pc # "idle" /\ Reply(p)
         \/ MonitorCommit /\ SerialStep
  PROVE  \A q \in Procs : proc'[q].pc = "idle"
<1>1. Idle.pc = "idle" BY DEF Idle
<1>2. CASE \E p \in Procs : proc[p].pc # "idle" /\ Reply(p)
  <2>1. PICK p \in Procs : proc[p].pc # "idle" /\ Reply(p) BY <1>2
  <2>2. \A q \in Procs : proc'[q] = IF q = p THEN Idle ELSE proc[q]
    BY <2>1 DEF Reply, TypeOK
  <2> QED BY <1>1, <2>1, <2>2 DEF AloneInFlight
<1>3. CASE MonitorCommit /\ SerialStep
  <2>1. UNCHANGED proc /\ tick.pc = "checking" /\ proc[Monitor].pc = "idle"
    BY <1>3 DEF MonitorCommit, MonitorRuns
  <2>2. \A c \in Clients : proc[c].pc = "idle" BY <2>1 DEF AloneInFlight
  <2> QED BY <2>1, <2>2 DEF Procs
<1> QED BY <1>2, <1>3

\* A close that starts has found the row it is to close.
LEMMA CloseStartsCurrent ==
  ASSUME TypeOK, ReadsCurrent, UNCHANGED <<positions, trades, peak>>,
         NEW p \in Procs, NEW symbol, NEW ref, CloseSelectRow(p, symbol, ref)
  PROVE  ReadsCurrent'
<1>1. PICK id \in OpenIn(symbol) :
        Await(p, [Idle EXCEPT !.pc = "closeTrades", !.symbol = symbol, !.row = id,
                              !.ref = ref])
  BY DEF CloseSelectRow
<1> DEFINE r == [Idle EXCEPT !.pc = "closeTrades", !.symbol = symbol, !.row = id,
                             !.ref = ref]
<1>2. r.pc = "closeTrades" /\ r.symbol = symbol /\ r.row = id BY DEF Idle
<1> HIDE DEF r
<1>3. UpToDate(r) BY <1>2 DEF UpToDate, OpenIn
<1> QED BY <1>1, <1>3, CurrentKept DEF r

LEMMA SelectsCurrent ==
  ASSUME TypeOK, ReadsCurrent, UNCHANGED <<positions, trades, peak>>,
         NEW p \in Procs,
         \/ CloseSelectTrades(p) \/ CloseSelectRows(p) \/ CloseSelectPeak(p)
         \/ OpenSelectRows(p)
         \/ p = Monitor /\ (MonitorSelectTrades \/ MonitorSelectRows)
         \/ proc[p].pc = "openPeak" /\ SelectPeak(p, "openFill")
  PROVE  ReadsCurrent'
<1> USE DEF SameRequest
<1>0. UpToDate(proc[p]) BY DEF ReadsCurrent
<1> SUFFICES \E r : Await(p, r) /\ UpToDate(r) BY CurrentKept
<1>1. CASE CloseSelectTrades(p)
  <2>1. PICK r : Await(p, r) /\ SameRequest(r, proc[p]) /\ r.pc = "closeRows"
                 /\ r.view.trades = Len(trades)
    BY <1>1, SelectEffect DEF CloseSelectTrades
  <2>2. UpToDate(r) BY <1>0, <1>1, <2>1 DEF UpToDate, CloseSelectTrades
  <2> QED BY <2>1, <2>2
<1>2. CASE CloseSelectRows(p)
  <2>1. PICK r : Await(p, r) /\ SameRequest(r, proc[p]) /\ r.pc = "closePeak"
                 /\ r.view.trades = proc[p].view.trades /\ r.view.rows = OpenRows
    BY <1>2, SelectEffect DEF CloseSelectRows
  <2>2. UpToDate(r) BY <1>0, <1>2, <2>1 DEF UpToDate, CloseSelectRows
  <2> QED BY <2>1, <2>2
<1>3. CASE CloseSelectPeak(p)
  <2>1. PICK r : Await(p, r) /\ SameRequest(r, proc[p]) /\ r.pc = "closeFill"
                 /\ r.view.trades = proc[p].view.trades
                 /\ r.view.rows = proc[p].view.rows /\ r.view.peak = peak
    BY <1>3, SelectEffect DEF CloseSelectPeak
  <2>2. UpToDate(r) BY <1>0, <1>3, <2>1 DEF UpToDate, CloseSelectPeak
  <2> QED BY <2>1, <2>2
<1>4. CASE OpenSelectRows(p)
  <2>1. PICK r : Await(p, r) /\ SameRequest(r, proc[p]) /\ r.pc = "openPeak"
                 /\ r.view.trades = proc[p].view.trades /\ r.view.rows = OpenRows
    BY <1>4, SelectEffect DEF OpenSelectRows
  <2>2. UpToDate(r) BY <1>0, <1>4, <2>1 DEF UpToDate, OpenSelectRows
  <2> QED BY <2>1, <2>2
<1>5. CASE p = Monitor /\ MonitorSelectTrades
  <2>1. SelectTrades(p, "markRows") BY <1>5 DEF MonitorSelectTrades
  <2>2. PICK r : Await(p, r) /\ r.pc = "markRows" /\ r.view.trades = Len(trades)
    BY <2>1, SelectEffect
  <2>3. UpToDate(r) BY <2>2 DEF UpToDate
  <2> QED BY <2>2, <2>3
<1>6. CASE p = Monitor /\ MonitorSelectRows
  <2>1. SelectRows(p, "markPeak") /\ proc[p].pc = "markRows"
    BY <1>6 DEF MonitorSelectRows
  <2>2. PICK r : Await(p, r) /\ r.pc = "markPeak"
                 /\ r.view.trades = proc[p].view.trades /\ r.view.rows = OpenRows
    BY <2>1, SelectEffect
  <2>3. UpToDate(r) BY <1>0, <2>1, <2>2 DEF UpToDate
  <2> QED BY <2>2, <2>3
<1>7. CASE proc[p].pc = "openPeak" /\ SelectPeak(p, "openFill")
  <2>1. PICK r : Await(p, r) /\ SameRequest(r, proc[p]) /\ r.pc = "openFill"
                 /\ r.view.trades = proc[p].view.trades
                 /\ r.view.rows = proc[p].view.rows /\ r.view.peak = peak
    BY <1>7, SelectEffect
  <2>2. UpToDate(r) BY <1>0, <1>7, <2>1 DEF UpToDate
  <2> QED BY <2>1, <2>2
<1> QED BY <1>1, <1>2, <1>3, <1>4, <1>5, <1>6, <1>7

LEMMA ReadsCurrentStep ==
  ASSUME TypeOK, AloneInFlight, ReadsCurrent, [SerialNext]_vars
  PROVE  ReadsCurrent'
<1>1. ASSUME UNCHANGED <<positions, trades, peak>>, UNCHANGED proc
      PROVE  ReadsCurrent'
  BY <1>1 DEF ReadsCurrent, UpToDate, OpenRows, OpenIds
<1>2. UpToDate(Idle) BY DEF UpToDate, Idle
<1>3. ASSUME NEW p \in Procs, Reply(p), UNCHANGED <<positions, trades, peak>>
      PROVE  ReadsCurrent'
  <2>1. Await(p, Idle) BY <1>3 DEF Reply, Await
  <2> QED BY <1>2, <1>3, <2>1, CurrentKept
<1>4. ASSUME NEW c \in Clients, Opens(c) \/ RequestClose(c) \/ RequestFails(c)
      PROVE  ReadsCurrent'
  <2>1. c \in Procs BY DEF Procs
  <2>2. CASE OpenFill(c)
    <3>1. proc[c].pc # "idle" /\ Reply(c) BY <2>2 DEF OpenFill
    <3> QED BY <2>1, <3>1, CommitLeavesIdle, IdleCurrent
  <2>3. CASE ~OpenFill(c)
    <3>1. UNCHANGED <<positions, trades, peak>>
      BY <1>4, <2>3 DEF Opens, RequestOpen, OpenSelectRows, OpenSelectPeak, OpenRefused,
                        RequestClose, RequestFails, ledger
    <3>2. CASE Reply(c) BY <1>3, <2>1, <3>1, <3>2
    <3>3. CASE RequestOpen(c)
      <4>1. PICK s \in Symbols, plan \in Plans :
              Await(c, [Idle EXCEPT !.pc = "openRows", !.symbol = s, !.plan = plan,
                                    !.view.trades = Len(trades)])
        BY <3>3 DEF RequestOpen
      <4> DEFINE r == [Idle EXCEPT !.pc = "openRows", !.symbol = s, !.plan = plan,
                                   !.view.trades = Len(trades)]
      <4>2. r.pc = "openRows" /\ r.view.trades = Len(trades) BY DEF Idle, NoView
      <4>3. PICK next : Await(c, next) /\ next.pc = "openRows"
                        /\ next.view.trades = Len(trades)
        BY <4>1, <4>2
      <4>4. UpToDate(next) BY <4>3 DEF UpToDate
      <4> QED BY <2>1, <3>1, <4>3, <4>4, CurrentKept
    <3>4. CASE RequestClose(c)
      BY <2>1, <3>1, <3>4, CloseStartsCurrent DEF RequestClose
    <3>5. CASE OpenSelectRows(c) BY <2>1, <3>1, <3>5, SelectsCurrent
    <3>6. CASE OpenSelectPeak(c) /\ ~Reply(c)
      <4>1. proc[c].pc = "openPeak" /\ SelectPeak(c, "openFill")
        BY <3>6 DEF OpenSelectPeak
      <4> QED BY <2>1, <3>1, <4>1, SelectsCurrent
    <3> QED BY <1>4, <2>3, <3>2, <3>3, <3>4, <3>5, <3>6
            DEF Opens, OpenRefused, RequestFails
  <2> QED BY <2>2, <2>3
<1>5. ASSUME NEW p \in Procs, Closes(p) PROVE ReadsCurrent'
  <2>1. CASE CloseFill(p)
    <3>1. proc[p].pc # "idle" /\ Reply(p) BY <2>1 DEF CloseFill
    <3> QED BY <3>1, CommitLeavesIdle, IdleCurrent
  <2>2. CASE ~CloseFill(p)
    <3>1. UNCHANGED <<positions, trades, peak>>
      BY <1>5, <2>2 DEF Closes, CloseSelectTrades, CloseSelectRows, CloseSelectPeak,
                        CloseRefused, ledger
    <3>2. CASE CloseRefused(p) BY <1>3, <3>1, <3>2 DEF CloseRefused
    <3> QED BY <1>5, <2>2, <3>1, <3>2, SelectsCurrent DEF Closes
  <2> QED BY <2>1, <2>2
<1>6. Monitor \in Procs BY DEF Procs
<1>7. ASSUME NEW id \in DOMAIN tick.rows, Checks(id) PROVE ReadsCurrent'
  <2>1. UNCHANGED <<positions, trades, peak>>
    BY <1>7 DEF Checks, MonitorTrail, MonitorExit, MonitorAborts, MonitorTickerFails, ledger
  <2>2. \/ UNCHANGED proc
        \/ \E symbol, ref : CloseSelectRow(Monitor, symbol, ref)
    BY <1>7 DEF Checks, MonitorTrail, MonitorExit, MonitorAborts, MonitorTickerFails
  <2> QED BY <1>1, <1>6, <2>1, <2>2, CloseStartsCurrent
<1>8. CASE MonitorLoad \/ MarketMoves \/ TimePasses \/ EngineStateSet \/ UNCHANGED vars
  <2>1. UNCHANGED <<positions, trades, peak>> /\ UNCHANGED proc
    BY <1>8 DEF MonitorLoad, MarketMoves, TimePasses, EngineStateSet, vars, ledger
  <2> QED BY <1>1, <2>1
<1>9. CASE MonitorSelectTrades \/ MonitorSelectRows
  <2>1. UNCHANGED <<positions, trades, peak>>
    BY <1>9 DEF MonitorSelectTrades, MonitorSelectRows, ledger
  <2> QED BY <1>6, <1>9, <2>1, SelectsCurrent
<1>10. CASE MonitorMark
  <2>1. proc[Monitor].pc # "idle" /\ Reply(Monitor) BY <1>10 DEF MonitorMark
  <2> QED BY <1>6, <2>1, CommitLeavesIdle, IdleCurrent
<1>11. CASE MonitorCommit /\ SerialStep BY <1>11, CommitLeavesIdle, IdleCurrent
<1>12. CASE Restart
  <2>1. \A p \in Procs : proc'[p].pc = "idle" BY <1>12 DEF Restart, Idle
  <2> QED BY <2>1, IdleCurrent
<1> QED BY <1>4, <1>5, <1>7, <1>8, <1>9, <1>10, <1>11, <1>12 DEF SerialNext, Next

SerialInv == TypeOK /\ AloneInFlight /\ ReadsCurrent

\* Handlers that do not overlap commit only what is still true: the check at the
\* commit is needed for overlapping handlers alone.
THEOREM SerialIsValidated == SerialSpec => ValidatedSpec
<1>1. Init => SerialInv
  <2> SUFFICES ASSUME Init PROVE SerialInv OBVIOUS
  <2>1. \A p \in Procs : proc[p].pc = "idle" BY DEF Init, Idle
  <2>2. AloneInFlight BY <2>1 DEF AloneInFlight, Procs
  <2>3. ReadsCurrent BY <2>1 DEF ReadsCurrent, UpToDate
  <2> QED BY <2>2, <2>3, TypeInit DEF SerialInv
<1>2. SerialInv /\ [SerialNext]_vars => SerialInv'
  BY TypeNext, AloneStep, ReadsCurrentStep DEF SerialInv, SerialNext
<1>3. SerialInv /\ [SerialNext]_vars => [ValidatedNext]_vars
  BY DEF SerialInv, SerialNext, ValidatedNext, ValidatedStep, ReadsCurrent, UpToDate,
         Current
<1> QED BY <1>1, <1>2, <1>3, PTL DEF SerialSpec, ValidatedSpec

\* When handlers do not overlap there are never more open positions than
\* max_simultaneous_positions.
THEOREM SerialWithinMax == SerialSpec => []WithinMaxPositions
BY SerialIsValidated, ValidatedWithinMax

\* Every behaviour of handlers that do not overlap is one of the ledger.
THEOREM SerialAccountIsLedger == SerialSpec => ImplementsLedger
BY SerialIsValidated, ValidatedAccountIsLedger

\* When handlers do not overlap, no entry is committed to a ledger that shows a
\* full losing streak, the drawdown limit or an exit within the cooldown.
THEOREM SerialEntryRespectsLedger == SerialSpec => EntryRespectsLedger
BY SerialIsValidated, ValidatedEntryRespectsLedger
=============================================================================
