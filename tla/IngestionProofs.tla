-------------------------- MODULE IngestionProofs ---------------------------
(***************************************************************************)
(* What a backfill, the market stream and the requests leave in the        *)
(* tables, for all pairs, page sizes and horizons.  None of the invariants *)
(* is inductive alone: each rests on what a handler between two awaits may *)
(* still believe of the tables (HandlerOK), and on the locks of the rows   *)
(* it has upserted (LocksDisjoint).                                        *)
(***************************************************************************)
EXTENDS Ingestion, FiniteSetTheorems, WellFoundedInduction, TLAPS

\* A non-empty set of naturals has a least element.
LEMMA LeastElement ==
  ASSUME NEW T, T \subseteq Nat, T # {}
  PROVE  \E m \in T : \A k \in T : m <= k
<1> DEFINE R == {ss \in Nat \X Nat : ss[1] < ss[2]}
<1>1. IsWellFoundedOn(R, Nat) BY NatLessThanWellFounded DEF OpToRel
<1>2. \A k, m \in T : <<k, m>> \notin R => m <= k OBVIOUS
<1> HIDE DEF R
<1> QED BY <1>1, <1>2, WFMin, Zenon

Uncommitted == {"metadata", "commit"}

PcOf(p) ==
  CASE p = Backfill -> {"idle", "fetch", "receive", "upsert", "metadata", "commit", "load",
                        "features"}
    [] p = Stream   -> {"idle", "metadata", "commit", "load", "features"}
    [] p = Api      -> {"idle", "load", "features", "checkMetadata", "check"}

\* The candle before k is stored or about to be, or k came from the stream.
Follows(k, pair, page) ==
  k = 1 \/ k - 1 \in page \cup candles[pair] \/ k \in heard[pair]

\* The candles a handler holds exist.
InView(r) ==
  IF r.pc = "idle" THEN r = Idle
  ELSE /\ r.pair \in Pairs
       /\ r.partial \subseteq r.page
       /\ r.seen \subseteq Past(r.pair)
       /\ r.page \subseteq IF r.pc = "receive" THEN Listed(r.pair) ELSE Past(r.pair)

\* What handler p, between two awaits, knows of the tables.
HandlerOK(p, r) ==
  /\ r \in HandlerType /\ r.pc \in PcOf(p) /\ InView(r)
  /\ r.pc \in {"fetch", "receive"} => r.pages < MaxPages
  /\ r.pc = "fetch" => r.start # 0 /\ (r.start = 1 \/ r.start - 1 \in candles[r.pair])
  /\ r.pc = "receive" => \A k \in r.page : k = 1 \/ k - 1 \in r.page \cup candles[r.pair]
  /\ r.pc \in Uncommitted \cup {"upsert"} =>
       /\ r.page # {} /\ \A k \in r.page : Follows(k, r.pair, r.page)
  /\ r.pc \in Uncommitted => /\ r.fresh \subseteq r.page
                             /\ r.fresh \cap candles[r.pair] = {}
  /\ r.pc \in {"commit", "check"} /\ r.read # NoRow =>
       /\ metadata[r.pair] # NoRow
       /\ r.read.count <= Cardinality(candles[r.pair])
  /\ r.pc \in {"features", "checkMetadata", "check"} =>
       r.seen # {} /\ r.seen \subseteq candles[r.pair]
  /\ r.pc = "check" => r.read # NoRow

LocksDisjoint ==
  \A p, q \in Procs :
    /\ p # q /\ {proc[p].pc, proc[q].pc} \subseteq Uncommitted
    /\ proc[p].pair = proc[q].pair
    => proc[p].page \cap proc[q].page = {}

\* There is a metadata row where there are candles.
RowsWithCandles == \A pair \in Pairs : candles[pair] # {} => metadata[pair] # NoRow

\* What TypeOK says of the tables and of the exchange.
TablesTyped ==
  /\ closed \in [Pairs -> Nat] /\ heard \in [Pairs -> SUBSET Nat]
  /\ candles \in [Pairs -> SUBSET Nat] /\ features \in [Pairs -> SUBSET Nat]
  /\ metadata \in [Pairs -> RowType]
  /\ \A pair \in Pairs : /\ closed[pair] <= Horizon[pair]
                         /\ heard[pair] \subseteq Closed(pair)
                         /\ candles[pair] \subseteq Past(pair)
                         /\ features[pair] \subseteq candles[pair]

TablesOK ==
  /\ OnlyLiveCandlesLeaveHoles /\ ResumePointIsStored /\ CountNeverExceeds
  /\ RowsWithCandles

IInv ==
  /\ TypeOK /\ TablesOK /\ LocksDisjoint
  /\ \A p \in Procs : HandlerOK(p, proc[p])

LEMMA TypeParts ==
  /\ TypeOK => TablesTyped /\ proc \in [Procs -> HandlerType] /\ job \in JobType
  /\ /\ TablesTyped /\ proc \in [Procs -> HandlerType] /\ job \in JobType
     /\ \A p \in Procs : HandlerOK(p, proc[p])
     => TypeOK
BY DEF TypeOK, TablesTyped, HandlerOK, InView

LEMMA TypePartsNext ==
  ASSUME TablesTyped', proc' \in [Procs -> HandlerType], job' \in JobType,
         \A p \in Procs : HandlerOK(p, proc[p])'
  PROVE  TypeOK'
BY DEF TypeOK, TablesTyped, HandlerOK, InView

\* The candles the corrected clock may be past are 1..n for a natural n.
LEMMA PastIsInterval ==
  ASSUME IInv, NEW pair \in Pairs
  PROVE  /\ closed[pair] \in Nat /\ closed[pair] + Ahead \in Nat
         /\ Past(pair) = 1..closed[pair] + Ahead
         /\ candles[pair] \subseteq Past(pair)
BY IngestionAssumption DEF IInv, TypeOK, Past

-----------------------------------------------------------------------------
(* Sets of candles.                                                        *)

LEMMA Counted ==
  ASSUME NEW n \in Nat, NEW T, T \subseteq 1..n
  PROVE  /\ IsFiniteSet(T) /\ Cardinality(T) \in Nat
         /\ \A S : S \subseteq T => Cardinality(S) <= Cardinality(T)
<1>1. IsFiniteSet(1..n) BY FS_Interval
<1>2. IsFiniteSet(T) BY <1>1, FS_Subset
<1>3. Cardinality(T) \in Nat BY <1>2, FS_CardinalityType
<1>4. ASSUME NEW S, S \subseteq T PROVE Cardinality(S) <= Cardinality(T)
  BY <1>2, <1>4, FS_Subset
<1> QED BY <1>2, <1>3, <1>4

LEMMA CountedTogether ==
  ASSUME NEW n \in Nat, NEW S, NEW T, S \cup T \subseteq 1..n, S \cap T = {}
  PROVE  Cardinality(S \cup T) = Cardinality(S) + Cardinality(T)
<1>1. IsFiniteSet(S) /\ IsFiniteSet(T) BY Counted
<1>2. Cardinality(S) \in Nat /\ Cardinality(T) \in Nat BY <1>1, FS_CardinalityType
<1>3. Cardinality(S \cap T) = 0 BY FS_EmptySet
<1>4. Cardinality(S \cup T) = Cardinality(S) + Cardinality(T) - Cardinality(S \cap T)
  BY <1>1, FS_Union
<1> QED BY <1>2, <1>3, <1>4

LEMMA Extremes ==
  ASSUME NEW n \in Nat, NEW T, T \subseteq 1..n, T # {}
  PROVE  /\ Min(T) \in T /\ \A k \in T : Min(T) <= k
         /\ Max(T) \in T /\ \A k \in T : k <= Max(T)
<1>1. \E m \in T : \A k \in T : m <= k
  <2>1. T \subseteq Nat OBVIOUS
  <2> QED BY <2>1, LeastElement
<1>2. \E m \in T : \A k \in T : m >= k
  <2> DEFINE U == {u \in 0..n : \A k \in T : k <= u}
  <2>1. n \in U OBVIOUS
  <2>2. U \subseteq Nat /\ U # {} BY <2>1
  <2>3. PICK u \in U : \A v \in U : u <= v
    <3> HIDE DEF U
    <3> QED BY <2>2, LeastElement
  <2>4. u \in T
    <3>1. SUFFICES ASSUME u \notin T PROVE FALSE OBVIOUS
    <3>2. PICK t \in T : TRUE OBVIOUS
    <3>3. t \in Nat /\ t # 0 /\ t <= u BY <2>3
    <3>4. u - 1 \in U
      <4>1. ASSUME NEW k \in T PROVE k <= u - 1 BY <3>1, <2>3
      <4> QED BY <3>3, <4>1
    <3> QED BY <3>3, <3>4, <2>3
  <2> QED BY <2>4, <2>3
<1> QED BY <1>1, <1>2 DEF Min, Max

-----------------------------------------------------------------------------
(* The row a commit writes.                                                *)

\* Whatever was read before the await, the row written names stored candles and
\* counts no more of them than there are.
LEMMA WrittenIsTrue ==
  ASSUME NEW n \in Nat, NEW stored, NEW r, NEW now \in RowType,
         stored \cup r.page \subseteq 1..n, r.page # {},
         r.fresh \subseteq r.page, r.fresh \cap stored = {},
         r.read \in RowType, now = NoRow => r.read = NoRow,
         r.read = NoRow => now = NoRow /\ stored = {},
         r.read # NoRow => r.read.count <= Cardinality(stored),
         now # NoRow => /\ {now.first, now.last} \subseteq stored
                        /\ now.count <= Cardinality(stored)
  PROVE  LET row == Written(r, r.read, now)
         IN  /\ row \in RowType /\ row # NoRow
             /\ {row.first, row.last} \subseteq stored \cup r.page
             /\ row.count <= Cardinality(stored \cup r.page)
<1> DEFINE row == Written(r, r.read, now)
<1> DEFINE all == stored \cup r.page
<1>1. /\ Min(r.page) \in r.page /\ Max(r.page) \in r.page BY Extremes
<1>2. /\ Cardinality(all) \in Nat /\ Cardinality(stored) \in Nat
      /\ Cardinality(r.fresh) \in Nat
      /\ Cardinality(stored) + Cardinality(r.fresh) <= Cardinality(all)
      /\ Cardinality(r.fresh) <= Cardinality(all)
      /\ Cardinality(stored) <= Cardinality(all)
  <2>1. stored \subseteq 1..n /\ r.fresh \subseteq 1..n /\ all \subseteq 1..n OBVIOUS
  <2>2. Cardinality(all) \in Nat /\ Cardinality(stored) \in Nat /\ Cardinality(r.fresh) \in Nat
    BY <2>1, Counted
  <2>3. Cardinality(stored \cup r.fresh) = Cardinality(stored) + Cardinality(r.fresh)
    BY <2>1, CountedTogether
  <2>4. \A S : S \subseteq all => Cardinality(S) <= Cardinality(all) BY <2>1, Counted
  <2>5. stored \cup r.fresh \subseteq all /\ r.fresh \subseteq all /\ stored \subseteq all OBVIOUS
  <2> HIDE DEF all
  <2> QED BY <2>2, <2>3, <2>4, <2>5
<1>3. Min(r.page) \in Nat \ {0} /\ Max(r.page) \in Nat \ {0} BY <1>1
<1>4. NoRow \notin [first : Nat, last : Nat, count : Nat] BY IngestionAssumption
<1>5. CASE r.read = NoRow
  <2>1. row = [first |-> Min(r.page), last |-> Max(r.page), count |-> Cardinality(r.fresh)]
    BY <1>5 DEF Written
  <2>2. row \in [first : Nat \ {0}, last : Nat \ {0}, count : Nat] BY <2>1, <1>2, <1>3
  <2>3. row # NoRow BY <2>1, <1>2, <1>3, <1>4
  <2> QED BY <2>1, <2>2, <2>3, <1>1, <1>2 DEF RowType
<1>6. CASE r.read # NoRow
  <2>1. now # NoRow /\ now \in [first : Nat \ {0}, last : Nat \ {0}, count : Nat] BY <1>6 DEF RowType
  <2>2. r.read \in [first : Nat \ {0}, last : Nat \ {0}, count : Nat] BY <1>6 DEF RowType
  <2> DEFINE f == IF Min(r.page) < r.read.first THEN Min(r.page) ELSE now.first
  <2> DEFINE l == IF Max(r.page) > r.read.last THEN Max(r.page) ELSE now.last
  <2> DEFINE c == IF r.fresh = {} THEN now.count ELSE r.read.count + Cardinality(r.fresh)
  <2>3. row = [first |-> f, last |-> l, count |-> c] BY <1>6 DEF Written
  <2>4. f \in Nat \ {0} /\ l \in Nat \ {0} /\ f \in all /\ l \in all
    BY <2>1, <1>1, <1>3
  <2>5. c \in Nat /\ c <= Cardinality(all) BY <2>1, <2>2, <1>2, <1>6
  <2> HIDE DEF f, l, c, all
  <2>6. row \in [first : Nat \ {0}, last : Nat \ {0}, count : Nat] BY <2>3, <2>4, <2>5
  <2>7. row # NoRow BY <2>3, <2>4, <2>5, <1>4
  <2> QED BY <2>3, <2>4, <2>5, <2>6, <2>7 DEF RowType, all
<1> QED BY <1>5, <1>6
-----------------------------------------------------------------------------
(* Three kinds of step, and what each must show of the handler it moves.   *)

LEMMA ThreeHandlers ==
  Backfill # Stream /\ Backfill # Api /\ Stream # Api
<1>1. Cardinality({Backfill, Stream, Api}) = 3 BY IngestionAssumption
<1>2. \A x, y : Cardinality({x, y}) <= 2
  <2> TAKE x, y
  <2>1. IsFiniteSet({x}) /\ Cardinality({x}) = 1 BY FS_Singleton
  <2>2. Cardinality({x} \cup {y}) = IF y \in {x} THEN 1 ELSE 2
    BY <2>1, FS_AddElement
  <2>3. {x, y} = {x} \cup {y} OBVIOUS
  <2> QED BY <2>2, <2>3
<1>3. ~(3 <= 2) OBVIOUS
<1>4. ASSUME NEW x, NEW y, {Backfill, Stream, Api} = {x, y} PROVE FALSE
  <2>1. Cardinality({x, y}) = 3 BY <1>1, <1>4
  <2> QED BY <1>2, <1>3, <2>1
<1>5. /\ Backfill = Stream => {Backfill, Stream, Api} = {Stream, Api}
      /\ Backfill = Api => {Backfill, Stream, Api} = {Stream, Api}
      /\ Stream = Api => {Backfill, Stream, Api} = {Backfill, Api}
  OBVIOUS
<1> QED BY <1>4, <1>5

LEMMA PcsOf ==
  /\ PcOf(Backfill) =
       {"idle", "fetch", "receive", "upsert", "metadata", "commit", "load", "features"}
  /\ PcOf(Stream) = {"idle", "metadata", "commit", "load", "features"}
  /\ PcOf(Api) = {"idle", "load", "features", "checkMetadata", "check"}
BY ThreeHandlers DEF PcOf

LEMMA IdleOK == ASSUME NEW p \in Procs PROVE HandlerOK(p, Idle)
BY ThreeHandlers, IngestionAssumption
   DEF HandlerOK, InView, Idle, HandlerType, PcType, RowType, PcOf, Procs, Uncommitted

\* A handler has read something, or given up.
LEMMA ReadStep ==
  ASSUME IInv, NEW p \in Procs, HandlerOK(p, proc[p])',
         \A q \in Procs \ {p} : proc'[q] = proc[q],
         proc' \in [Procs -> HandlerType], job' \in JobType,
         UNCHANGED <<exchange, tables>>,
         \A q \in Procs \ {p} :
           /\ {proc'[p].pc, proc[q].pc} \subseteq Uncommitted
           /\ proc'[p].pair = proc[q].pair
           => proc'[p].page \cap proc[q].page = {}
  PROVE  IInv'
<1>1. TablesOK'
  BY DEF IInv, TablesOK, OnlyLiveCandlesLeaveHoles, ResumePointIsStored,
         CountNeverExceeds, RowsWithCandles, exchange, tables
<1>2. ASSUME NEW q \in Procs PROVE HandlerOK(q, proc[q])'
  BY DEF IInv, HandlerOK, Follows, InView, Past, Listed, exchange, tables
<1>3. LocksDisjoint'
  <2> SUFFICES ASSUME NEW q \in Procs, NEW s \in Procs, q # s,
                      {proc'[q].pc, proc'[s].pc} \subseteq Uncommitted,
                      proc'[q].pair = proc'[s].pair
               PROVE  proc'[q].page \cap proc'[s].page = {}
    BY DEF LocksDisjoint
  <2>1. CASE q = p BY <2>1
  <2>2. CASE s = p BY <2>2
  <2>3. CASE q # p /\ s # p BY <2>3 DEF IInv, LocksDisjoint
  <2> QED BY <2>1, <2>2, <2>3
<1>4. TypeOK'
  <2>1. TablesTyped'
    BY TypeParts DEF IInv, TablesTyped, Closed, Past, exchange, tables
  <2> QED BY <1>2, <2>1, TypePartsNext
<1> QED BY <1>1, <1>2, <1>3, <1>4 DEF IInv

\* A commit: the rows p holds are stored, and it lets go of them.
LEMMA CommitStep ==
  ASSUME IInv, NEW p \in Procs, CommitPage(p), HandlerOK(p, proc[p])',
         proc'[p].pc \notin Uncommitted,
         \A q \in Procs \ {p} : proc'[q] = proc[q],
         proc' \in [Procs -> HandlerType], job' \in JobType
  PROVE  IInv'
<1> DEFINE r == proc[p]
<1> DEFINE n == closed[r.pair] + Ahead
<1> DEFINE row == Written(r, r.read, metadata[r.pair])
<1>1. /\ r.pc = "commit" /\ HandlerOK(p, r) /\ r \in HandlerType
      /\ r.pair \in Pairs /\ r.page # {} /\ r.page \subseteq 1..n
      /\ r.partial \subseteq r.page /\ n \in Nat /\ candles[r.pair] \subseteq 1..n
  <2>1. /\ r.pc = "commit" /\ HandlerOK(p, r) /\ r \in HandlerType /\ r.pair \in Pairs
        /\ r.page # {} /\ r.page \subseteq Past(r.pair) /\ r.partial \subseteq r.page
    BY DEF IInv, CommitPage, HandlerOK, InView, Uncommitted
  <2> QED BY <2>1, PastIsInterval
<1>2. /\ candles' = [candles EXCEPT ![r.pair] = @ \cup r.page]
      /\ metadata' = [metadata EXCEPT ![r.pair] = row]
      /\ UNCHANGED <<exchange, features>>
  BY DEF CommitPage
<1>3. /\ row \in RowType /\ row # NoRow
      /\ {row.first, row.last} \subseteq candles[r.pair] \cup r.page
      /\ row.count <= Cardinality(candles[r.pair] \cup r.page)
  <2>1. r.read = NoRow => metadata[r.pair] = NoRow
    BY DEF CommitPage, Collides
  <2>2. r.read = NoRow => candles[r.pair] = {}
    BY <1>1, <2>1 DEF IInv, TablesOK, RowsWithCandles
  <2>3. /\ r.fresh \subseteq r.page /\ r.fresh \cap candles[r.pair] = {}
        /\ r.read \in RowType /\ metadata[r.pair] \in RowType
        /\ metadata[r.pair] = NoRow => r.read = NoRow
        /\ r.read # NoRow => r.read.count <= Cardinality(candles[r.pair])
    BY <1>1 DEF IInv, TypeOK, HandlerOK, HandlerType, Uncommitted
  <2>4. metadata[r.pair] # NoRow =>
          /\ {metadata[r.pair].first, metadata[r.pair].last} \subseteq candles[r.pair]
          /\ metadata[r.pair].count <= Cardinality(candles[r.pair])
    BY <1>1 DEF IInv, TablesOK, ResumePointIsStored, CountNeverExceeds
  <2> QED BY <1>1, <2>1, <2>2, <2>3, <2>4, WrittenIsTrue
<1>4. \A pair \in Pairs :
        /\ candles'[pair] = IF pair = r.pair THEN candles[pair] \cup r.page ELSE candles[pair]
        /\ metadata'[pair] = IF pair = r.pair THEN row ELSE metadata[pair]
        /\ closed'[pair] = closed[pair] /\ heard'[pair] = heard[pair]
        /\ features'[pair] = features[pair]
  BY <1>2 DEF IInv, TypeOK, exchange
<1> HIDE DEF row
<1>5. TablesOK'
  <2>1. OnlyLiveCandlesLeaveHoles'
    <3> SUFFICES ASSUME NEW pair \in Pairs, NEW k \in candles'[pair]
                 PROVE  k = 1 \/ k - 1 \in candles'[pair] \/ k \in heard'[pair]
      BY DEF OnlyLiveCandlesLeaveHoles
    <3>1. CASE k \in candles[pair]
      BY <3>1, <1>4 DEF IInv, TablesOK, OnlyLiveCandlesLeaveHoles
    <3>2. CASE k \notin candles[pair]
      <4>1. pair = r.pair /\ k \in r.page BY <3>2, <1>4
      <4>2. Follows(k, r.pair, r.page) BY <1>1, <4>1 DEF HandlerOK, Uncommitted
      <4> QED BY <4>1, <4>2, <1>4 DEF Follows
    <3> QED BY <3>1, <3>2
  <2>2. ResumePointIsStored'
    <3> SUFFICES ASSUME NEW pair \in Pairs, metadata'[pair] # NoRow
                 PROVE  {metadata'[pair].first, metadata'[pair].last} \subseteq candles'[pair]
      BY DEF ResumePointIsStored
    <3>1. CASE pair = r.pair BY <3>1, <1>3, <1>4
    <3>2. CASE pair # r.pair
      <4>1. candles'[pair] = candles[pair] /\ metadata'[pair] = metadata[pair]
        BY <3>2, <1>4
      <4>2. metadata[pair] # NoRow =>
              {metadata[pair].first, metadata[pair].last} \subseteq candles[pair]
        BY DEF IInv, TablesOK, ResumePointIsStored
      <4> QED BY <4>1, <4>2
    <3> QED BY <3>1, <3>2
  <2>3. CountNeverExceeds' BY <1>3, <1>4 DEF IInv, TablesOK, CountNeverExceeds
  <2>4. RowsWithCandles' BY <1>3, <1>4 DEF IInv, TablesOK, RowsWithCandles
  <2> QED BY <2>1, <2>2, <2>3, <2>4 DEF TablesOK
<1>6. ASSUME NEW q \in Procs, q # p PROVE HandlerOK(q, proc[q])'
  <2>0. PICK t : t = proc[q] OBVIOUS
  <2>1. proc'[q] = t /\ HandlerOK(q, t) BY <1>6, <2>0 DEF IInv
  <2>2. t.pair \in Pairs =>
          /\ candles[t.pair] \subseteq candles'[t.pair]
          /\ metadata[t.pair] # NoRow => metadata'[t.pair] # NoRow
          /\ Cardinality(candles[t.pair]) <= Cardinality(candles'[t.pair])
          /\ Cardinality(candles[t.pair]) \in Nat /\ Cardinality(candles'[t.pair]) \in Nat
          /\ closed'[t.pair] = closed[t.pair] /\ heard'[t.pair] = heard[t.pair]
    <3> SUFFICES ASSUME t.pair \in Pairs
                 PROVE /\ candles[t.pair] \subseteq candles'[t.pair]
                       /\ metadata[t.pair] # NoRow => metadata'[t.pair] # NoRow
                       /\ Cardinality(candles[t.pair]) <= Cardinality(candles'[t.pair])
                       /\ Cardinality(candles[t.pair]) \in Nat
                       /\ Cardinality(candles'[t.pair]) \in Nat
                       /\ closed'[t.pair] = closed[t.pair] /\ heard'[t.pair] = heard[t.pair]
      OBVIOUS
    <3>1. candles[t.pair] \subseteq candles'[t.pair] BY <1>4
    <3> DEFINE m == closed[t.pair] + Ahead
    <3>2. candles'[t.pair] \subseteq 1..m /\ m \in Nat
      <4>1. candles[t.pair] \subseteq 1..m /\ m \in Nat BY PastIsInterval
      <4>2. r.page \subseteq 1..n BY <1>1
      <4>3. candles'[t.pair] = IF t.pair = r.pair THEN candles[t.pair] \cup r.page
                               ELSE candles[t.pair]
        BY <1>4
      <4> QED BY <4>1, <4>2, <4>3
    <3>3. /\ Cardinality(candles'[t.pair]) \in Nat
          /\ \A S : S \subseteq candles'[t.pair] => Cardinality(S) <= Cardinality(candles'[t.pair])
      BY <3>2, Counted
    <3>4. Cardinality(candles[t.pair]) \in Nat BY <3>1, <3>2, Counted
    <3> QED BY <3>1, <3>3, <3>4, <1>3, <1>4
  <2>3. t.pc \in Uncommitted => t.fresh \cap candles'[t.pair] = {}
    <3>1. t.pc \in Uncommitted /\ t.pair = r.pair => t.page \cap r.page = {}
      BY <1>1, <1>6, <2>0 DEF IInv, LocksDisjoint, Uncommitted
    <3>2. t.pc \in Uncommitted => /\ t.pair \in Pairs /\ t.fresh \subseteq t.page
                                 /\ t.fresh \cap candles[t.pair] = {}
      BY <2>1 DEF HandlerOK, InView, Uncommitted
    <3> QED BY <3>1, <3>2, <1>4
  <2>4. t.read # NoRow /\ t.pair \in Pairs => t.read.count \in Nat
    BY <2>1 DEF HandlerOK, HandlerType, RowType
  <2>5. InView(t)' BY <2>1, <2>2 DEF HandlerOK, InView, Past, Listed
  <2>6. t.pc \in Uncommitted \cup {"upsert"} =>
          t.page # {} /\ \A k \in t.page : Follows(k, t.pair, t.page)'
    <3>1. t.pc \in Uncommitted \cup {"upsert"} => t.pair \in Pairs
      BY <2>1 DEF HandlerOK, InView, Uncommitted
    <3> QED BY <2>1, <2>2, <3>1 DEF HandlerOK, Follows
  <2>7. t.pc # "idle" => t.pair \in Pairs BY <2>1 DEF HandlerOK, InView
  <2>8. t.pc = "receive" => \A k \in t.page : k = 1 \/ k - 1 \in t.page \cup candles'[t.pair]
    BY <2>1, <2>2, <2>7 DEF HandlerOK
  <2>9. HandlerOK(q, t)'
    BY <2>1, <2>2, <2>3, <2>4, <2>5, <2>6, <2>7, <2>8 DEF HandlerOK, Uncommitted
  <2> QED BY <2>1, <2>9
<1>7. LocksDisjoint' BY <1>1 DEF IInv, LocksDisjoint
<1>8. TypeOK'
  <2>1. ASSUME NEW q \in Procs PROVE HandlerOK(q, proc[q])' BY <1>6
  <2>2. /\ candles' \in [Pairs -> SUBSET Nat] /\ metadata' \in [Pairs -> RowType]
        /\ features' = features /\ closed' = closed /\ heard' = heard
    BY <1>1, <1>2, <1>3 DEF IInv, TypeOK, HandlerType, exchange
  <2>3. ASSUME NEW pair \in Pairs
        PROVE  /\ closed[pair] <= Horizon[pair] /\ heard[pair] \subseteq Closed(pair)
               /\ candles'[pair] \subseteq Past(pair)
               /\ features[pair] \subseteq candles'[pair]
    <3>1. /\ closed[pair] <= Horizon[pair] /\ heard[pair] \subseteq Closed(pair)
          /\ candles[pair] \subseteq Past(pair)
          /\ features[pair] \subseteq candles[pair]
      BY DEF IInv, TypeOK
    <3>2. r.page \subseteq Past(r.pair) BY <1>1 DEF Past
    <3> HIDE DEF r
    <3> QED BY <3>1, <3>2, <1>4
  <2>4. TablesTyped'
    <3>1. /\ closed \in [Pairs -> Nat] /\ heard \in [Pairs -> SUBSET Nat]
          /\ features \in [Pairs -> SUBSET Nat]
      BY DEF IInv, TypeOK
    <3> HIDE DEF r, CommitPage
    <3> QED BY <2>2, <2>3, <3>1 DEF TablesTyped, Closed, Past
  <2> QED BY <2>1, <2>4, TypePartsNext
<1> QED BY <1>5, <1>6, <1>7, <1>8 DEF IInv

\* A handler's own view survives what leaves the tables and the exchange alone.
LEMMA TablesKept ==
  ASSUME IInv, UNCHANGED <<exchange, tables, proc>>, job' \in JobType
  PROVE  IInv'
<1>1. TypeOK' BY DEF IInv, TypeOK, Closed, Past, Listed, exchange, tables
<1>2. TablesOK' /\ LocksDisjoint'
  BY DEF IInv, TablesOK, OnlyLiveCandlesLeaveHoles, ResumePointIsStored,
         CountNeverExceeds, RowsWithCandles, LocksDisjoint, exchange, tables
<1>3. ASSUME NEW q \in Procs PROVE HandlerOK(q, proc[q])'
  BY DEF IInv, HandlerOK, Follows, InView, Past, Listed, exchange, tables
<1> QED BY <1>1, <1>2, <1>3 DEF IInv

-----------------------------------------------------------------------------
(* Reads and replies.                                                      *)

LEMMA Replies ==
  ASSUME IInv, NEW p \in Procs, Reply(p), job' \in JobType, UNCHANGED <<exchange, tables>>
  PROVE  IInv'
<1>1. proc \in [Procs -> HandlerType] BY DEF IInv, TypeOK
<1>2. /\ proc'[p] = Idle /\ Idle \in HandlerType /\ proc' \in [Procs -> HandlerType]
      /\ \A q \in Procs \ {p} : proc'[q] = proc[q]
  BY <1>1, IdleOK DEF Reply, Await, HandlerOK
<1>3. HandlerOK(p, proc[p])' BY <1>2, IdleOK DEF HandlerOK, InView, Idle, Uncommitted
<1>4. proc'[p].pc \notin Uncommitted BY <1>2 DEF Idle, Uncommitted
<1> QED BY <1>2, <1>3, <1>4, ReadStep

LEMMA SelectMetadataStep ==
  ASSUME IInv, NEW p \in Procs, SelectMetadata(p)
  PROVE  IInv'
<1> DEFINE r == proc[p]
<1> DEFINE next == [r EXCEPT !.pc = IF r.pc = "metadata" THEN "commit" ELSE "check",
                             !.read = metadata[r.pair]]
<1>1. /\ r \in HandlerType /\ HandlerOK(p, r) /\ r.pair \in Pairs
      /\ proc \in [Procs -> HandlerType] /\ r.pc \in {"metadata", "checkMetadata"}
  BY DEF IInv, TypeOK, SelectMetadata, HandlerOK, InView
<1>2. /\ metadata[r.pair] \in RowType
      /\ r.pc = "metadata" => "commit" \in PcOf(p)
      /\ r.pc = "checkMetadata" => "check" \in PcOf(p)
  BY <1>1, ThreeHandlers DEF IInv, TypeOK, HandlerOK, PcOf, Procs
<1>3. next \in HandlerType BY <1>1, <1>2 DEF HandlerType, PcType
<1>4. /\ proc'[p] = next /\ proc' \in [Procs -> HandlerType]
      /\ \A q \in Procs \ {p} : proc'[q] = proc[q]
      /\ UNCHANGED <<exchange, tables>> /\ job' \in JobType
  BY <1>1, <1>3 DEF SelectMetadata, Await, IInv, TypeOK
<1>5. metadata[r.pair] # NoRow => metadata[r.pair].count <= Cardinality(candles[r.pair])
  BY <1>1 DEF IInv, TablesOK, CountNeverExceeds
<1>6. r.pc = "checkMetadata" => metadata[r.pair] # NoRow
  BY <1>1 DEF IInv, TablesOK, RowsWithCandles, HandlerOK
<1>7. /\ next.pc = IF r.pc = "metadata" THEN "commit" ELSE "check"
      /\ next.pair = r.pair /\ next.page = r.page /\ next.fresh = r.fresh
      /\ next.read = metadata[r.pair] /\ next.seen = r.seen /\ next.partial = r.partial
  BY <1>1 DEF HandlerType
<1> HIDE DEF next
<1>8. HandlerOK(p, next)
  BY <1>1, <1>2, <1>3, <1>5, <1>6, <1>7 DEF HandlerOK, InView, Uncommitted, Follows
<1>9. HandlerOK(p, proc[p])'
  BY <1>4, <1>8 DEF HandlerOK, Follows, InView, Past, Listed, exchange, tables
<1>10. \A q \in Procs \ {p} :
         /\ {proc'[p].pc, proc[q].pc} \subseteq Uncommitted
         /\ proc'[p].pair = proc[q].pair
         => proc'[p].page \cap proc[q].page = {}
  BY <1>1, <1>4, <1>7 DEF IInv, LocksDisjoint, Uncommitted
<1> QED BY <1>4, <1>9, <1>10, ReadStep

\* A handler moves on to a state in which it holds no row.
LEMMA MovesOn ==
  ASSUME IInv, NEW p \in Procs, NEW next, Await(p, next), HandlerOK(p, next),
         next.pc \notin Uncommitted, job' \in JobType, UNCHANGED <<exchange, tables>>
  PROVE  IInv'
<1>1. /\ proc'[p] = next /\ proc' \in [Procs -> HandlerType]
      /\ \A q \in Procs \ {p} : proc'[q] = proc[q]
  BY DEF Await, IInv, TypeOK, HandlerOK
<1>2. HandlerOK(p, proc[p])'
  BY <1>1 DEF HandlerOK, Follows, InView, Past, Listed, exchange, tables
<1> QED BY <1>1, <1>2, ReadStep

LEMMA LoadCandlesStep ==
  ASSUME IInv, NEW p \in Procs, LoadCandles(p)
  PROVE  IInv'
<1> DEFINE r == proc[p]
<1> DEFINE stored == candles[r.pair]
<1> DEFINE next == [r EXCEPT !.pc = "features",
                             !.seen = IF p = Stream THEN {Max(stored)} ELSE stored]
<1>1. /\ r \in HandlerType /\ HandlerOK(p, r) /\ r.pair \in Pairs /\ r.pc = "load"
      /\ InView(r) /\ job' \in JobType /\ UNCHANGED <<exchange, tables>>
  BY DEF IInv, TypeOK, LoadCandles, HandlerOK, InView
<1> DEFINE n == closed[r.pair] + Ahead
<1>4. n \in Nat /\ stored \subseteq 1..n /\ stored \subseteq Past(r.pair)
  BY <1>1, PastIsInterval
<1>2. CASE stored = {} BY <1>1, <1>2, Replies DEF LoadCandles
<1>3. CASE stored # {}
  <2>1. Max(stored) \in stored BY <1>3, <1>4, Extremes
  <2>2. Await(p, next) BY <1>3 DEF LoadCandles
  <2>3. "features" \in PcOf(p) BY ThreeHandlers DEF PcOf, Procs
  <2>4. /\ next.pc = "features" /\ next.pair = r.pair /\ next.page = r.page
        /\ next.seen # {} /\ next.seen \subseteq stored /\ next.read = r.read
        /\ next.partial = r.partial
    BY <1>1, <1>3, <2>1 DEF HandlerType
  <2>5. next \in HandlerType
    <3> DEFINE seen == IF p = Stream THEN {Max(stored)} ELSE stored
    <3>1. seen \in SUBSET Nat BY <1>4, <2>1
    <3>2. next = [r EXCEPT !.pc = "features", !.seen = seen] OBVIOUS
    <3> HIDE DEF seen, next
    <3> QED BY <1>1, <3>1, <3>2 DEF HandlerType, PcType
  <2> HIDE DEF next
  <2>6. HandlerOK(p, next)
    BY <1>1, <1>4, <2>3, <2>4, <2>5 DEF HandlerOK, InView, Uncommitted
  <2>7. next.pc \notin Uncommitted BY <2>4 DEF Uncommitted
  <2> QED BY <1>1, <2>2, <2>6, <2>7, MovesOn
<1> QED BY <1>2, <1>3

LEMMA UpsertFeaturesStep ==
  ASSUME IInv, NEW p \in Procs, UpsertFeatures(p), job' \in JobType
  PROVE  IInv'
<1> DEFINE r == proc[p]
<1>1. /\ HandlerOK(p, r) /\ r.pair \in Pairs /\ r.pc = "features"
      /\ r.seen \subseteq candles[r.pair] /\ proc \in [Procs -> HandlerType]
  BY DEF IInv, TypeOK, UpsertFeatures, HandlerOK, InView
<1>2. /\ features' = [features EXCEPT ![r.pair] = @ \cup r.seen]
      /\ UNCHANGED <<exchange, candles, metadata>>
      /\ proc'[p] = Idle /\ \A q \in Procs \ {p} : proc'[q] = proc[q]
      /\ proc' \in [Procs -> HandlerType]
  BY <1>1, IdleOK DEF UpsertFeatures, Reply, Await, HandlerOK
<1>3. ASSUME NEW q \in Procs PROVE HandlerOK(q, proc[q])'
  <2>1. HandlerOK(q, proc'[q]) BY <1>2, IdleOK DEF IInv
  <2> QED BY <1>2, <2>1 DEF HandlerOK, Follows, InView, Past, Listed, exchange
<1>4. TablesOK'
  BY <1>2 DEF IInv, TablesOK, OnlyLiveCandlesLeaveHoles, ResumePointIsStored,
              CountNeverExceeds, RowsWithCandles, exchange
<1>5. LocksDisjoint' BY <1>2 DEF IInv, LocksDisjoint, Idle, Uncommitted
<1>6. TypeOK'
  <2>1. /\ features' \in [Pairs -> SUBSET Nat]
        /\ \A pair \in Pairs : features'[pair] \subseteq candles[pair]
    BY <1>1, <1>2 DEF IInv, TypeOK
  <2>2. TablesTyped'
    BY <1>2, <2>1, TypeParts DEF IInv, TablesTyped, Closed, Past, exchange
  <2> QED BY <1>2, <1>3, <2>2, TypePartsNext
<1> QED BY <1>3, <1>4, <1>5, <1>6 DEF IInv

-----------------------------------------------------------------------------
(* The backfill job.                                                       *)

LEMMA JobTypes ==
  ASSUME IInv, NEW pair, NEW broken \in BOOLEAN, PairDone(pair, broken)
  PROVE  job' \in JobType
BY DEF IInv, TypeOK, JobType, PairDone

LEMMA BackfillPairStep ==
  ASSUME IInv, NEW pair \in Pairs, BackfillPair(pair)
  PROVE  IInv'
<1> DEFINE next == [Idle EXCEPT !.pc = "fetch", !.pair = pair,
                                !.start = ResumePoint(metadata[pair])]
<1>1. CASE job.broken
  <2>1. PairDone(pair, TRUE) /\ UNCHANGED <<exchange, tables, proc>>
    BY <1>1 DEF BackfillPair
  <2> QED BY <2>1, JobTypes, TablesKept
<1>2. CASE ~job.broken
  <2>1. Await(Backfill, next) /\ UNCHANGED <<job, exchange, tables>> /\ job' \in JobType
    BY <1>2 DEF BackfillPair, IInv, TypeOK
  <2>2. Idle \in HandlerType /\ Backfill \in Procs BY IdleOK DEF HandlerOK, Procs
  <2>3. metadata[pair] \in RowType /\ (metadata[pair] # NoRow => metadata[pair].last \in candles[pair])
    BY DEF IInv, TypeOK, TablesOK, ResumePointIsStored
  <2> DEFINE start == ResumePoint(metadata[pair])
  <2>4. start \in Nat \ {0} /\ (start = 1 \/ start - 1 \in candles[pair])
    BY <2>3 DEF ResumePoint, RowType
  <2>5. /\ next.pc = "fetch" /\ next.pair = pair /\ next.start = start
        /\ next.pages = 0 /\ next.page = {} /\ next.seen = {} /\ next.partial = {}
    BY DEF Idle
  <2>6. next \in HandlerType BY <2>2, <2>4 DEF HandlerType, PcType
  <2>7. 0 < MaxPages BY IngestionAssumption
  <2> HIDE DEF next, start
  <2>8. HandlerOK(Backfill, next)
    BY <2>4, <2>5, <2>6, <2>7, PcsOf DEF HandlerOK, InView, Uncommitted
  <2>9. next.pc \notin Uncommitted BY <2>5 DEF Uncommitted
  <2> QED BY <2>1, <2>2, <2>8, <2>9, MovesOn
<1> QED BY <1>1, <1>2

LEMMA Loads ==
  ASSUME NEW p \in Procs, NEW pair \in Pairs
  PROVE  HandlerOK(p, [Idle EXCEPT !.pc = "load", !.pair = pair])
<1> DEFINE next == [Idle EXCEPT !.pc = "load", !.pair = pair]
<1>1. /\ next.pc = "load" /\ next.pair = pair /\ next.page = {} /\ next.seen = {}
      /\ next.partial = {}
  BY DEF Idle
<1>2. next \in HandlerType BY IdleOK DEF HandlerOK, HandlerType, PcType
<1>3. "load" \in PcOf(p) BY ThreeHandlers DEF PcOf, Procs
<1> HIDE DEF next
<1>4. HandlerOK(p, next) BY <1>1, <1>2, <1>3 DEF HandlerOK, InView, Uncommitted
<1> QED BY <1>4 DEF next

\* The pages are over: either nothing was stored, or features come next.
LEMMA PagesOverStep ==
  ASSUME IInv, proc[Backfill].pc # "idle", NEW r,
         r.pair = proc[Backfill].pair, PagesOver(r)
  PROVE  /\ job' \in JobType /\ proc' \in [Procs -> HandlerType]
         /\ \A q \in Procs \ {Backfill} : proc'[q] = proc[q]
         /\ HandlerOK(Backfill, proc'[Backfill])
         /\ proc'[Backfill].pc \in {"idle", "load"}
         /\ proc'[Backfill].page = {} /\ proc'[Backfill].seen = {}
         /\ proc'[Backfill].pc = "idle" => proc'[Backfill] = Idle
         /\ proc'[Backfill].pc # "idle" => proc'[Backfill].pair \in Pairs
<1> DEFINE next == [Idle EXCEPT !.pc = "load", !.pair = r.pair]
<1>1. /\ proc \in [Procs -> HandlerType] /\ Backfill \in Procs /\ r.pair \in Pairs
      /\ Idle \in HandlerType /\ job \in JobType
  BY IdleOK DEF IInv, TypeOK, Procs, HandlerOK, InView
<1>2. CASE r.pages = 0
  <2>1. Reply(Backfill) /\ PairDone(r.pair, FALSE) BY <1>2 DEF PagesOver
  <2>2. job' \in JobType BY <2>1, JobTypes
  <2>3. /\ proc'[Backfill] = Idle /\ proc' \in [Procs -> HandlerType]
        /\ \A q \in Procs \ {Backfill} : proc'[q] = proc[q]
    BY <1>1, <2>1 DEF Reply, Await
  <2>4. Idle.pc = "idle" /\ Idle.page = {} /\ Idle.seen = {} BY DEF Idle
  <2>5. HandlerOK(Backfill, Idle) BY <1>1, IdleOK
  <2> QED BY <2>2, <2>3, <2>4, <2>5
<1>3. CASE r.pages # 0
  <2>1. Await(Backfill, next) /\ job' \in JobType BY <1>1, <1>3 DEF PagesOver
  <2>2. /\ next.pc = "load" /\ next.page = {} /\ next.seen = {} /\ next.pair = r.pair
    BY DEF Idle
  <2>3. HandlerOK(Backfill, next) BY <1>1, Loads
  <2> HIDE DEF next
  <2>4. /\ proc'[Backfill] = next /\ proc' \in [Procs -> HandlerType]
        /\ \A q \in Procs \ {Backfill} : proc'[q] = proc[q]
    BY <1>1, <2>1, <2>3 DEF Await, HandlerOK
  <2> QED BY <1>1, <2>1, <2>2, <2>3, <2>4
<1> QED BY <1>2, <1>3

LEMMA ExchangeAnswersStep ==
  ASSUME IInv, ExchangeAnswers
  PROVE  IInv'
<1> DEFINE r == proc[Backfill]
<1> DEFINE page == Served(r.pair, r.start)
<1> DEFINE partial == page \ (1..closed[r.pair])
<1> DEFINE next == [r EXCEPT !.pc = "receive", !.page = page, !.partial = partial]
<1>1. /\ r.pc = "fetch" /\ r \in HandlerType /\ Backfill \in Procs /\ r.pair \in Pairs
      /\ r.pages < MaxPages /\ r.start # 0 /\ r.start \in Nat /\ closed[r.pair] \in Nat
      /\ r.start = 1 \/ r.start - 1 \in candles[r.pair]
      /\ r.seen \subseteq Past(r.pair)
      /\ UNCHANGED <<exchange, tables>> /\ job' \in JobType /\ Await(Backfill, next)
  BY DEF IInv, TypeOK, ExchangeAnswers, HandlerOK, InView, Procs, HandlerType
<1>2. page \subseteq Listed(r.pair) /\ page \in SUBSET Nat BY <1>1 DEF Served, Listed
<1>3. ASSUME NEW k \in page PROVE k = 1 \/ k - 1 \in page \cup candles[r.pair]
  <2>1. k \in r.start..closed[r.pair] + 1 /\ k < r.start + PageSize /\ PageSize \in Nat
    BY IngestionAssumption DEF Served
  <2>2. CASE k = r.start BY <1>1, <2>2
  <2>3. CASE k # r.start
    <3>1. k - 1 \in r.start..closed[r.pair] + 1 /\ k - 1 < r.start + PageSize
      BY <1>1, <2>1, <2>3
    <3> QED BY <3>1 DEF Served
  <2> QED BY <2>2, <2>3
<1> HIDE DEF page
<1>4. partial \subseteq page /\ partial \in SUBSET Nat BY <1>2
<1> HIDE DEF partial
<1>5. /\ next.pc = "receive" /\ next.pair = r.pair /\ next.page = page
      /\ next.partial = partial /\ next.pages = r.pages /\ next.seen = r.seen
  BY <1>1 DEF HandlerType
<1>6. next \in HandlerType BY <1>1, <1>2, <1>4 DEF HandlerType, PcType
<1> HIDE DEF next
<1>7. HandlerOK(Backfill, next)
  BY <1>1, <1>2, <1>3, <1>4, <1>5, <1>6, PcsOf DEF HandlerOK, InView, Uncommitted
<1>8. next.pc \notin Uncommitted BY <1>5 DEF Uncommitted
<1> QED BY <1>1, <1>7, <1>8, MovesOn

LEMMA ReceivePageStep ==
  ASSUME IInv, ReceivePage
  PROVE  IInv'
<1> DEFINE r == proc[Backfill]
<1>1. /\ r.pc = "receive" /\ r \in HandlerType /\ Backfill \in Procs /\ r.pair \in Pairs
      /\ r.pages < MaxPages /\ r.pages \in Nat
      /\ r.page \subseteq Listed(r.pair) /\ r.partial \subseteq r.page
      /\ r.seen \subseteq Past(r.pair)
      /\ \A k \in r.page : k = 1 \/ k - 1 \in r.page \cup candles[r.pair]
      /\ UNCHANGED <<exchange, tables>>
  BY DEF IInv, TypeOK, ReceivePage, HandlerOK, InView, Procs, HandlerType
<1>2. PICK last \in LastPast(r.pair) :
        LET page == {k \in r.page : k <= last}
        IN  IF page = {} THEN PagesOver(r)
            ELSE /\ Await(Backfill, [r EXCEPT !.pc = "upsert", !.page = page,
                                              !.partial = @ \cap page,
                                              !.pages = @ + 1])
                 /\ UNCHANGED job
  BY DEF ReceivePage
<1> DEFINE page == {k \in r.page : k <= last}
<1> DEFINE next == [r EXCEPT !.pc = "upsert", !.page = page, !.partial = r.partial \cap page,
                             !.pages = r.pages + 1]
<1>3. CASE page = {}
  <2>1. PagesOver(r) BY <1>2, <1>3
  <2>2. /\ job' \in JobType /\ proc' \in [Procs -> HandlerType]
        /\ \A q \in Procs \ {Backfill} : proc'[q] = proc[q]
        /\ HandlerOK(Backfill, proc'[Backfill])
        /\ proc'[Backfill].pc \in {"idle", "load"}
    BY <1>1, <2>1, PagesOverStep
  <2>3. HandlerOK(Backfill, proc[Backfill])'
    BY <1>1, <2>2 DEF HandlerOK, Follows, InView, Past, Listed, exchange, tables
  <2>4. proc'[Backfill].pc \notin Uncommitted BY <2>2 DEF Uncommitted
  <2> QED BY <1>1, <2>2, <2>3, <2>4, ReadStep
<1>4. CASE page # {}
  <2>1. Await(Backfill, next) /\ job' \in JobType BY <1>2, <1>4 DEF IInv, TypeOK
  <2>2. page \subseteq Past(r.pair) /\ page \in SUBSET Nat
    <3>1. /\ closed[r.pair] \in Nat /\ Ahead \in Nat /\ Behind \in Nat
          /\ last \in closed[r.pair] - Behind .. closed[r.pair] + Ahead
      BY <1>1, <1>2, PastIsInterval, IngestionAssumption DEF LastPast
    <3>2. ASSUME NEW k \in page PROVE k \in 1..closed[r.pair] + Ahead
      <4>1. k \in 1..closed[r.pair] + 1 /\ k <= last BY <1>1 DEF Listed
      <4> QED BY <3>1, <4>1
    <3> QED BY <3>1, <3>2 DEF Past
  <2>3. ASSUME NEW k \in page PROVE k = 1 \/ k - 1 \in page \cup candles[r.pair]
    <3>1. k = 1 \/ k - 1 \in r.page \cup candles[r.pair] BY <1>1
    <3>2. k \in Int /\ last \in Int /\ k <= last
      BY <1>1, <1>2, <2>2, PastIsInterval, IngestionAssumption DEF LastPast
    <3>3. k - 1 <= last BY <3>2
    <3> QED BY <3>1, <3>3
  <2>4. /\ next.pc = "upsert" /\ next.pair = r.pair /\ next.page = page
        /\ next.partial = r.partial \cap page /\ next.pages = r.pages + 1
        /\ next.seen = r.seen
    BY <1>1 DEF HandlerType
  <2>5. r.pages + 1 \in 0..MaxPages BY <1>1, IngestionAssumption
  <2>6. r.partial \cap page \in SUBSET Nat BY <2>2
  <2> HIDE DEF page
  <2>7. next \in HandlerType BY <1>1, <2>2, <2>5, <2>6 DEF HandlerType, PcType
  <2> HIDE DEF next
  <2>8. HandlerOK(Backfill, next)
    BY <1>1, <1>4, <2>2, <2>3, <2>4, <2>7, PcsOf DEF HandlerOK, InView, Follows, Uncommitted
  <2>9. next.pc \notin Uncommitted BY <2>4 DEF Uncommitted
  <2> QED BY <1>1, <2>1, <2>8, <2>9, MovesOn
<1> QED BY <1>3, <1>4

LEMMA UpsertPageStep ==
  ASSUME IInv, UpsertPage
  PROVE  IInv'
<1> DEFINE r == proc[Backfill]
<1> DEFINE next == [r EXCEPT !.pc = "metadata", !.page = r.page,
                             !.fresh = r.page \ candles[r.pair]]
<1>1. /\ r.pc = "upsert" /\ r \in HandlerType /\ Backfill \in Procs /\ r.pair \in Pairs
      /\ HandlerOK(Backfill, r) /\ Free(r.pair, r.page)
      /\ proc \in [Procs -> HandlerType]
      /\ UNCHANGED <<exchange, tables>> /\ job' \in JobType
  BY DEF IInv, TypeOK, UpsertPage, HandlerOK, InView, Procs
<1>2. next \in HandlerType BY <1>1 DEF HandlerType, PcType
<1>3. /\ next.pc = "metadata" /\ next.pair = r.pair /\ next.page = r.page
      /\ next.fresh = r.page \ candles[r.pair] /\ next.seen = r.seen
      /\ next.partial = r.partial
  BY <1>1 DEF HandlerType
<1>4. /\ proc'[Backfill] = next /\ proc' \in [Procs -> HandlerType]
      /\ \A q \in Procs \ {Backfill} : proc'[q] = proc[q]
  BY <1>1, <1>2 DEF UpsertPage, Upserted, Await
<1> HIDE DEF next
<1>5. HandlerOK(Backfill, next)
  BY <1>1, <1>2, <1>3, PcsOf DEF HandlerOK, InView, Follows, Uncommitted
<1>6. HandlerOK(Backfill, proc[Backfill])'
  BY <1>1, <1>4, <1>5 DEF HandlerOK, Follows, InView, Past, Listed, exchange, tables
<1>7. ASSUME NEW q \in Procs \ {Backfill}, proc[q].pc \in Uncommitted,
             proc[q].pair = r.pair
      PROVE  r.page \cap proc[q].page = {}
  <2>1. Locked(q) = {<<r.pair, k>> : k \in proc[q].page}
    BY <1>7 DEF Locked, Uncommitted
  <2>2. \A k \in r.page : <<r.pair, k>> \notin Locked(q) BY <1>1 DEF Free
  <2> QED BY <2>1, <2>2
<1> QED BY <1>1, <1>3, <1>4, <1>6, <1>7, ReadStep

LEMMA BackfillCommitsStep ==
  ASSUME IInv, BackfillCommits
  PROVE  IInv'
<1> DEFINE r == proc[Backfill]
<1> DEFINE n == closed[r.pair] + Ahead
<1> DEFINE next == [Idle EXCEPT !.pc = "fetch", !.pair = r.pair,
                                !.pages = r.pages, !.start = Max(r.page) + 1]
<1>1. /\ r.pc = "commit" /\ r \in HandlerType /\ Backfill \in Procs /\ r.pair \in Pairs
      /\ HandlerOK(Backfill, r) /\ CommitPage(Backfill)
      /\ proc \in [Procs -> HandlerType] /\ n \in Nat
      /\ r.page # {} /\ r.page \subseteq 1..n
      /\ r.pages \in 0..MaxPages
  <2>1. /\ r.pc = "commit" /\ r \in HandlerType /\ Backfill \in Procs /\ r.pair \in Pairs
        /\ HandlerOK(Backfill, r) /\ CommitPage(Backfill)
        /\ proc \in [Procs -> HandlerType] /\ r.pages \in 0..MaxPages
        /\ r.page # {} /\ r.page \subseteq Past(r.pair)
    BY DEF IInv, TypeOK, BackfillCommits, CommitPage, HandlerOK, InView, Procs, Uncommitted,
           HandlerType
  <2> QED BY <2>1, PastIsInterval
<1>2. CASE Cardinality(r.page) < PageSize \/ r.pages >= MaxPages
  <2>1. PagesOver(r) BY <1>2 DEF BackfillCommits
  <2>2. /\ job' \in JobType /\ proc' \in [Procs -> HandlerType]
        /\ \A q \in Procs \ {Backfill} : proc'[q] = proc[q]
        /\ HandlerOK(Backfill, proc'[Backfill])
        /\ proc'[Backfill].pc \in {"idle", "load"}
        /\ proc'[Backfill].page = {} /\ proc'[Backfill].seen = {}
        /\ proc'[Backfill].pc = "idle" => proc'[Backfill] = Idle
        /\ proc'[Backfill].pc # "idle" => proc'[Backfill].pair \in Pairs
    BY <1>1, <2>1, PagesOverStep
  <2>3. HandlerOK(Backfill, proc[Backfill])'
    BY <2>2 DEF HandlerOK, InView, Uncommitted, Idle
  <2>4. proc'[Backfill].pc \notin Uncommitted BY <2>2 DEF Uncommitted
  <2> QED BY <1>1, <2>2, <2>3, <2>4, CommitStep
<1>3. CASE ~(Cardinality(r.page) < PageSize \/ r.pages >= MaxPages)
  <2>1. Await(Backfill, next) /\ job' \in JobType
    BY <1>3 DEF BackfillCommits, IInv, TypeOK
  <2>2. Max(r.page) \in r.page BY <1>1, Extremes
  <2>3. /\ next.pc = "fetch" /\ next.pair = r.pair /\ next.page = {} /\ next.partial = {}
        /\ next.pages = r.pages /\ next.start = Max(r.page) + 1 /\ next.seen = {}
    BY DEF Idle
  <2>4. Max(r.page) + 1 \in Nat \ {0} /\ Max(r.page) \in Nat BY <1>1, <2>2
  <2>5. next \in HandlerType
    BY <1>1, <2>4, IdleOK DEF HandlerOK, HandlerType, PcType
  <2>6. r.pages < MaxPages BY <1>1, <1>3, IngestionAssumption
  <2>7. /\ proc'[Backfill] = next /\ proc' \in [Procs -> HandlerType]
        /\ \A q \in Procs \ {Backfill} : proc'[q] = proc[q]
    BY <1>1, <2>1, <2>5 DEF Await
  <2>8. candles'[r.pair] = candles[r.pair] \cup r.page /\ closed' = closed
    BY <1>1 DEF CommitPage, IInv, TypeOK, exchange
  <2>9. next.start - 1 \in candles'[r.pair] BY <2>2, <2>3, <2>4, <2>8
  <2>10. "fetch" \in PcOf(Backfill) BY PcsOf
  <2> HIDE DEF next
  <2>11. HandlerOK(Backfill, proc[Backfill])'
    BY <1>1, <2>3, <2>4, <2>5, <2>6, <2>7, <2>8, <2>9, <2>10
       DEF HandlerOK, InView, Uncommitted
  <2>12. proc'[Backfill].pc \notin Uncommitted BY <2>3, <2>7 DEF Uncommitted
  <2> QED BY <1>1, <2>1, <2>7, <2>11, <2>12, CommitStep
<1> QED BY <1>2, <1>3

LEMMA BackfillStepsKeep ==
  ASSUME IInv, StartBackfill \/ BackfillSteps
  PROVE  IInv'
<1>0. Backfill \in Procs /\ job \in JobType BY DEF Procs, IInv, TypeOK
<1>1. CASE StartBackfill
  <2>1. job' \in JobType BY <1>1 DEF StartBackfill, NoJob, JobType
  <2> QED BY <1>1, <2>1, TablesKept DEF StartBackfill
<1>2. CASE \E pair \in Pairs : BackfillPair(pair) BY <1>2, BackfillPairStep
<1>3. CASE ExchangeAnswers BY <1>3, ExchangeAnswersStep
<1>11. CASE ReceivePage BY <1>11, ReceivePageStep
<1>4. CASE FetchFails
  <2>1. job' \in JobType BY <1>4, JobTypes DEF FetchFails
  <2> QED BY <1>0, <1>4, <2>1, Replies DEF FetchFails
<1>5. CASE UpsertPage BY <1>5, UpsertPageStep
<1>6. CASE BackfillCommits BY <1>6, BackfillCommitsStep
<1>7. CASE BackfillCollides
  <2>1. job' \in JobType BY <1>7, JobTypes DEF BackfillCollides
  <2> QED BY <1>0, <1>7, <2>1, Replies DEF BackfillCollides
<1>8. CASE BackfillFeatures
  <2>1. job' \in JobType BY <1>8, JobTypes DEF BackfillFeatures
  <2> QED BY <1>0, <1>8, <2>1, UpsertFeaturesStep DEF BackfillFeatures
<1>9. CASE BackfillFeaturesFail
  <2>1. job' \in JobType BY <1>9, JobTypes DEF BackfillFeaturesFail
  <2> QED BY <1>0, <1>9, <2>1, Replies DEF BackfillFeaturesFail
<1>10. CASE JobEnds
  <2>1. job' \in JobType BY <1>0, <1>10 DEF JobEnds, JobType
  <2> QED BY <1>10, <2>1, TablesKept DEF JobEnds
<1> QED BY <1>1, <1>2, <1>3, <1>4, <1>5, <1>6, <1>7, <1>8, <1>9, <1>10, <1>11
        DEF BackfillSteps

-----------------------------------------------------------------------------
(* The stream, the requests and the exchange.                              *)

LEMMA CandleClosesStep ==
  ASSUME IInv, NEW pair \in Pairs, CandleCloses(pair)
  PROVE  IInv'
<1>1. /\ closed' = [closed EXCEPT ![pair] = @ + 1] /\ closed[pair] < Horizon[pair]
      /\ Horizon[pair] \in Nat /\ UNCHANGED <<heard, tables, job, proc>>
  BY IngestionAssumption DEF CandleCloses
<1>2. /\ closed' \in [Pairs -> Nat]
      /\ \A x \in Pairs : closed[x] \in Nat /\ closed[x] <= closed'[x]
                         /\ closed'[x] <= Horizon[x]
  BY <1>1 DEF IInv, TypeOK
<1>3. \A x \in Pairs : /\ Closed(x) \subseteq Closed(x)' /\ Listed(x) \subseteq Listed(x)'
                       /\ Past(x) \subseteq Past(x)'
  <2>1. Ahead \in Nat BY IngestionAssumption
  <2> QED BY <1>2, <2>1 DEF Closed, Listed, Past
<1>7. ASSUME NEW q \in Procs PROVE HandlerOK(q, proc[q])'
  <2>1. HandlerOK(q, proc[q]) BY DEF IInv
  <2>2. InView(proc[q])' BY <1>1, <1>3, <2>1 DEF HandlerOK, InView
  <2> QED BY <2>1, <2>2, <1>1 DEF HandlerOK, Follows, tables
<1>4. TypeOK'
  <2>1. TablesTyped' BY <1>1, <1>2, <1>3, TypeParts DEF IInv, TablesTyped, tables
  <2>2. proc' \in [Procs -> HandlerType] /\ job' \in JobType BY <1>1 DEF IInv, TypeOK
  <2> QED BY <1>7, <2>1, <2>2, TypePartsNext
<1>5. TablesOK'
  BY <1>1 DEF IInv, TablesOK, OnlyLiveCandlesLeaveHoles, ResumePointIsStored,
              CountNeverExceeds, RowsWithCandles, tables
<1>6. LocksDisjoint' BY <1>1 DEF IInv, LocksDisjoint
<1> QED BY <1>4, <1>5, <1>6, <1>7 DEF IInv

LEMMA StreamCandleStep ==
  ASSUME IInv, NEW pair \in Pairs, StreamCandle(pair)
  PROVE  IInv'
<1>1. PICK k \in 1..closed[pair] :
        /\ Free(pair, {k}) /\ heard' = [heard EXCEPT ![pair] = @ \cup {k}]
        /\ Await(Stream, Upserted([Idle EXCEPT !.pair = pair], pair, {k}))
  BY DEF StreamCandle
<1> DEFINE next == Upserted([Idle EXCEPT !.pair = pair], pair, {k})
<1>2. /\ UNCHANGED <<closed, tables, job>> /\ closed[pair] \in Nat /\ k \in Nat
      /\ Stream \in Procs /\ proc \in [Procs -> HandlerType]
  BY DEF StreamCandle, IInv, TypeOK, Procs
<1>3. /\ next.pc = "metadata" /\ next.pair = pair /\ next.page = {k} /\ next.seen = {}
      /\ next.fresh = {k} \ candles[pair] /\ next.partial = {}
  BY DEF Upserted, Idle
<1>4. next \in HandlerType
  BY <1>2, IdleOK DEF Upserted, HandlerOK, HandlerType, PcType
<1> HIDE DEF next
<1>5. /\ proc'[Stream] = next /\ proc' \in [Procs -> HandlerType]
      /\ \A q \in Procs \ {Stream} : proc'[q] = proc[q]
  BY <1>1, <1>2, <1>4 DEF Await, next
<1>6. /\ heard' \in [Pairs -> SUBSET Nat] /\ k \in heard'[pair]
      /\ \A x \in Pairs : heard[x] \subseteq heard'[x] /\ heard'[x] \subseteq 1..closed[x]
  BY <1>1, <1>2 DEF IInv, TypeOK, Closed
<1>7. ASSUME NEW q \in Procs PROVE HandlerOK(q, proc[q])'
  <2>1. CASE q # Stream
    <3>1. HandlerOK(q, proc[q]) /\ proc'[q] = proc[q] BY <1>5, <2>1 DEF IInv
    <3>2. candles' = candles /\ metadata' = metadata /\ closed' = closed
      BY <1>2 DEF tables
    <3>3. ASSUME NEW x \in Pairs, NEW j, NEW page, Follows(j, x, page)
          PROVE  j = 1 \/ j - 1 \in page \cup candles[x] \/ j \in heard'[x]
      BY <3>3, <1>6 DEF Follows
    <3> HIDE DEF Follows
    <3>4. proc[q].pc \in Uncommitted \cup {"upsert"} =>
            \A j \in proc[q].page : Follows(j, proc[q].pair, proc[q].page)'
      <4>1. proc[q].pc \in Uncommitted \cup {"upsert"} =>
              /\ proc[q].pair \in Pairs
              /\ \A j \in proc[q].page : Follows(j, proc[q].pair, proc[q].page)
        BY <3>1 DEF HandlerOK, InView, Uncommitted
      <4> QED BY <3>1, <3>2, <3>3, <4>1 DEF Follows
    <3> QED BY <3>1, <3>2, <3>4 DEF HandlerOK, InView, Past, Listed
  <2>2. CASE q = Stream
    <3>1. "metadata" \in PcOf(Stream) BY ThreeHandlers DEF PcOf
    <3>2. candles' = candles /\ closed' = closed BY <1>2 DEF tables
    <3>3. k \in 1..closed[pair] + Ahead BY <1>2, IngestionAssumption
    <3> QED BY <2>2, <1>3, <1>4, <1>5, <1>6, <3>1, <3>2, <3>3
            DEF HandlerOK, InView, Follows, Past, Uncommitted
  <2> QED BY <2>1, <2>2
<1>8. TablesOK'
  BY <1>2, <1>6 DEF IInv, TablesOK, OnlyLiveCandlesLeaveHoles, ResumePointIsStored,
                    CountNeverExceeds, RowsWithCandles, tables
<1>9. LocksDisjoint'
  <2>1. ASSUME NEW q \in Procs \ {Stream}, proc[q].pc \in Uncommitted, proc[q].pair = pair
        PROVE  {k} \cap proc[q].page = {}
    <3>1. Locked(q) = {<<pair, j>> : j \in proc[q].page} BY <2>1 DEF Locked, Uncommitted
    <3>2. <<pair, k>> \notin Locked(q) BY <1>1 DEF Free
    <3> QED BY <3>1, <3>2
  <2> SUFFICES ASSUME NEW q \in Procs, NEW s \in Procs, q # s,
                      {proc'[q].pc, proc'[s].pc} \subseteq Uncommitted,
                      proc'[q].pair = proc'[s].pair
               PROVE  proc'[q].page \cap proc'[s].page = {}
    BY DEF LocksDisjoint
  <2>2. CASE q = Stream BY <2>1, <2>2, <1>3, <1>5
  <2>3. CASE s = Stream BY <2>1, <2>3, <1>3, <1>5
  <2>4. CASE q # Stream /\ s # Stream BY <2>4, <1>5 DEF IInv, LocksDisjoint
  <2> QED BY <2>2, <2>3, <2>4
<1>10. TypeOK'
  <2>1. TablesTyped'
    BY <1>2, <1>6, TypeParts DEF IInv, TablesTyped, tables, Closed, Past
  <2>2. job' \in JobType BY <1>2 DEF IInv, TypeOK
  <2> QED BY <1>5, <1>7, <2>1, <2>2, TypePartsNext
<1> QED BY <1>7, <1>8, <1>9, <1>10 DEF IInv

LEMMA StreamStepsKeep ==
  ASSUME IInv, StreamSteps
  PROVE  IInv'
<1>0. Stream \in Procs /\ job \in JobType BY DEF Procs, IInv, TypeOK
<1>1. CASE StreamCommits
  <2> DEFINE r == proc[Stream]
  <2> DEFINE next == [Idle EXCEPT !.pc = "load", !.pair = r.pair]
  <2>1. /\ CommitPage(Stream) /\ Await(Stream, next) /\ job' \in JobType
        /\ r.pair \in Pairs /\ proc \in [Procs -> HandlerType]
    BY <1>0, <1>1 DEF StreamCommits, CommitPage, IInv, TypeOK
  <2>2. /\ HandlerOK(Stream, next) /\ next.pc = "load" /\ next.page = {} /\ next.seen = {}
        /\ next.partial = {}
    BY <1>0, <2>1, Loads DEF Idle
  <2> HIDE DEF next
  <2>3. /\ proc'[Stream] = next /\ proc' \in [Procs -> HandlerType]
        /\ \A q \in Procs \ {Stream} : proc'[q] = proc[q]
    BY <1>0, <2>1, <2>2 DEF Await, HandlerOK
  <2>4. HandlerOK(Stream, proc[Stream])'
    BY <2>2, <2>3 DEF HandlerOK, InView, Uncommitted
  <2>5. proc'[Stream].pc \notin Uncommitted BY <2>2, <2>3 DEF Uncommitted
  <2> QED BY <1>0, <2>1, <2>3, <2>4, <2>5, CommitStep
<1>2. CASE StreamCollides BY <1>0, <1>2, Replies DEF StreamCollides
<1>3. CASE StreamFeatures BY <1>0, <1>3, UpsertFeaturesStep DEF StreamFeatures
<1> QED BY <1>1, <1>2, <1>3 DEF StreamSteps

LEMMA RequestStep ==
  ASSUME IInv, NEW pair \in Pairs, RequestFeatures(pair) \/ RequestCheck(pair)
  PROVE  IInv'
<1>0. Api \in Procs /\ job' \in JobType /\ UNCHANGED <<exchange, tables>>
  BY DEF Procs, IInv, TypeOK, RequestFeatures, RequestCheck
<1>1. CASE RequestFeatures(pair)
  <2>1. [Idle EXCEPT !.pc = "load", !.pair = pair].pc \notin Uncommitted
    BY DEF Idle, Uncommitted
  <2>2. HandlerOK(Api, [Idle EXCEPT !.pc = "load", !.pair = pair]) BY <1>0, Loads
  <2> QED BY <1>0, <1>1, <2>1, <2>2, MovesOn DEF RequestFeatures
<1>2. CASE RequestCheck(pair)
  <2> DEFINE next == [Idle EXCEPT !.pc = "checkMetadata", !.pair = pair, !.seen = candles[pair]]
  <2>1. Await(Api, next) /\ candles[pair] # {} BY <1>2 DEF RequestCheck
  <2>2. /\ next.pc = "checkMetadata" /\ next.pair = pair /\ next.page = {}
        /\ next.seen = candles[pair] /\ next.partial = {}
    BY DEF Idle
  <2>3. candles[pair] \subseteq Past(pair) /\ candles[pair] \in SUBSET Nat BY DEF IInv, TypeOK
  <2>4. next \in HandlerType
    <3>1. Idle \in HandlerType BY <1>0, IdleOK DEF HandlerOK
    <3> QED BY <2>3, <3>1 DEF HandlerType, PcType
  <2>5. "checkMetadata" \in PcOf(Api) BY ThreeHandlers DEF PcOf
  <2> HIDE DEF next
  <2>6. HandlerOK(Api, next) BY <2>1, <2>2, <2>3, <2>4, <2>5 DEF HandlerOK, InView, Uncommitted
  <2>7. next.pc \notin Uncommitted BY <2>2 DEF Uncommitted
  <2> QED BY <1>0, <2>1, <2>6, <2>7, MovesOn
<1> QED BY <1>1, <1>2

LEMMA PersistReportStep ==
  ASSUME IInv, PersistReport
  PROVE  IInv'
<1> DEFINE r == proc[Api]
<1> DEFINE m == closed[r.pair] + Ahead
<1> DEFINE n == Cardinality(r.seen)
<1> DEFINE count == IF n = r.read.count THEN metadata[r.pair].count ELSE n
<1>1. /\ HandlerOK(Api, r) /\ r.pc = "check" /\ Api \in Procs /\ r.pair \in Pairs
      /\ r.seen \subseteq candles[r.pair] /\ metadata[r.pair] # NoRow
      /\ m \in Nat /\ candles[r.pair] \subseteq 1..m
      /\ proc \in [Procs -> HandlerType]
  <2>1. /\ HandlerOK(Api, r) /\ r.pc = "check" /\ Api \in Procs /\ r.pair \in Pairs
        /\ r.seen \subseteq candles[r.pair] /\ metadata[r.pair] # NoRow
        /\ proc \in [Procs -> HandlerType]
    BY DEF IInv, TypeOK, PersistReport, HandlerOK, InView, Procs
  <2> QED BY <2>1, PastIsInterval
<1>2. n \in Nat /\ n <= Cardinality(candles[r.pair])
  <2>1. r.seen \subseteq 1..m BY <1>1
  <2> QED BY <1>1, <2>1, Counted
<1>3. /\ metadata[r.pair] \in [first : Nat \ {0}, last : Nat \ {0}, count : Nat]
      /\ metadata[r.pair].count <= Cardinality(candles[r.pair])
  BY <1>1 DEF IInv, TypeOK, RowType, TablesOK, CountNeverExceeds
<1> DEFINE row == [metadata[r.pair] EXCEPT !.count = count]
<1>4. /\ row \in [first : Nat \ {0}, last : Nat \ {0}, count : Nat]
      /\ row.first = metadata[r.pair].first /\ row.last = metadata[r.pair].last
      /\ row.count <= Cardinality(candles[r.pair])
  BY <1>2, <1>3
<1>5. row # NoRow /\ row \in RowType
  <2>1. row \in [first : Nat, last : Nat, count : Nat] BY <1>4
  <2> HIDE DEF row
  <2> QED BY <1>4, <2>1, IngestionAssumption DEF RowType
<1>6. /\ metadata' = [metadata EXCEPT ![r.pair] = row]
      /\ UNCHANGED <<exchange, candles, features, job>> /\ Reply(Api)
  BY DEF PersistReport
<1> HIDE DEF row
<1>7. /\ metadata' \in [Pairs -> RowType] /\ metadata'[r.pair] = row
      /\ \A x \in Pairs : x # r.pair => metadata'[x] = metadata[x]
  BY <1>1, <1>5, <1>6 DEF IInv, TypeOK
<1>8. /\ proc'[Api] = Idle /\ \A q \in Procs \ {Api} : proc'[q] = proc[q]
      /\ proc' \in [Procs -> HandlerType]
  BY <1>1, <1>6, IdleOK DEF Reply, Await, HandlerOK
<1>9. ASSUME NEW q \in Procs PROVE HandlerOK(q, proc[q])'
  <2>1. HandlerOK(q, proc'[q]) BY <1>8, IdleOK DEF IInv
  <2>2. \A x \in Pairs : metadata[x] # NoRow => metadata'[x] # NoRow BY <1>5, <1>7
  <2> QED BY <1>6, <2>1, <2>2 DEF HandlerOK, Follows, InView, Past, Listed, exchange
<1>10. TablesOK'
  <2>1. OnlyLiveCandlesLeaveHoles'
    BY <1>6 DEF IInv, TablesOK, OnlyLiveCandlesLeaveHoles, exchange
  <2>2. ResumePointIsStored' BY <1>1, <1>4, <1>6, <1>7 DEF IInv, TablesOK, ResumePointIsStored
  <2>3. CountNeverExceeds' BY <1>1, <1>4, <1>6, <1>7 DEF IInv, TablesOK, CountNeverExceeds
  <2>4. RowsWithCandles' BY <1>1, <1>5, <1>6, <1>7 DEF IInv, TablesOK, RowsWithCandles
  <2> QED BY <2>1, <2>2, <2>3, <2>4 DEF TablesOK
<1>11. LocksDisjoint' BY <1>8 DEF IInv, LocksDisjoint, Idle, Uncommitted
<1>12. TypeOK'
  <2>1. TablesTyped'
    BY <1>6, <1>7, TypeParts DEF IInv, TablesTyped, exchange, Closed, Past
  <2>2. job' \in JobType BY <1>6 DEF IInv, TypeOK
  <2> QED BY <1>8, <1>9, <2>1, <2>2, TypePartsNext
<1> QED BY <1>9, <1>10, <1>11, <1>12 DEF IInv

LEMMA RestartStep ==
  ASSUME IInv, Restart
  PROVE  IInv'
<1>1. /\ job' \in JobType /\ \A q \in Procs : proc'[q] = Idle
      /\ proc' \in [Procs -> HandlerType] /\ UNCHANGED <<exchange, tables>>
  BY IdleOK DEF Restart, NoJob, JobType, HandlerOK
<1>2. ASSUME NEW q \in Procs PROVE HandlerOK(q, proc[q])'
  <2>1. HandlerOK(q, Idle) BY IdleOK
  <2> QED BY <1>1, <2>1 DEF HandlerOK, InView, Idle, Uncommitted
<1>3. TablesOK'
  BY <1>1 DEF IInv, TablesOK, OnlyLiveCandlesLeaveHoles, ResumePointIsStored,
              CountNeverExceeds, RowsWithCandles, exchange, tables
<1>4. LocksDisjoint' BY <1>1 DEF LocksDisjoint, Idle, Uncommitted
<1>5. TypeOK'
  <2>1. TablesTyped' BY <1>1, TypeParts DEF IInv, TablesTyped, Closed, Past, exchange, tables
  <2> QED BY <1>1, <1>2, <2>1, TypePartsNext
<1> QED BY <1>2, <1>3, <1>4, <1>5 DEF IInv

-----------------------------------------------------------------------------

LEMMA InitOK == Init => IInv
<1> SUFFICES ASSUME Init PROVE IInv OBVIOUS
<1>1. Idle \in HandlerType /\ \A p \in Procs : HandlerOK(p, Idle)
  <2>1. Backfill \in Procs BY DEF Procs
  <2> QED BY <2>1, IdleOK DEF HandlerOK
<1>2. TypeOK
  <2>1. \A pair \in Pairs : Horizon[pair] \in Nat BY IngestionAssumption
  <2>2. TablesTyped BY <2>1 DEF Init, TablesTyped, Closed, Past, RowType
  <2>3. proc \in [Procs -> HandlerType] /\ job \in JobType BY <1>1 DEF Init, NoJob, JobType
  <2> QED BY <1>1, <2>2, <2>3, TypeParts DEF Init
<1>3. TablesOK
  BY DEF Init, TablesOK, OnlyLiveCandlesLeaveHoles, ResumePointIsStored,
         CountNeverExceeds, RowsWithCandles
<1>4. LocksDisjoint BY DEF Init, LocksDisjoint, Idle, Uncommitted
<1> QED BY <1>1, <1>2, <1>3, <1>4 DEF Init, IInv

LEMMA NextOK == IInv /\ [Next]_vars => IInv'
<1> SUFFICES ASSUME IInv, [Next]_vars PROVE IInv' OBVIOUS
<1>0. Api \in Procs /\ job \in JobType BY DEF Procs, IInv, TypeOK
<1>1. CASE StartBackfill \/ BackfillSteps BY <1>1, BackfillStepsKeep
<1>2. CASE StreamSteps BY <1>2, StreamStepsKeep
<1>3. CASE \E pair \in Pairs : CandleCloses(pair) BY <1>3, CandleClosesStep
<1>4. CASE \E pair \in Pairs : StreamCandle(pair) BY <1>4, StreamCandleStep
<1>5. CASE \E pair \in Pairs : RequestFeatures(pair) \/ RequestCheck(pair)
  BY <1>5, RequestStep
<1>6. CASE \E p \in Procs : SelectMetadata(p) BY <1>6, SelectMetadataStep
<1>7. CASE \E p \in Procs : LoadCandles(p) BY <1>7, LoadCandlesStep
<1>8. CASE ApiFeatures BY <1>0, <1>8, UpsertFeaturesStep DEF ApiFeatures
<1>9. CASE ApiFeaturesFail BY <1>0, <1>9, Replies DEF ApiFeaturesFail
<1>10. CASE PersistReport BY <1>10, PersistReportStep
<1>11. CASE Restart BY <1>11, RestartStep
<1>12. CASE UNCHANGED vars BY <1>0, <1>12, TablesKept DEF vars
<1> QED BY <1>1, <1>2, <1>3, <1>4, <1>5, <1>6, <1>7, <1>8, <1>9, <1>10, <1>11, <1>12
        DEF Next

LEMMA Invariance == Spec => []IInv
BY InitOK, NextOK, PTL DEF Spec

\* Whatever interleaves, every variable has its type, no table holds a candle the
\* corrected clock was not past (so only closed ones, where that clock never runs
\* ahead: Ahead = 0), and features are those of stored candles.  It says nothing of
\* the values stored: OnlyFinalCandlesStored is false
\* (services/historical_ingestion.py, binance/market_data.py, technical/).
THEOREM TypeCorrect == Spec => []TypeOK
<1>1. IInv => TypeOK BY DEF IInv
<1> QED BY <1>1, Invariance, PTL

\* A backfill leaves no hole behind it: a candle whose predecessor is missing came
\* from the stream (backfill_symbol_timeframe against persist_closed_candle).
THEOREM BackfillLeavesNoHole == Spec => []OnlyLiveCandlesLeaveHoles
<1>1. IInv => OnlyLiveCandlesLeaveHoles BY DEF IInv, TablesOK
<1> QED BY <1>1, Invariance, PTL

\* The candle _resume_point resumes from is stored, after every collision, lost
\* update and restart.
THEOREM ResumesFromStored == Spec => []ResumePointIsStored
<1>1. IInv => ResumePointIsStored BY DEF IInv, TablesOK
<1> QED BY <1>1, Invariance, PTL

\* candle_count is at most the number of stored candles, although each writer
\* computes it from a row it read before an await (_update_metadata).
THEOREM CountIsCautious == Spec => []CountNeverExceeds
<1>1. IInv => CountNeverExceeds BY DEF IInv, TablesOK
<1> QED BY <1>1, Invariance, PTL

=============================================================================
