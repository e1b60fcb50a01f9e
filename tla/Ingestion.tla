----------------------------- MODULE Ingestion ------------------------------
(***************************************************************************)
(* Candles and their features (services/historical_ingestion.py,           *)
(* technical/feature_engine.py, services/data_integrity.py).  Three kinds  *)
(* of handler write the tables candles, market_data_metadata and           *)
(* technical_features: the backfill job (api/v1/market.py), the market     *)
(* stream (workers/market_stream.py) and the requests that check integrity *)
(* or compute features.                                                    *)
(*                                                                         *)
(* A pair is one symbol and timeframe.  Its candles are numbered from the  *)
(* first the exchange has; the one after the closed ones is open, and a    *)
(* page shows its values so far.  As in PaperAccount, an action is what    *)
(* runs between two awaits.  An upsert holds its rows until the commit,    *)
(* and another upsert of them waits.                                       *)
(***************************************************************************)
EXTENDS Integers, FiniteSetsExt

CONSTANTS
  Pairs,
  Backfill, Stream, Api,   \* the handlers
  NoRow,                   \* a pair without metadata
  PageSize,                \* KLINES_PER_PAGE
  MaxPages,                \* DEFAULT_MAX_PAGES
  StatementRows,           \* feature rows one statement of the driver can carry
  Ahead, Behind,           \* candles by which the corrected clock may be off
  Horizon                  \* bound: candles of each pair the exchange closes

ASSUME IngestionAssumption ==
  /\ Cardinality({Backfill, Stream, Api}) = 3
  /\ PageSize \in Nat \ {0} /\ MaxPages \in Nat \ {0}
  /\ StatementRows \in Nat /\ Ahead \in {0, 1} /\ Behind \in Nat
  /\ Horizon \in [Pairs -> Nat]
  /\ NoRow \notin [first : Nat, last : Nat, count : Nat]

VARIABLES
  closed,      \* candles of the pair the exchange has closed
  heard,       \* those it has announced on the stream
  candles,     \* candles: the rows of the pair
  metadata,    \* market_data_metadata: [first, last, count]
  features,    \* technical_features: the rows of the pair
  job,         \* the tracker's current job
  proc         \* what each handler in flight has read

tables == <<candles, metadata, features>>
exchange == <<closed, heard>>
vars == <<exchange, tables, job, proc>>

Procs == {Backfill, Stream, Api}

\* page: the candles of the page; partial: those the exchange answered with
\* while they were open; fresh: those that were inserted.
Idle == [pc |-> "idle", pair |-> NoRow, start |-> 0, pages |-> 0, page |-> {},
         partial |-> {}, fresh |-> {}, read |-> NoRow, seen |-> {}]

NoJob == [running |-> FALSE, todo |-> {}, broken |-> FALSE]

Init ==
  /\ closed = [pair \in Pairs |-> 0] /\ heard = [pair \in Pairs |-> {}]
  /\ candles = [pair \in Pairs |-> {}]
  /\ metadata = [pair \in Pairs |-> NoRow]
  /\ features = [pair \in Pairs |-> {}]
  /\ job = NoJob
  /\ proc = [p \in Procs |-> Idle]

Await(p, next) == proc' = [proc EXCEPT ![p] = next]
Reply(p) == Await(p, Idle)

-----------------------------------------------------------------------------
(* Storing candles: _upsert_candles, _update_metadata and the commit.      *)

\* Rows that p has upserted and not yet committed.
Locked(p) ==
  IF proc[p].pc \in {"metadata", "commit"}
  THEN {<<proc[p].pair, k>> : k \in proc[p].page} ELSE {}

Free(pair, page) ==
  \A p \in Procs : \A k \in page : <<pair, k>> \notin Locked(p)

Upserted(handler, pair, page) ==
  [handler EXCEPT !.pc = "metadata", !.page = page, !.fresh = page \ candles[pair]]

SelectMetadata(p) ==
  /\ proc[p].pc \in {"metadata", "checkMetadata"}
  /\ Await(p, [proc[p] EXCEPT
                 !.pc = IF proc[p].pc = "metadata" THEN "commit" ELSE "check",
                 !.read = metadata[proc[p].pair]])
  /\ UNCHANGED <<exchange, tables, job>>

\* Mutant: rows that were only updated are counted again.
WrittenCountingUpdates(r, row, now) ==
  IF row = NoRow
  THEN [first |-> Min(r.page), last |-> Max(r.page), count |-> Cardinality(r.page)]
  ELSE [now EXCEPT !.count = row.count + Cardinality(r.page),
                   !.first = Min({row.first} \cup r.page),
                   !.last = Max({row.last} \cup r.page)]

\* Mutant: the candle still open at the end of the page is the resume point.
WrittenWithOpenCandle(r, row, now) ==
  IF row = NoRow
  THEN [first |-> Min(r.page), last |-> Max(r.page) + 1, count |-> Cardinality(r.fresh)]
  ELSE [now EXCEPT !.last = Max({row.last, Max(r.page) + 1})]

\* The row the flush writes.  Only attributes whose value differs from what
\* was read are in the UPDATE, and they overwrite whatever is there now.
Written(r, row, now) ==
  IF row = NoRow
  THEN [first |-> Min(r.page), last |-> Max(r.page), count |-> Cardinality(r.fresh)]
  ELSE [first |-> IF Min(r.page) < row.first THEN Min(r.page) ELSE now.first,
        last  |-> IF Max(r.page) > row.last THEN Max(r.page) ELSE now.last,
        count |-> IF r.fresh = {} THEN now.count ELSE row.count + Cardinality(r.fresh)]

\* Two handlers that both found no row both insert one: the unique constraint
\* makes the second commit fail, and its candles are rolled back.
Collides(p) == proc[p].read = NoRow /\ metadata[proc[p].pair] # NoRow

CommitPage(p) ==
  LET r == proc[p]
  IN  /\ r.pc = "commit" /\ ~Collides(p)
      /\ candles' = [candles EXCEPT ![r.pair] = @ \cup r.page]
      /\ metadata' = [metadata EXCEPT ![r.pair] = Written(r, r.read, @)]
      /\ UNCHANGED <<exchange, features>>

-----------------------------------------------------------------------------
(* Features: compute_and_store_all for the job and the request,            *)
(* compute_latest for the stream.                                          *)

LoadCandles(p) ==
  LET stored == candles[proc[p].pair]
  IN  /\ proc[p].pc = "load"
      /\ IF stored = {} THEN Reply(p)
         ELSE Await(p, [proc[p] EXCEPT
                          !.pc = "features",
                          !.seen = IF p = Stream THEN {Max(stored)} ELSE stored])
      /\ UNCHANGED <<exchange, tables, job>>

TooManyRows(p) == Cardinality(proc[p].seen) > StatementRows

\* Mutant: a row is keyed by the candle it looks forward to, not by its own.
UpsertFeaturesForNext(p) ==
  /\ proc[p].pc = "features" /\ ~TooManyRows(p)
  /\ features' = [features EXCEPT ![proc[p].pair] = @ \cup {k + 1 : k \in proc[p].seen}]
  /\ Reply(p)
  /\ UNCHANGED <<exchange, candles, metadata>>

UpsertFeatures(p) ==
  /\ proc[p].pc = "features" /\ ~TooManyRows(p)
  /\ features' = [features EXCEPT ![proc[p].pair] = @ \cup proc[p].seen]
  /\ Reply(p)
  /\ UNCHANGED <<exchange, candles, metadata>>

-----------------------------------------------------------------------------
(* The backfill job.                                                       *)

\* A second job is refused while one is running.
StartBackfill ==
  /\ ~job.running
  /\ \E todo \in SUBSET Pairs \ {{}} :
       job' = [NoJob EXCEPT !.running = TRUE, !.todo = todo]
  /\ UNCHANGED <<exchange, tables, proc>>

\* A pair is done, with a result or an error that is only reported.
PairDone(pair, broken) ==
  job' = [job EXCEPT !.todo = @ \ {pair}, !.broken = broken]

\* _resume_point; without a row the exchange serves from its first candle.
ResumePoint(row) == IF row = NoRow THEN 1 ELSE row.last + 1

\* A session that was left in a failed transaction fails every statement.
BackfillPair(pair) ==
  /\ job.running /\ pair \in job.todo /\ proc[Backfill].pc = "idle"
  /\ IF job.broken
     THEN PairDone(pair, TRUE) /\ UNCHANGED proc
     ELSE /\ Await(Backfill, [Idle EXCEPT !.pc = "fetch", !.pair = pair,
                                          !.start = ResumePoint(metadata[pair])])
          /\ UNCHANGED job
  /\ UNCHANGED <<exchange, tables>>

\* Mutant: the page holds the newest candles, not the oldest asked for.
ServedNewest(pair, start) ==
  {k \in start..closed[pair] + 1 : k > closed[pair] + 1 - PageSize}

\* external: a page of klines, the open candle included.
Served(pair, start) == {k \in start..closed[pair] + 1 : k < start + PageSize}

\* The exchange answers; its page is as of this moment.
ExchangeAnswers ==
  LET r    == proc[Backfill]
      page == Served(r.pair, r.start)
  IN  /\ r.pc = "fetch"
      /\ Await(Backfill, [r EXCEPT !.pc = "receive", !.page = page,
                                   !.partial = page \ (1..closed[r.pair])])
      /\ UNCHANGED <<exchange, tables, job>>

\* The last candle whose close time the local clock, corrected by the measured
\* offset, may be past (timestamp_ms): the exchange's own flag is not asked.
LastPast(pair) == closed[pair] - Behind .. closed[pair] + Ahead

\* The backfill of the pair is over: features if it has stored anything.
PagesOver(r) ==
  IF r.pages = 0
  THEN Reply(Backfill) /\ PairDone(r.pair, FALSE)
  ELSE /\ Await(Backfill, [Idle EXCEPT !.pc = "load", !.pair = r.pair])
       /\ UNCHANGED job

\* The page arrives, and only now is the clock read that tells which of its
\* candles count as closed.
ReceivePage ==
  LET r == proc[Backfill]
  IN  /\ r.pc = "receive"
      /\ \E last \in LastPast(r.pair) :
           LET page == {k \in r.page : k <= last}
           IN  IF page = {} THEN PagesOver(r)
               ELSE /\ Await(Backfill, [r EXCEPT !.pc = "upsert", !.page = page,
                                                 !.partial = @ \cap page,
                                                 !.pages = @ + 1])
                    /\ UNCHANGED job
      /\ UNCHANGED <<exchange, tables>>

\* The exchange fails; the session is in no transaction that matters.
FetchFails ==
  /\ proc[Backfill].pc \in {"fetch", "receive"}
  /\ PairDone(proc[Backfill].pair, FALSE)
  /\ Reply(Backfill)
  /\ UNCHANGED <<exchange, tables>>

UpsertPage ==
  LET r == proc[Backfill]
  IN  /\ r.pc = "upsert" /\ Free(r.pair, r.page)
      /\ Await(Backfill, Upserted(r, r.pair, r.page))
      /\ UNCHANGED <<exchange, tables, job>>

BackfillCommits ==
  LET r == proc[Backfill]
  IN  /\ CommitPage(Backfill)
      /\ IF Cardinality(r.page) < PageSize \/ r.pages >= MaxPages THEN PagesOver(r)
         ELSE /\ Await(Backfill, [Idle EXCEPT !.pc = "fetch", !.pair = r.pair,
                                              !.pages = r.pages, !.start = Max(r.page) + 1])
              /\ UNCHANGED job

\* The failed flush leaves the session, which all pairs share, unusable.
BackfillCollides ==
  /\ proc[Backfill].pc = "commit" /\ Collides(Backfill)
  /\ PairDone(proc[Backfill].pair, TRUE)
  /\ Reply(Backfill)
  /\ UNCHANGED <<exchange, tables>>

BackfillFeatures ==
  /\ UpsertFeatures(Backfill)
  /\ PairDone(proc[Backfill].pair, FALSE)

\* The driver refuses the statement; whether the transaction survives depends
\* on how far it got.
BackfillFeaturesFail ==
  /\ proc[Backfill].pc = "features" /\ TooManyRows(Backfill)
  /\ \E broken \in BOOLEAN : PairDone(proc[Backfill].pair, broken)
  /\ Reply(Backfill)
  /\ UNCHANGED <<exchange, tables>>

\* Mutant: the job is finished only when its session could be committed.
JobEndsIfCommitted ==
  /\ job.running /\ job.todo = {} /\ ~job.broken
  /\ job' = [job EXCEPT !.running = FALSE]
  /\ UNCHANGED <<exchange, tables, proc>>

\* finally: tracker.finish(job)
JobEnds ==
  /\ job.running /\ job.todo = {}
  /\ job' = [job EXCEPT !.running = FALSE]
  /\ UNCHANGED <<exchange, tables, proc>>

-----------------------------------------------------------------------------
(* The market stream: one closed candle after the other.  The exchange's   *)
(* own flag tells that it is closed.                                       *)

CandleCloses(pair) ==
  /\ closed[pair] < Horizon[pair]
  /\ closed' = [closed EXCEPT ![pair] = @ + 1]
  /\ UNCHANGED <<heard, tables, job, proc>>

\* Candles closed while the stream was disconnected are never announced.
StreamCandle(pair) ==
  /\ proc[Stream].pc = "idle"
  /\ \E k \in 1..closed[pair] :
       /\ \A h \in heard[pair] : h < k
       /\ Free(pair, {k})
       /\ heard' = [heard EXCEPT ![pair] = @ \cup {k}]
       /\ Await(Stream, Upserted([Idle EXCEPT !.pair = pair], pair, {k}))
  /\ UNCHANGED <<closed, tables, job>>

StreamCommits ==
  /\ CommitPage(Stream)
  /\ Await(Stream, [Idle EXCEPT !.pc = "load", !.pair = proc[Stream].pair])
  /\ UNCHANGED job

\* A failure is logged, and the candle is lost.
StreamCollides ==
  /\ proc[Stream].pc = "commit" /\ Collides(Stream)
  /\ Reply(Stream)
  /\ UNCHANGED <<exchange, tables, job>>

StreamFeatures == UpsertFeatures(Stream) /\ UNCHANGED job

-----------------------------------------------------------------------------
(* Requests: compute features, validate integrity.                         *)

RequestFeatures(pair) ==
  /\ proc[Api].pc = "idle"
  /\ Await(Api, [Idle EXCEPT !.pc = "load", !.pair = pair])
  /\ UNCHANGED <<exchange, tables, job>>

ApiFeatures == UpsertFeatures(Api) /\ UNCHANGED job

ApiFeaturesFail ==
  /\ proc[Api].pc = "features" /\ TooManyRows(Api)
  /\ Reply(Api)
  /\ UNCHANGED <<exchange, tables, job>>

\* A pair without candles is skipped.
RequestCheck(pair) ==
  /\ proc[Api].pc = "idle" /\ candles[pair] # {}
  /\ Await(Api, [Idle EXCEPT !.pc = "checkMetadata", !.pair = pair,
                             !.seen = candles[pair]])
  /\ UNCHANGED <<exchange, tables, job>>

\* _persist_report: the count of the rows it has seen replaces the row's.
PersistReport ==
  LET r == proc[Api]
      n == Cardinality(r.seen)
  IN  /\ r.pc = "check"
      /\ metadata' = [metadata EXCEPT ![r.pair].count =
                        IF n = r.read.count THEN @ ELSE n]
      /\ Reply(Api)
      /\ UNCHANGED <<exchange, candles, features, job>>

-----------------------------------------------------------------------------

\* The tracker and every transaction in flight are lost with the process.
Restart ==
  /\ job' = NoJob
  /\ proc' = [p \in Procs |-> Idle]
  /\ UNCHANGED <<exchange, tables>>

BackfillSteps ==
  \/ \E pair \in Pairs : BackfillPair(pair)
  \/ ExchangeAnswers \/ ReceivePage \/ FetchFails \/ UpsertPage \/ BackfillCommits
  \/ BackfillCollides \/ BackfillFeatures \/ BackfillFeaturesFail \/ JobEnds

StreamSteps == StreamCommits \/ StreamCollides \/ StreamFeatures

Next ==
  \/ StartBackfill \/ BackfillSteps \/ StreamSteps
  \/ \E pair \in Pairs : \/ CandleCloses(pair) \/ StreamCandle(pair)
                         \/ RequestFeatures(pair) \/ RequestCheck(pair)
  \/ \E p \in Procs : SelectMetadata(p) \/ LoadCandles(p)
  \/ ApiFeatures \/ ApiFeaturesFail \/ PersistReport
  \/ Restart

Spec == Init /\ [][Next]_vars

-----------------------------------------------------------------------------
(* Properties.                                                             *)

PcType == {"idle", "fetch", "receive", "upsert", "metadata", "commit", "load", "features",
           "checkMetadata", "check"}
RowType == [first : Nat \ {0}, last : Nat \ {0}, count : Nat] \cup {NoRow}
JobType == [running : BOOLEAN, todo : SUBSET Pairs, broken : BOOLEAN]
HandlerType ==
  [pc : PcType, pair : Pairs \cup {NoRow}, start : Nat, pages : 0..MaxPages,
   page : SUBSET Nat, partial : SUBSET Nat, fresh : SUBSET Nat, read : RowType,
   seen : SUBSET Nat]

Closed(pair) == 1..closed[pair]
Listed(pair) == 1..closed[pair] + 1
Past(pair)   == 1..closed[pair] + Ahead

\* Every variable has its type; what is stored is past by the corrected clock,
\* though its values may be of before (OnlyFinalCandlesStored), and features are
\* those of stored candles.
TypeOK ==
  /\ closed \in [Pairs -> Nat] /\ heard \in [Pairs -> SUBSET Nat]
  /\ candles \in [Pairs -> SUBSET Nat] /\ features \in [Pairs -> SUBSET Nat]
  /\ metadata \in [Pairs -> RowType]
  /\ job \in JobType /\ proc \in [Procs -> HandlerType]
  /\ \A pair \in Pairs : /\ closed[pair] <= Horizon[pair]
                         /\ heard[pair] \subseteq Closed(pair)
                         /\ candles[pair] \subseteq Past(pair)
                         /\ features[pair] \subseteq candles[pair]
  /\ \A p \in Procs :
       IF proc[p].pc = "idle" THEN proc[p] = Idle
       ELSE /\ proc[p].pair \in Pairs
            /\ proc[p].partial \subseteq proc[p].page
            /\ proc[p].seen \subseteq Past(proc[p].pair)
            /\ proc[p].page \subseteq IF proc[p].pc = "receive" THEN Listed(proc[p].pair)
                                      ELSE Past(proc[p].pair)

\* A backfill leaves no hole behind it: whatever overlaps, fails or restarts, a
\* candle whose predecessor is missing was put there by the stream.
OnlyLiveCandlesLeaveHoles ==
  \A pair \in Pairs : \A k \in candles[pair] :
    k = 1 \/ k - 1 \in candles[pair] \/ k \in heard[pair]

\* The resume point is a candle that is stored: no restart, collision or lost
\* update makes a backfill resume behind a candle nobody has.
ResumePointIsStored ==
  \A pair \in Pairs : metadata[pair] # NoRow =>
    {metadata[pair].first, metadata[pair].last} \subseteq candles[pair]

\* Overlapping writers may lose an update of candle_count, but never count a
\* candle that is not there, or one candle twice.
CountNeverExceeds ==
  \A pair \in Pairs : metadata[pair] # NoRow =>
    metadata[pair].count <= Cardinality(candles[pair])

\* Only closed candles are ever persisted: no page that is stored holds what the
\* exchange said of a candle while it was open, as if it were final.  It is false,
\* and no run asks for it (README, "Disagreements").
OnlyFinalCandlesStored == [][BackfillCommits => proc[Backfill].partial = {}]_vars

\* A backfill that has stored the last page up to the present has the whole
\* history of its pair up to there: the maximum available, from the first candle on.
BackfillReachesBack ==
  [][BackfillCommits /\ Cardinality(proc[Backfill].page) < PageSize =>
       1..Max(proc[Backfill].page) \subseteq candles'[proc[Backfill].pair]]_vars

-----------------------------------------------------------------------------
(* Liveness.  A statement is answered, and so is a request to the exchange *)
(* (with a page or an error); a lock is given to who waits for it.         *)

Fairness ==
  /\ WF_vars(BackfillSteps) /\ SF_vars(UpsertPage) /\ WF_vars(StreamSteps)
  /\ \A p \in {Backfill, Stream} : WF_vars(SelectMetadata(p)) /\ WF_vars(LoadCandles(p))

FairSpec == Spec /\ Fairness

\* A job ends, whatever fails: the next one would be refused otherwise.
JobFinishes == job.running ~> ~job.running
=============================================================================
