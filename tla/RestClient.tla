----------------------------- MODULE RestClient -----------------------------
(***************************************************************************)
(* Requests to the exchange: the rate limiter (binance/rate_limiter.py),   *)
(* the retries of the REST client (binance/rest_client.py), the clock it   *)
(* keeps (binance/time_sync.py) and the errors that steer it               *)
(* (binance/errors.py).  Tasks call it at the same time; what runs between *)
(* two awaits is one action, and Tick is the time that passes in them.     *)
(*                                                                         *)
(* A call is a stack of _request frames: a rejected timestamp makes a      *)
(* request for the server's time inside the retry loop of another.  Times  *)
(* are ages and countdowns, so no clock grows without bound.               *)
(***************************************************************************)
EXTENDS Integers, Sequences, FiniteSetsExt

CONSTANTS
  Callers,
  Asks,                           \* caller -> the kinds of request it makes
  FallbackRules, ExchangeRules,   \* records [type, interval, limit]
  WeightOf,                       \* kind of request -> weight
  MaxRetries, Backoff,            \* max_retries, retry_backoff_seconds
  RetryAfters,                    \* what a 429 may ask for; 0: no header
  RecvWindow,                     \* recv_window_ms
  Skews,                          \* exchange time minus local time
  Latency,                        \* rest_timeout_seconds
  Horizon,                        \* the longest interval of a rule
  MaxCalls                        \* bound

Kinds == {"time", "info", "signed"}
Types == {"REQUEST_WEIGHT", "RAW_REQUESTS"}

ASSUME RestClientAssumption ==
  /\ \A rule \in FallbackRules \cup ExchangeRules :
       /\ rule.interval \in 1..Horizon /\ rule.limit \in Nat \ {0}
  /\ Horizon \in Nat
  /\ Asks \in [Callers -> SUBSET Kinds]
  /\ WeightOf \in [Kinds -> Nat \ {0}]
  /\ MaxRetries \in Nat /\ Backoff \in Nat \ {0} /\ RetryAfters \subseteq Nat
  /\ RecvWindow \in Nat /\ Skews \subseteq Int /\ Latency \in Nat /\ MaxCalls \in Nat

VARIABLES
  windows,    \* RateLimiter: rule -> weight recorded in each span
  sent,       \* what left the process, for the properties
  offset,     \* TimeSync.offset_ms
  trip,       \* TimeSync.round_trip_ms
  synced,     \* TimeSync.synchronised
  failures,   \* consecutive_failures
  calls,      \* each caller's frames and the requests it has sent
  left,       \* calls still to be made
  skew        \* the exchange's clock minus ours

clock == <<offset, trip, synced>>
vars == <<windows, sent, clock, failures, calls, left, skew>>

\* What has happened is counted by span: f[n] is what is less than n moments old.
Spans == 0..Horizon
Nothing == [n \in Spans |-> 0]
More(f, amount) == [n \in Spans |-> IF n = 0 THEN 0 ELSE f[n] + amount]
Older(f) == [n \in Spans |-> IF n = 0 THEN 0 ELSE f[n - 1]]

Installed(rules) == [rule \in rules |-> Nothing]
\* Requests of each kind, under the rules in force and under those before them (rules).
NoneSent == [kind \in Kinds |-> Nothing]
NothingSent(rules, before) == [since |-> NoneSent, before |-> before, rules |-> rules]

\* quiet: what is left of the Retry-After of this request's last answer.
Frame(kind) ==
  [kind |-> kind, pc |-> "acquire", attempt |-> 1, timer |-> 0, elapsed |-> 0,
   stamp |-> 0, error |-> "none", quiet |-> 0]
NoCall == [frames |-> <<>>, sends |-> 0]

Init ==
  /\ windows = Installed(FallbackRules) /\ sent = NothingSent(FallbackRules, NoneSent)
  /\ offset = 0 /\ trip = 0 /\ synced = FALSE
  /\ failures = 0
  /\ calls = [c \in Callers |-> NoCall] /\ left = MaxCalls
  /\ skew \in Skews

Busy(c) == calls[c].frames # <<>>
Depth(c) == Len(calls[c].frames)
Top(c) == calls[c].frames[Depth(c)]
At(c, pc) == Busy(c) /\ Top(c).pc = pc
SetTop(c, frame) == calls' = [calls EXCEPT ![c].frames[Depth(c)] = frame]

\* A nested request ends, well or badly: the loop around it goes on.
Pop(c) ==
  calls' = [calls EXCEPT ![c].frames =
              IF Len(@) = 1 THEN <<>> ELSE <<[@[1] EXCEPT !.pc = "resynced"]>>]

\* Only a BinanceError is suppressed around the nested request.
Unwind(c) == calls' = [calls EXCEPT ![c].frames = <<>>]

-----------------------------------------------------------------------------
(* The limiter: _Window and RateLimiter.                                   *)

\* Mutant: an entry is evicted one moment before it leaves the window.
UsedEarly(rule, delay) ==
  windows[rule][IF delay = rule.interval THEN 0 ELSE rule.interval - delay - 1]

\* _evict: what is still counted after a delay.
Used(rule, delay) == windows[rule][rule.interval - delay]

Cost(rule, weight) == IF rule.type = "RAW_REQUESTS" THEN 1 ELSE weight
Applicable == {rule \in DOMAIN windows : rule.type \in Types}

Fits(weight) ==
  \A rule \in Applicable : Used(rule, 0) + Cost(rule, weight) <= rule.limit

\* wait_seconds: how long until the cost fits.
Wait(rule, weight) ==
  Min({delay \in 0..rule.interval :
         Used(rule, delay) + Cost(rule, weight) <= rule.limit})

NeverFits(weight) == \E rule \in Applicable : Cost(rule, weight) > rule.limit
Delay(weight) == Max({0} \cup {Wait(rule, weight) : rule \in Applicable})

\* Mutant: only the windows of request weight are recorded.
RecordedWeight(weight) ==
  [rule \in DOMAIN windows |->
     IF rule.type = "REQUEST_WEIGHT" THEN More(windows[rule], weight) ELSE windows[rule]]

Recorded(weight) ==
  [rule \in DOMAIN windows |->
     IF rule \in Applicable THEN More(windows[rule], Cost(rule, weight))
     ELSE windows[rule]]

-----------------------------------------------------------------------------
(* One request: _request.                                                  *)

\* A task calls get, server_time_ms or exchange_info.
Call(c, kind) ==
  /\ kind \in Asks[c] /\ ~Busy(c) /\ left > 0 /\ left' = left - 1
  /\ calls' = [calls EXCEPT ![c] = [frames |-> <<Frame(kind)>>, sends |-> 0]]
  /\ UNCHANGED <<windows, sent, clock, failures, skew>>

ReadyToAcquire(c) ==
  \/ At(c, "acquire")
  \/ (At(c, "throttled") \/ At(c, "backoff")) /\ Top(c).timer = 0

\* It sleeps outside the lock and competes again when it wakes up.
Throttle(c) ==
  LET weight == WeightOf[Top(c).kind]
  IN  /\ ReadyToAcquire(c) /\ ~NeverFits(weight) /\ ~Fits(weight)
      /\ SetTop(c, [Top(c) EXCEPT !.pc = "throttled", !.timer = Delay(weight)])
      /\ UNCHANGED <<windows, sent, clock, failures, left, skew>>

\* A request is timestamped with the clock as it is when it is signed.
Sent(frame) ==
  [frame EXCEPT !.pc = "sent", !.timer = 0,
                !.stamp = IF frame.kind = "signed" THEN offset ELSE 0]

Leaves(c, weight) ==
  /\ windows' = Recorded(weight)
  /\ sent' = [sent EXCEPT !.since[Top(c).kind] = More(@, 1)]
  /\ calls' = [calls EXCEPT ![c].frames[Depth(c)] = Sent(@), ![c].sends = @ + 1]

Send(c) ==
  LET weight == WeightOf[Top(c).kind]
  IN  /\ ReadyToAcquire(c) /\ Fits(weight)
      /\ Leaves(c, weight)
      /\ UNCHANGED <<clock, failures, left, skew>>

\* Mutant: what can never fit competes again.
CompetesForEver(c) ==
  /\ ReadyToAcquire(c) /\ NeverFits(WeightOf[Top(c).kind])
  /\ SetTop(c, [Top(c) EXCEPT !.pc = "acquire"])
  /\ UNCHANGED <<windows, sent, clock, failures, left, skew>>

\* acquire raises ValueError: the caller sees it, no failure is counted.
CannotEverFit(c) ==
  /\ ReadyToAcquire(c) /\ NeverFits(WeightOf[Top(c).kind])
  /\ Unwind(c)
  /\ UNCHANGED <<windows, sent, clock, failures, left, skew>>

\* external: the exchange answers, or the connection fails.
TimestampOutside(frame) ==
  LET late == skew - frame.stamp + frame.timer
  IN  frame.kind = "signed" /\ (late > RecvWindow \/ -late > RecvWindow)

Answer(c, error, after) ==
  /\ At(c, "sent")
  /\ error \in {"none", "garbled"} => ~TimestampOutside(Top(c))
  /\ error = "timestamp" => TimestampOutside(Top(c))
  /\ SetTop(c, [Top(c) EXCEPT
       !.pc = "served", !.error = error, !.quiet = after,
       !.stamp = IF Top(c).kind = "time" THEN Top(c).elapsed ELSE 0])
  /\ UNCHANGED <<windows, sent, clock, failures, left, skew>>

\* Mutant: the whole round trip is charged to the way there.
ObserveAtReceipt(frame) ==
  /\ trip' = frame.elapsed
  /\ offset' = skew + frame.stamp - frame.elapsed
  /\ synced' = TRUE

\* observe: server time against the midpoint of the request.  sent_ms is
\* taken before the limiter is entered, so elapsed counts waits and retries.
Observe(frame) ==
  /\ trip' = frame.elapsed
  /\ offset' = skew + frame.stamp - frame.elapsed \div 2
  /\ synced' = TRUE

\* A 200: server_time_ms observes, exchange_info installs fresh windows, or
\* keeps the old ones when the answer declares no usable limit.
Succeed(c) ==
  /\ At(c, "served") /\ Top(c).error = "none"
  /\ failures' = 0
  /\ IF Top(c).kind = "time" THEN Observe(Top(c)) ELSE UNCHANGED clock
  /\ \/ Top(c).kind = "info" /\ windows' = Installed(ExchangeRules)
        /\ sent' = NothingSent(DOMAIN windows, sent.since)
     \/ UNCHANGED <<windows, sent>>
  /\ Pop(c)
  /\ UNCHANGED <<left, skew>>

\* A 200 whose body cannot be read.
Garbled(c) ==
  /\ At(c, "served") /\ Top(c).error = "garbled"
  /\ failures' = 0 /\ Unwind(c)
  /\ UNCHANGED <<windows, sent, clock, left, skew>>

\* BinanceRequestError, BinanceAuthError: never retried.
Refused(c) ==
  /\ At(c, "served") /\ Top(c).error = "refused"
  /\ failures' = failures + 1 /\ Pop(c)
  /\ UNCHANGED <<windows, sent, clock, left, skew>>

\* _backoff_seconds: never shorter than the Retry-After of the last answer.
BackoffFor(frame) ==
  LET base == Backoff * 2 ^ (frame.attempt - 1)
  IN  IF frame.quiet > base THEN frame.quiet ELSE base

\* Mutant: the re-synchronisation starts the budget anew.
RetryAfresh(c, frame) ==
  IF frame.attempt > MaxRetries THEN failures' = failures + 1 /\ Pop(c)
  ELSE /\ SetTop(c, [frame EXCEPT !.pc = "backoff", !.timer = BackoffFor(frame),
              !.error = "none",
              !.attempt = IF frame.error = "timestamp" THEN 1 ELSE frame.attempt + 1])
       /\ UNCHANGED failures

\* The end of an attempt that may be made again, while the budget lasts.
Retry(c, frame) ==
  IF frame.attempt > MaxRetries THEN failures' = failures + 1 /\ Pop(c)
  ELSE /\ SetTop(c, [frame EXCEPT !.pc = "backoff", !.timer = BackoffFor(frame),
                                  !.attempt = frame.attempt + 1, !.error = "none"])
       /\ UNCHANGED failures

Failed(c) ==
  /\ At(c, "served") /\ Top(c).error \in {"transport", "limited"}
  /\ Retry(c, Top(c))
  /\ UNCHANGED <<windows, sent, clock, left, skew>>

\* A rejected timestamp: the estimate is dropped and asked for anew.
Resync(c) ==
  /\ At(c, "served") /\ Top(c).error = "timestamp"
  /\ synced' = FALSE
  /\ calls' = [calls EXCEPT ![c].frames = Append(@, Frame("time"))]
  /\ UNCHANGED <<windows, sent, offset, trip, failures, left, skew>>

Resume(c) ==
  /\ At(c, "resynced")
  /\ Retry(c, Top(c))
  /\ UNCHANGED <<windows, sent, clock, left, skew>>

-----------------------------------------------------------------------------
(* Time.                                                                   *)

\* What runs next does not wait for the clock.  Only a request for the time
\* tells the way there from the way back: the others take all theirs before
\* they are answered.
Due(c) ==
  Busy(c) /\ CASE Top(c).pc \in {"throttled", "backoff"} -> Top(c).timer = 0
               [] Top(c).pc = "sent" -> Top(c).timer = Latency
               [] Top(c).pc = "served" -> Top(c).timer = Latency \/ Top(c).kind # "time"
               [] OTHER -> TRUE

Passed(frame, top) ==
  [frame EXCEPT
     !.timer   = IF ~top THEN @ ELSE IF frame.pc \in {"sent", "served"} THEN @ + 1 ELSE @ - 1,
     !.elapsed = IF frame.kind = "time" THEN @ + 1 ELSE @,
     !.quiet   = IF frame.pc = "served" \/ @ = 0 THEN @ ELSE @ - 1]

Tick ==
  /\ \A c \in Callers : ~Due(c)
  /\ windows' = [rule \in DOMAIN windows |-> Older(windows[rule])]
  /\ sent' = [sent EXCEPT !.since  = [kind \in Kinds |-> Older(@[kind])],
                          !.before = [kind \in Kinds |-> Older(@[kind])]]
  /\ calls' = [c \in Callers |-> [calls[c] EXCEPT !.frames =
       [i \in DOMAIN @ |-> Passed(@[i], i = Len(@))]]]
  /\ UNCHANGED <<clock, failures, left, skew>>

Step(c) ==
  \/ Throttle(c) \/ Send(c) \/ CannotEverFit(c)
  \/ \E error \in {"none", "garbled", "refused", "transport", "timestamp"} :
       Answer(c, error, 0)
  \/ \E after \in RetryAfters : Answer(c, "limited", after)
  \/ Succeed(c) \/ Garbled(c) \/ Refused(c) \/ Failed(c) \/ Resync(c) \/ Resume(c)

Next == Tick \/ \E c \in Callers : Step(c) \/ \E kind \in Kinds : Call(c, kind)

Spec == Init /\ [][Next]_vars

\* Time passes and the event loop runs what is ready.
FairSpec == Spec /\ WF_vars(Tick) /\ \A c \in Callers : WF_vars(Step(c))

-----------------------------------------------------------------------------
(* Properties.                                                             *)

\* The frames of a call: a request, and the one for the time it waits for.
FrameType == [kind : Kinds,
              pc : {"acquire", "throttled", "backoff", "sent", "served", "resynced"},
              attempt : 1..MaxRetries + 1, timer : Int, elapsed : Nat, stamp : Int,
              error : {"none", "garbled", "refused", "transport", "timestamp", "limited"},
              quiet : Nat]

Counts == [Spans -> Nat]

\* Every variable has its type; a request nests no deeper than one.
TypeOK ==
  /\ DOMAIN windows \in {FallbackRules, ExchangeRules}
  /\ windows \in [DOMAIN windows -> Counts]
  /\ sent \in [since : [Kinds -> Counts], before : [Kinds -> Counts],
               rules : {FallbackRules, ExchangeRules}]
  /\ offset \in Int /\ trip \in Nat /\ synced \in BOOLEAN /\ failures \in Nat
  /\ calls \in [Callers -> [frames : Seq(FrameType), sends : Nat]]
  /\ \A c \in Callers : Depth(c) <= 2
  /\ left \in 0..MaxCalls /\ skew \in Skews

\* What requests cost a rule within its interval.
Left(rule, requests) ==
  Cost(rule, WeightOf["time"]) * requests["time"][rule.interval]
    + Cost(rule, WeightOf["info"]) * requests["info"][rule.interval]
    + Cost(rule, WeightOf["signed"]) * requests["signed"][rule.interval]

\* Whatever the tasks do at once, what has left the process under the rules in
\* force fits every declared window: the waiters that sleep outside the lock
\* and compete again never add up to more (acquire).
LimitsInForce == \A rule \in Applicable : Left(rule, sent.since) <= rule.limit

\* The exchange's rules forget what was sent under the rules before them, which
\* costs at most the limit of an old rule that covers the new one (_install;
\* connect asks for the rules once).
HandoverWithinBothLimits ==
  \A rule \in Applicable, old \in sent.rules :
    old.type = "REQUEST_WEIGHT" /\ rule.interval <= old.interval =>
      Left(rule, sent.since) + Left(rule, sent.before) <= rule.limit + old.limit

\* Both: what the exchange counts against a declared limit is bounded.
WithinDeclaredLimits == LimitsInForce /\ HandoverWithinBothLimits

\* The retry budget bounds the requests one call sends, those for the
\* server's time included (BinanceTimestampError.retryable, _request).
RetryBudget ==
  \A c \in Callers : calls[c].sends <= (MaxRetries + 1) * (MaxRetries + 2)

\* A synchronised clock is wrong by at most half the round trip it measured,
\* however long the request waited and was retried (observe).
OffsetWithinHalfTrip ==
  synced => 2 * (offset - skew) <= trip + 1 /\ 2 * (skew - offset) <= trip

\* Every call ends, with an answer or an error.
CallsEnd == \A c \in Callers : Busy(c) ~> ~Busy(c)
=============================================================================
