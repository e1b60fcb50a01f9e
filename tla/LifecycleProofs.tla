--------------------------- MODULE LifecycleProofs ---------------------------
(***************************************************************************)
(* What a stop leaves behind and what a healthy report is worth, for every *)
(* stale-data protection, probe timeout and number of outages.             *)
(***************************************************************************)
EXTENDS Lifecycle, TLAPS

-----------------------------------------------------------------------------
(* The strengthening.                                                      *)

Bad == {"ERROR", "OFFLINE", "DEGRADED"}

RestStates ==
  [connected : BOOLEAN, stage : {"ping", "time", "info", "done"}, synced : BOOLEAN,
   failures : Nat]
StreamStates ==
  [task : {"none", "connecting", "consuming", "storing", "backoff", "cancelled", "done"},
   stop : BOOLEAN, connected : BOOLEAN, subscribed : BOOLEAN, age : 0..Never]
SchedulerStates ==
  [task : {"none", "ticking", "sleeping", "cancelled", "done"}, running : BOOLEAN,
   failed : BOOLEAN]
HealthStates ==
  [pending : SUBSET AwaitingProbes, seen : SUBSET (Bad \cup {"ONLINE"}),
   since : 0..ProbeTimeout, overall : Bad \cup {"ONLINE", "none"}]

TypeOK ==
  /\ rest \in RestStates /\ stream \in StreamStates
  /\ scheduler \in SchedulerStates /\ health \in HealthStates

\* A check that has seen nothing bad so far saw fresh data when it began, and
\* the data aged with the check since.
CheckIsSound ==
  health.pending # {} =>
    /\ proc = "up"
    /\ health.seen \cap Bad = {} =>
         /\ rest.connected /\ scheduler.running /\ stream.subscribed
         /\ stream.age <= StaleAfter + health.since

IInv == TypeOK /\ CheckIsSound /\ ShutdownIsOrderly

USE LifecycleAssumption DEF AwaitingProbes

LEMMA FreshStates ==
  /\ NoRest \in RestStates /\ NoStream \in StreamStates
  /\ NoScheduler \in SchedulerStates /\ NoCheck \in HealthStates
<1>1. NoRest \in RestStates /\ NoScheduler \in SchedulerStates
  BY DEF NoRest, RestStates, NoScheduler, SchedulerStates
<1>2. NoStream \in StreamStates
  BY DEF NoStream, StreamStates, Never
<1>3. NoCheck \in HealthStates
  BY DEF NoCheck, HealthStates, Bad
<1> QED BY <1>1, <1>2, <1>3

LEMMA Initially ==
  ASSUME Init
  PROVE  IInv
<1> USE DEF Init
<1>1. TypeOK
  BY FreshStates DEF TypeOK
<1>2. CheckIsSound /\ ShutdownIsOrderly
  BY DEF NoStream, NoScheduler, NoCheck, CheckIsSound, ShutdownIsOrderly
<1> QED BY <1>1, <1>2 DEF IInv

-----------------------------------------------------------------------------
(* The actions.                                                            *)

LEMMA StartsKeep ==
  ASSUME IInv, Start \/ Startup
  PROVE  IInv'
<1> USE DEF IInv, Goes, Startup, CheckDatabase, CheckRedis, Connect, ConnectFails,
            StartStreams, StartScheduler
<1>1. CASE Start
  <2>1. TypeOK'
    BY <1>1, FreshStates DEF Start, TypeOK
  <2>2. CheckIsSound' /\ ShutdownIsOrderly'
    BY <1>1 DEF Start, NoStream, NoScheduler, NoCheck, CheckIsSound, ShutdownIsOrderly
  <2> QED BY <2>1, <2>2
<1>2. CASE Startup
  <2>1. health.pending = {} /\ UNCHANGED health
    BY <1>2 DEF CheckIsSound
  <2>2. rest' \in RestStates
    <3>1. CASE Connect
      <4>1. /\ [rest EXCEPT !.stage = "time", !.failures = 0] \in RestStates
            /\ [rest EXCEPT !.stage = "info", !.synced = TRUE, !.failures = 0] \in RestStates
            /\ [rest EXCEPT !.stage = "done", !.connected = TRUE, !.failures = 0] \in RestStates
        BY DEF TypeOK, RestStates
      <4> QED BY <3>1, <4>1
    <3>2. CASE ConnectFails
      BY <3>2 DEF TypeOK, RestStates
    <3> QED BY <1>2, <3>1, <3>2 DEF TypeOK
  <2>3. stream' \in StreamStates
    BY <1>2, FreshStates DEF TypeOK, StreamStates, NoStream
  <2>4. scheduler' \in SchedulerStates
    BY <1>2, FreshStates DEF TypeOK, SchedulerStates, NoScheduler
  <2>5. proc' \in {"redis", "exchange", "streams", "scheduler", "up"}
    BY <1>2
  <2> QED BY <2>1, <2>2, <2>3, <2>4, <2>5 DEF TypeOK, CheckIsSound, ShutdownIsOrderly
<1> QED BY <1>1, <1>2

LEMMA StreamKeeps ==
  ASSUME IInv, StreamTask \/ Frame
  PROVE  IInv'
<1> USE DEF IInv, StreamTask, Frame, Accepted, NotAccepted, Dropped, BackoffEnds,
            CandleHandled, StreamEnds, Lost, Streams, StreamOnly
<1>0. stream' \in StreamStates
  <2>1. CASE StreamTask
    BY <2>1 DEF TypeOK, StreamStates
  <2>2. CASE Frame
    <3> DEFINE seen == [stream EXCEPT !.age = 0]
    <3>1. seen \in StreamStates
      BY DEF TypeOK, StreamStates, Never
    <3>2. stream' \in {seen, [seen EXCEPT !.task = "storing"], Lost(seen)}
      BY <2>2
    <3> HIDE DEF seen, Frame, StreamTask, IInv
    <3>3. [seen EXCEPT !.task = "storing"] \in StreamStates /\ Lost(seen) \in StreamStates
      BY <3>1 DEF StreamStates
    <3> QED BY <3>1, <3>2, <3>3
  <2> QED BY <2>1, <2>2
<1>1. /\ UNCHANGED <<proc, rest, scheduler, health>> /\ stream.task # "none"
      /\ stream'.subscribed = stream.subscribed
      /\ stream'.age = stream.age \/ stream'.age = 0
  BY DEF TypeOK, StreamStates
<1>2. TypeOK'
  BY <1>0, <1>1 DEF TypeOK
<1>3. CheckIsSound' /\ ShutdownIsOrderly'
  BY <1>1 DEF TypeOK, StreamStates, HealthStates, CheckIsSound, ShutdownIsOrderly
<1> QED BY <1>2, <1>3

LEMMA SchedulerKeeps ==
  ASSUME IInv, SchedulerTask
  PROVE  IInv'
<1> USE DEF IInv, SchedulerTask, TickEnds, NextTick, SchedulerEnds
<1>1. /\ UNCHANGED <<proc, rest, stream, health>> /\ scheduler.task # "none"
      /\ scheduler'.running = scheduler.running /\ scheduler' \in SchedulerStates
  BY DEF TypeOK, SchedulerStates
<1>2. TypeOK'
  BY <1>1 DEF TypeOK
<1>3. CheckIsSound' /\ ShutdownIsOrderly'
  BY <1>1 DEF TypeOK, CheckIsSound, ShutdownIsOrderly
<1> QED BY <1>2, <1>3

\* Each probe that is not bad vouches for its part.
LEMMA ProbesVouch ==
  ASSUME TypeOK
  PROVE  /\ {ExchangeHealth, MarketDataHealth, SchedulerHealth} \subseteq Bad \cup {"ONLINE"}
         /\ ExchangeHealth \notin Bad => rest.connected
         /\ MarketDataHealth \notin Bad => stream.subscribed /\ stream.age <= StaleAfter
         /\ SchedulerHealth \notin Bad => scheduler.running
<1>1. ExchangeHealth \in Bad \cup {"ONLINE"} /\ (ExchangeHealth \notin Bad => rest.connected)
  BY DEF TypeOK, RestStates, Bad, ExchangeHealth
<1>2. /\ MarketDataHealth \in Bad \cup {"ONLINE"}
      /\ MarketDataHealth \notin Bad => stream.subscribed /\ stream.age <= StaleAfter
  BY DEF TypeOK, StreamStates, Bad, MarketDataHealth, DataIsStale, Never
<1>3. SchedulerHealth \in Bad \cup {"ONLINE"} /\ (SchedulerHealth \notin Bad => scheduler.running)
  BY DEF TypeOK, SchedulerStates, Bad, SchedulerHealth
<1> QED BY <1>1, <1>2, <1>3

LEMMA OverallIsWorst ==
  ASSUME NEW seen \in SUBSET (Bad \cup {"ONLINE"})
  PROVE  Overall(seen) \in Bad \cup {"ONLINE"} /\ (Overall(seen) = "ONLINE" => seen \cap Bad = {})
BY DEF Overall, Bad

LEMMA CheckKeeps ==
  ASSUME IInv, CheckHealth \/ ApiCall
  PROVE  IInv'
<1> USE DEF IInv, CheckHealth, ApiCall, NoCheck
<1>1. CASE ApiCall
  <2>1. rest' \in RestStates /\ rest'.connected = rest.connected
    BY <1>1 DEF TypeOK, RestStates
  <2> QED BY <1>1, <2>1 DEF TypeOK, CheckIsSound, ShutdownIsOrderly
<1>2. CASE CheckHealth
  <2> DEFINE seen == {ExchangeHealth, MarketDataHealth, SchedulerHealth}
  <2>1. /\ seen \subseteq Bad \cup {"ONLINE"}
        /\ seen \cap Bad = {} =>
             rest.connected /\ scheduler.running /\ stream.subscribed /\ stream.age <= StaleAfter
    BY ProbesVouch
  <2>2. /\ health' = [pending |-> AwaitingProbes, seen |-> seen, since |-> 0, overall |-> "none"]
        /\ UNCHANGED <<proc, rest, stream, scheduler>> /\ proc = "up"
    BY <1>2
  <2> HIDE DEF seen
  <2>3. TypeOK'
    BY <2>1, <2>2 DEF TypeOK, HealthStates, Bad
  <2>4. CheckIsSound' /\ ShutdownIsOrderly'
    BY <2>1, <2>2 DEF TypeOK, StreamStates, CheckIsSound, ShutdownIsOrderly, Never
  <2> QED BY <2>3, <2>4
<1> QED BY <1>1, <1>2

\* What a probe's answer does to the check.
LEMMA ProbeReports ==
  ASSUME TypeOK, NEW probe \in AwaitingProbes, Probe(probe)
  PROVE  /\ health.pending # {} /\ UNCHANGED <<proc, rest, stream, scheduler>>
         /\ health' \in HealthStates
         /\ health'.pending # {} => /\ health'.since = health.since
                                    /\ health.seen \subseteq health'.seen
         /\ health'.pending = {} /\ health'.overall = "ONLINE" => health.seen \cap Bad = {}
<1>1. PICK status \in Answers(probe) :
        LET pending == health.pending \ {probe}
            seen == health.seen \cup {status}
        IN  health' = IF pending = {} THEN [NoCheck EXCEPT !.overall = Overall(seen)]
                      ELSE [health EXCEPT !.pending = pending, !.seen = seen]
  BY DEF Probe
<1> DEFINE seen == health.seen \cup {status}
           pending == health.pending \ {probe}
<1>2. seen \in SUBSET (Bad \cup {"ONLINE"})
  BY DEF TypeOK, HealthStates, Answers, Bad
<1>3. Overall(seen) \in Bad \cup {"ONLINE"} /\ (Overall(seen) = "ONLINE" => seen \cap Bad = {})
  BY <1>2, OverallIsWorst
<1>4. health' = IF pending = {}
                THEN [pending |-> {}, seen |-> {}, since |-> 0, overall |-> Overall(seen)]
                ELSE [health EXCEPT !.pending = pending, !.seen = seen]
  BY <1>1 DEF NoCheck
<1>5. health.seen \subseteq seen /\ pending \subseteq AwaitingProbes
  BY DEF TypeOK, HealthStates
<1>6. health.pending # {} /\ UNCHANGED <<proc, rest, stream, scheduler>>
  BY DEF Probe
<1> HIDE DEF seen, pending
<1>7. CASE pending = {}
  BY <1>3, <1>4, <1>5, <1>6, <1>7 DEF HealthStates
<1>8. CASE pending # {}
  <2>1. health' \in HealthStates /\ health'.pending = pending /\ health'.seen = seen
        /\ health'.since = health.since
    BY <1>2, <1>4, <1>5, <1>8 DEF TypeOK, HealthStates
  <2> QED BY <2>1, <1>5, <1>6, <1>8
<1> QED BY <1>7, <1>8

LEMMA ProbeKeeps ==
  ASSUME IInv, NEW probe \in AwaitingProbes, Probe(probe)
  PROVE  IInv'
<1>1. TypeOK'
  BY ProbeReports DEF IInv, TypeOK
<1>2. CheckIsSound' /\ ShutdownIsOrderly'
  BY ProbeReports DEF IInv, CheckIsSound, ShutdownIsOrderly
<1> QED BY <1>1, <1>2 DEF IInv

\* Nothing stops while a check is being made, and each task has ended before
\* what it uses is closed.
LEMMA StopsKeep ==
  ASSUME IInv, Stop \/ Shutdown \/ Crash
  PROVE  IInv'
<1> USE DEF IInv, Goes, Stop, Shutdown, SchedulerStopped, RecordShutdown, CloseExchange,
            Dispose, Crash, Cancelled
<1>1. health'.pending = {}
  BY DEF NoCheck, CheckIsSound
<1>2. TypeOK'
  <2>1. rest' \in RestStates /\ health' \in HealthStates
    BY FreshStates DEF TypeOK, RestStates
  <2>2. stream' \in StreamStates
    BY FreshStates DEF TypeOK, StreamStates
  <2>3. scheduler' \in SchedulerStates
    BY FreshStates DEF TypeOK, SchedulerStates
  <2> QED BY <2>1, <2>2, <2>3 DEF TypeOK
<1>3. CheckIsSound'
  BY <1>1 DEF CheckIsSound
<1>4. ShutdownIsOrderly'
  <2>1. CASE Stop \/ SchedulerStopped \/ RecordShutdown
    BY <2>1 DEF TypeOK, StreamStates, SchedulerStates, ShutdownIsOrderly
  <2>2. CASE CloseExchange \/ Dispose
    BY <2>2 DEF TypeOK, StreamStates, ShutdownIsOrderly
  <2>3. CASE Crash
    BY <2>3 DEF NoStream, NoScheduler, ShutdownIsOrderly
  <2> QED BY <2>1, <2>2, <2>3
<1> QED BY <1>2, <1>3, <1>4

LEMMA TimeKeeps ==
  ASSUME IInv, Tick
  PROVE  IInv'
<1> USE DEF IInv, Tick
<1>1. Min({stream.age + 1, Never}) \in 0..Never /\ Min({stream.age + 1, Never}) <= stream.age + 1
  BY DEF TypeOK, StreamStates, Min, Never
<1>2. TypeOK'
  BY <1>1 DEF TypeOK, StreamStates, HealthStates
<1>3. CheckIsSound' /\ ShutdownIsOrderly'
  BY <1>1 DEF TypeOK, StreamStates, HealthStates, CheckIsSound, ShutdownIsOrderly, Never
<1> QED BY <1>2, <1>3

LEMMA OutsideKeeps ==
  ASSUME IInv, UNCHANGED <<proc, rest, stream, scheduler, health>>
  PROVE  IInv'
BY DEF IInv, TypeOK, CheckIsSound, ShutdownIsOrderly

LEMMA EveryStepKeeps ==
  ASSUME IInv, [Next]_vars
  PROVE  IInv'
<1>1. CASE UNCHANGED vars \/ (\E x \in Outside : Outage(x) \/ Recovery(x))
  BY <1>1, OutsideKeeps DEF vars, Outage, Recovery
<1>2. CASE Next
  BY <1>1, <1>2, StartsKeep, StreamKeeps, SchedulerKeeps, CheckKeeps, ProbeKeeps, StopsKeep,
     TimeKeeps
  DEF Next
<1> QED BY <1>1, <1>2

-----------------------------------------------------------------------------
(* The theorems.                                                           *)

\* The strengthening is an invariant of the process.
THEOREM LifecycleInductive == Spec => []IInv
<1>1. Init => IInv
  BY Initially
<1>2. IInv /\ [Next]_vars => IInv'
  BY EveryStepKeeps
<1> QED BY <1>1, <1>2, PTL DEF Spec

\* No pass over the positions runs once the shutdown is recorded and no
\* candle is stored once the database is disposed of (lifespan), wherever the
\* tasks were when the process was told to stop.
THEOREM TasksEndFirst == Spec => []ShutdownIsOrderly
<1>1. IInv => ShutdownIsOrderly
  BY DEF IInv
<1> QED BY <1>1, LifecycleInductive, PTL

\* A report that says ONLINE is about a backend that reached the exchange,
\* with data at most a probe's timeout older than the protection allows
\* (HealthService.check).
THEOREM ReportsAreFresh == Spec => HealthyIsFresh
<1> DEFINE Fresh == /\ rest.connected /\ scheduler.running
                    /\ stream.subscribed /\ stream.age <= StaleAfter + ProbeTimeout
           FreshReports == Reported("ONLINE") => Fresh
<1>1. IInv /\ [Next]_vars => [FreshReports]_vars
  <2> SUFFICES ASSUME IInv, Next, Reported("ONLINE") PROVE Fresh
    OBVIOUS
  <2>1. health.pending # {} /\ proc = "up" /\ health'.pending = {} /\ health'.overall = "ONLINE"
    BY DEF IInv, CheckIsSound, Reported
  <2>2. PICK probe \in AwaitingProbes : Probe(probe)
    <3>1. ~(Start \/ Startup \/ Stop \/ Shutdown \/ Crash \/ CheckHealth)
      BY <2>1 DEF Start, Startup, CheckDatabase, CheckRedis, Connect, ConnectFails,
         StartStreams, StartScheduler, Stop, Shutdown, SchedulerStopped, RecordShutdown,
         CloseExchange, Dispose, Crash, CheckHealth, Goes, NoCheck
    <3>2. ~(StreamTask \/ Frame \/ SchedulerTask \/ ApiCall)
      BY <2>1 DEF StreamTask, Frame, Accepted, NotAccepted, Dropped, BackoffEnds,
         CandleHandled, StreamEnds, StreamOnly, SchedulerTask, TickEnds, NextTick,
         SchedulerEnds, ApiCall
    <3>3. ~(Tick \/ \E x \in Outside : Outage(x) \/ Recovery(x))
      BY <2>1 DEF Tick, Outage, Recovery, IInv, TypeOK, HealthStates
    <3> QED BY <3>1, <3>2, <3>3 DEF Next
  <2>3. health.seen \cap Bad = {}
    BY <2>1, <2>2, ProbeReports DEF IInv
  <2> QED BY <2>1, <2>3 DEF IInv, TypeOK, StreamStates, HealthStates, CheckIsSound, Never
<1>2. Spec => [][FreshReports]_vars
  BY <1>1, LifecycleInductive, PTL DEF Spec
<1> QED BY <1>2 DEF HealthyIsFresh
=============================================================================
