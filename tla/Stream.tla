------------------------------- MODULE Stream -------------------------------
(***************************************************************************)
(* Events on their way to the browser: the event bus and its bounded       *)
(* queues (websocket/event_bus.py), the tasks that serve a connection      *)
(* (websocket/manager.py), the endpoint (api/v1/websocket.py) and the      *)
(* client that reconnects (frontend/src/lib/websocket.ts).                 *)
(*                                                                         *)
(* A connection is a socket of the page.  The event loop runs one action   *)
(* between two awaits; a socket whose peer reads nothing blocks its sends. *)
(***************************************************************************)
EXTENDS Integers, Sequences, FiniteSets, FiniteSetsExt, SequencesExt

CONSTANTS
  Sockets,          \* 1..n: sockets that may exist at the same time
  Topics,           \* EventType, the business events
  Wanted,           \* the lists of topics a client may send
  QueueSize,        \* outbound_queue_size
  MaxConnections,   \* max_connections
  Patience,         \* client_timeout in heartbeat intervals
  Budgets           \* bounds: events, faults and requests of a behaviour

ASSUME StreamAssumption ==
  /\ IsFiniteSet(Sockets) /\ Sockets \subseteq Nat \ {0}
  /\ Wanted \subseteq SUBSET Topics
  /\ QueueSize \in Nat \ {0} /\ MaxConnections \in Nat \ {0}
  /\ Patience \in Nat \ {0, 1}
  /\ Budgets \subseteq [events : Nat, faults : Nat, requests : Nat]

VARIABLES
  conns,      \* each socket, with its Subscriber and what became of its events
  bus,        \* EventBus._subscribers
  manager,    \* ConnectionManager._connections
  page,       \* EventStream
  published,  \* the topics of the events published, in order
  events,     \* events left
  faults,     \* faults left
  requests    \* control messages left

vars == <<conns, bus, manager, page, published, events, faults, requests>>

All == {"all"}    \* topics = None
NoEvent == 0      \* events are numbered in the order of publication

\* beating: the heartbeat awaits its send; pong: an answer is on its way.
\* sent, skipped, offered, latest: what became of the events, for the properties.
FreshConn ==
  [pc |-> "idle", peer |-> "up", queue |-> <<>>, topics |-> All, dropped |-> 0,
   sending |-> NoEvent, silent |-> 0, beating |-> FALSE, pong |-> FALSE,
   replying |-> FALSE, sent |-> <<>>, skipped |-> 0, offered |-> 0, latest |-> 0]

Init ==
  /\ conns = [i \in Sockets |-> FreshConn]
  /\ bus = {} /\ manager = {}
  /\ page = [pc |-> "off", socket |-> 0]
  /\ published = <<>>
  /\ \E budget \in Budgets :
       events = budget.events /\ faults = budget.faults /\ requests = budget.requests

Set(i, conn) == conns' = [conns EXCEPT ![i] = conn]

-----------------------------------------------------------------------------
(* The bus.                                                                *)

Wants(conn, topic) == conn.topics = All \/ topic \in conn.topics

\* Mutant: a full queue refuses the event instead of its oldest.
OfferKeepingOldest(conn, event) ==
  [conn EXCEPT
     !.queue   = IF Len(@) < QueueSize THEN Append(@, event) ELSE @,
     !.dropped = IF Len(conn.queue) < QueueSize THEN @ ELSE @ + 1,
     !.offered = @ + 1, !.latest = event]

\* Subscriber.offer: a full queue drops its oldest event.
Offer(conn, event) ==
  [conn EXCEPT
     !.queue   = Append(IF Len(@) < QueueSize THEN @ ELSE Tail(@), event),
     !.dropped = IF Len(conn.queue) < QueueSize THEN @ ELSE @ + 1,
     !.offered = @ + 1, !.latest = event]

\* A worker, or the log handler, publishes: nobody waits for a subscriber.
Publish(topic) ==
  /\ events > 0 /\ events' = events - 1
  /\ published' = Append(published, topic)
  /\ conns' = [i \in Sockets |->
       IF i \in bus /\ Wants(conns[i], topic) THEN Offer(conns[i], Len(published')) ELSE conns[i]]
  /\ UNCHANGED <<bus, manager, page, faults, requests>>

-----------------------------------------------------------------------------
(* The endpoint and the tasks of a connection.                             *)

\* Mutant: the newcomer is counted too.
AtCapacityEarly == Cardinality(manager) + 1 >= MaxConnections

AtCapacity == Cardinality(manager) >= MaxConnections

\* websocket_endpoint: the capacity is looked at before accept is awaited.
Refuse(i) ==
  /\ conns[i].pc = "asking" /\ AtCapacity
  /\ Set(i, [conns[i] EXCEPT !.pc = "closed"])
  /\ UNCHANGED <<bus, manager, page, published, events, faults, requests>>

Admit(i) ==
  /\ conns[i].pc = "asking" /\ ~AtCapacity
  /\ Set(i, [conns[i] EXCEPT !.pc = "accepting"])
  /\ UNCHANGED <<bus, manager, page, published, events, faults, requests>>

\* serve: the subscriber and the connection are registered, then greeted.
Register(i) ==
  /\ conns[i].pc = "accepting"
  /\ Set(i, [conns[i] EXCEPT !.pc = "greeting"])
  /\ bus' = bus \cup {i} /\ manager' = manager \cup {i}
  /\ UNCHANGED <<page, published, events, faults, requests>>

\* What a send does: it reaches a peer that reads, it is swallowed on the way
\* to one that has vanished, it waits for a stalled one and raises when the
\* peer has left.
Sends(i) == conns[i].peer \in {"up", "vanished"}
Raises(i) == conns[i].peer = "left"

Greet(i) ==
  /\ conns[i].pc = "greeting" /\ Sends(i)
  /\ Set(i, [conns[i] EXCEPT !.pc = "serving"])
  /\ UNCHANGED <<bus, manager, page, published, events, faults, requests>>

\* The greeting is sent outside the try: nothing is unregistered.
GreetingFails(i) ==
  /\ conns[i].pc = "greeting" /\ Raises(i)
  /\ Set(i, [conns[i] EXCEPT !.pc = "abandoned"])
  /\ UNCHANGED <<bus, manager, page, published, events, faults, requests>>

\* _pump_outbound: the filter is asked again, it may have changed meanwhile.
Take(i) ==
  LET conn == conns[i]
      event == Head(conn.queue)
  IN  /\ conn.pc = "serving" /\ conn.sending = NoEvent /\ conn.queue # <<>>
      /\ Set(i, IF Wants(conn, published[event])
                THEN [conn EXCEPT !.queue = Tail(@), !.sending = event]
                ELSE [conn EXCEPT !.queue = Tail(@), !.skipped = @ + 1])
      /\ UNCHANGED <<bus, manager, page, published, events, faults, requests>>

Deliver(i) ==
  /\ conns[i].pc = "serving" /\ conns[i].sending # NoEvent /\ Sends(i)
  /\ Set(i, [conns[i] EXCEPT !.sending = NoEvent,
                             !.sent = Append(@, conns[i].sending)])
  /\ UNCHANGED <<bus, manager, page, published, events, faults, requests>>

\* Every message counts as a sign of life.
Heard(conn) == [conn EXCEPT !.silent = 0]

\* _read_inbound, _handle_control: the answer to a heartbeat.
ReadPong(i) ==
  /\ conns[i].pc = "serving" /\ conns[i].peer = "up"
  /\ conns[i].pong /\ ~conns[i].replying
  /\ Set(i, [Heard(conns[i]) EXCEPT !.pong = FALSE])
  /\ UNCHANGED <<bus, manager, page, published, events, faults, requests>>

\* An empty list of topics subscribes to everything; an empty filter counts
\* as no filter when it is narrowed.
Subscribed(conn, wanted) ==
  IF wanted = {} THEN All ELSE IF conn.topics = All THEN wanted ELSE conn.topics \cup wanted
Unsubscribed(conn, wanted) ==
  (IF conn.topics \in {All, {}} THEN Topics ELSE conn.topics) \ wanted

ReadRequest(i) ==
  /\ conns[i].pc = "serving" /\ conns[i].peer = "up" /\ ~conns[i].replying
  /\ requests > 0 /\ requests' = requests - 1
  /\ \E topics \in {Subscribed(conns[i], wanted) : wanted \in Wanted}
                  \cup {Unsubscribed(conns[i], wanted) : wanted \in Wanted}
                  \cup {conns[i].topics} :          \* an error is answered
       Set(i, [Heard(conns[i]) EXCEPT !.topics = topics, !.replying = TRUE])
  /\ UNCHANGED <<bus, manager, page, published, events, faults>>

Reply(i) ==
  /\ conns[i].pc = "serving" /\ conns[i].replying /\ Sends(i)
  /\ Set(i, [conns[i] EXCEPT !.replying = FALSE])
  /\ UNCHANGED <<bus, manager, page, published, events, faults, requests>>

\* Mutant: the heartbeat is sent whatever the silence.
NeverStale(silent) == FALSE

\* The wake-ups are late, never early: the interval that completes the
\* timeout is past it.
Stale(silent) == silent >= Patience

\* _heartbeat: an interval passes.  A heartbeat that still waits for its send
\* looks at nothing.  A page that is up answers in less than an interval.
Interval(i) ==
  LET conn == conns[i]
      silent == Min({conn.silent + 1, Patience})
  IN  /\ conn.pc = "serving"
      /\ conn.beating => conn.peer = "stalled" /\ conn.silent < Patience
      /\ conn.peer = "up" => ~conn.pong
      /\ Set(i, IF ~conn.beating /\ Stale(silent)
                THEN [conn EXCEPT !.silent = silent, !.pc = "closing"]
                ELSE [conn EXCEPT !.silent = silent, !.beating = TRUE])
      /\ UNCHANGED <<bus, manager, page, published, events, faults, requests>>

Beat(i) ==
  /\ conns[i].pc = "serving" /\ conns[i].beating /\ Sends(i)
  /\ Set(i, [conns[i] EXCEPT !.beating = FALSE, !.pong = conns[i].peer = "up"])
  /\ UNCHANGED <<bus, manager, page, published, events, faults, requests>>

\* The first task to end ends the others: a send or a receive that raises,
\* a message that is not an object, the heartbeat of a silent peer.
PeerLost(i) ==
  /\ conns[i].pc = "serving" /\ Raises(i)
  /\ Set(i, [conns[i] EXCEPT !.pc = "closing"])
  /\ UNCHANGED <<bus, manager, page, published, events, faults, requests>>

ReadGarbage(i) ==
  /\ conns[i].pc = "serving" /\ conns[i].peer = "up" /\ ~conns[i].replying
  /\ requests > 0 /\ requests' = requests - 1
  /\ Set(i, [conns[i] EXCEPT !.pc = "closing"])
  /\ UNCHANGED <<bus, manager, page, published, events, faults>>

\* Mutant: the connection is closed and stays on the bus.
ReleaseSlotOnly(i) ==
  /\ conns[i].pc = "closing"
  /\ Set(i, [FreshConn EXCEPT !.pc = "closed", !.peer = conns[i].peer])
  /\ manager' = manager \ {i}
  /\ UNCHANGED <<bus, page, published, events, faults, requests>>

\* The finally of serve.
Release(i) ==
  /\ conns[i].pc = "closing"
  /\ Set(i, [FreshConn EXCEPT !.pc = "closed", !.peer = conns[i].peer])
  /\ bus' = bus \ {i} /\ manager' = manager \ {i}
  /\ UNCHANGED <<page, published, events, faults, requests>>

-----------------------------------------------------------------------------
(* The page, and what happens to its sockets.                              *)

Free == {i \in Sockets : conns[i].pc \in {"idle", "closed"} /\ page.socket # i}

\* connect
Connect ==
  /\ page.pc \in {"off", "waiting"} /\ Free # {}
  /\ page' = [pc |-> "connecting", socket |-> Min(Free)]
  /\ Set(Min(Free), [FreshConn EXCEPT !.pc = "asking"])
  /\ UNCHANGED <<bus, manager, published, events, faults, requests>>

\* onopen
Opened ==
  /\ page.pc = "connecting" /\ conns[page.socket].peer = "up"
  /\ conns[page.socket].pc \in {"greeting", "serving"}
  /\ page' = [page EXCEPT !.pc = "open"]
  /\ UNCHANGED <<conns, bus, manager, published, events, faults, requests>>

Closed(i) == conns[i].pc = "closed" \/ conns[i].peer \in {"vanished", "left"}

\* onclose: a reconnection is scheduled.
OnClose ==
  /\ page.pc \in {"connecting", "open"} /\ Closed(page.socket)
  /\ page' = [pc |-> "waiting", socket |-> 0]
  /\ UNCHANGED <<conns, bus, manager, published, events, faults, requests>>

\* disconnect: the page goes away.
Disconnect ==
  /\ page.pc # "off" /\ faults > 0 /\ faults' = faults - 1
  /\ page' = [pc |-> "off", socket |-> 0]
  /\ conns' = [i \in Sockets |->
       IF i = page.socket THEN [conns[i] EXCEPT !.peer = "left"] ELSE conns[i]]
  /\ UNCHANGED <<bus, manager, published, events, requests>>

\* external: the network loses the peer without a word, or it stops reading.
PeerChanges(i, peer) ==
  /\ page.socket = i /\ conns[i].peer = "up" /\ faults > 0 /\ faults' = faults - 1
  /\ Set(i, [conns[i] EXCEPT !.peer = peer, !.pong = FALSE])
  /\ UNCHANGED <<bus, manager, page, published, events, requests>>

\* external: a stalled peer reads again, or the web server's own keepalive
\* gives it up.
Wakes(i) ==
  /\ conns[i].peer = "stalled"
  /\ Set(i, [conns[i] EXCEPT !.peer = "up"])
  /\ UNCHANGED <<bus, manager, page, published, events, faults, requests>>

GivenUp(i) ==
  /\ conns[i].peer = "stalled"
  /\ Set(i, [conns[i] EXCEPT !.peer = "left"])
  /\ UNCHANGED <<bus, manager, page, published, events, faults, requests>>

-----------------------------------------------------------------------------
Serve(i) ==
  \/ Refuse(i) \/ Admit(i) \/ Register(i) \/ Greet(i) \/ GreetingFails(i)
  \/ PeerLost(i) \/ Release(i)

Browse == Connect \/ Opened \/ OnClose

Next ==
  \/ \E topic \in Topics : Publish(topic)
  \/ \E i \in Sockets :
       \/ Serve(i) \/ Take(i) \/ Deliver(i) \/ ReadPong(i) \/ ReadRequest(i)
       \/ ReadGarbage(i) \/ Reply(i) \/ Interval(i) \/ Beat(i)
       \/ Wakes(i) \/ GivenUp(i)
       \/ \E peer \in {"vanished", "stalled"} : PeerChanges(i, peer)
  \/ Browse \/ Disconnect

Spec == Init /\ [][Next]_vars

\* The event loop runs every task that can go on, and time passes.  Browse: the
\* page reconnects only from onclose and has no watchdog, so that a browser reports
\* in the end a socket whose peer has vanished is an assumption about the browser.
Fairness ==
  /\ WF_vars(Browse)
  /\ \A i \in Sockets :
       /\ WF_vars(Serve(i)) /\ WF_vars(Take(i)) /\ WF_vars(Deliver(i))
       /\ WF_vars(ReadPong(i)) /\ WF_vars(Reply(i))
       /\ WF_vars(Interval(i)) /\ WF_vars(Beat(i)) /\ WF_vars(GivenUp(i))

FairSpec == Spec /\ Fairness

-----------------------------------------------------------------------------
(* Properties.                                                             *)

\* However slow a client is and whatever it subscribes to meanwhile, every
\* event offered to it is sent, waiting, skipped or counted as dropped, they
\* leave in the order of publication, and what is dropped is never the newest
\* (Subscriber.offer, _pump_outbound).
AccountedFor ==
  \A i \in Sockets :
    LET conn == conns[i]
        sending == IF conn.sending = NoEvent THEN <<>> ELSE <<conn.sending>>
        line == conn.sent \o sending \o conn.queue
    IN  /\ conn.offered = Len(line) + conn.skipped + conn.dropped
        /\ \A j, k \in DOMAIN line : j < k => line[j] < line[k]
        /\ conn.queue # <<>> => Last(conn.queue) = conn.latest

\* What the check in websocket_endpoint is for, and the await after it undoes:
\* no run asks for it (README, "Disagreements").
WithinMaxConnections == Cardinality(manager) <= MaxConnections

\* The bus feeds, and the capacity counts, exactly the connections being
\* served; and for ever those whose greeting failed (serve).
SlotsAreLive ==
  /\ bus = manager
  /\ manager = {i \in Sockets : conns[i].pc \in {"greeting", "serving", "closing", "abandoned"}}

\* A peer that has gone, silently or not, loses its slot, unless its greeting
\* was what failed (_heartbeat, serve).
LostPeersAreReleased ==
  \A i \in Sockets :
    i \in manager /\ conns[i].peer # "up"
      ~> i \notin manager \/ conns[i].peer = "up" \/ conns[i].pc = "abandoned"

Abandoned == {i \in Sockets : conns[i].pc = "abandoned"}

\* A page that stays is served, though it was refused while its own former
\* connection held the last slot; unless abandoned greetings hold them all
\* (websocket_endpoint, EventStream).
PageIsServed ==
  page.pc # "off" ~>
    \/ page.pc = "off"
    \/ page.pc = "open" /\ conns[page.socket].pc = "serving"
    \/ Cardinality(Abandoned) >= MaxConnections
=============================================================================
