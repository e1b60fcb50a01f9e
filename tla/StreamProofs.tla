---------------------------- MODULE StreamProofs -----------------------------
(***************************************************************************)
(* What becomes of an event and of a slot, for any number of sockets,      *)
(* topics and events and any size of the queues.                           *)
(***************************************************************************)
EXTENDS Stream, WellFoundedInduction, TLAPS

\* A non-empty set of naturals has a least element.
LEMMA LeastElement ==
  ASSUME NEW T, T \subseteq Nat, T # {}
  PROVE  \E m \in T : \A k \in T : m <= k
<1> DEFINE R == {ss \in Nat \X Nat : ss[1] < ss[2]}
<1>1. IsWellFoundedOn(R, Nat) BY NatLessThanWellFounded DEF OpToRel
<1>2. \A k, m \in T : <<k, m>> \notin R => m <= k OBVIOUS
<1> HIDE DEF R
<1> QED BY <1>1, <1>2, WFMin, Zenon

-----------------------------------------------------------------------------
(* The strengthening.                                                      *)

Live == {"greeting", "serving", "closing", "abandoned"}

ConnStates ==
  [pc : {"idle", "asking", "accepting", "closed"} \cup Live,
   peer : {"up", "vanished", "stalled", "left"}, queue : Seq(Nat),
   topics : {All} \cup SUBSET Topics, dropped : Nat, sending : Nat, silent : Nat,
   beating : BOOLEAN, pong : BOOLEAN, replying : BOOLEAN, sent : Seq(Nat),
   skipped : Nat, offered : Nat, latest : Nat]

Rising(line) == \A j, k \in 1..Len(line) : j < k => line[j] < line[k]

\* Events leave in the order of publication, however far each has come.
InOrder(conn, n) ==
  /\ Rising(conn.sent) /\ Rising(conn.queue)
  /\ \A j \in 1..Len(conn.sent), k \in 1..Len(conn.queue) : conn.sent[j] < conn.queue[k]
  /\ \A k \in 1..Len(conn.queue) : conn.queue[k] \in 1..n
  /\ \A j \in 1..Len(conn.sent) : conn.sent[j] \in 1..n
  /\ conn.sending # NoEvent =>
       /\ conn.sending \in 1..n
       /\ \A j \in 1..Len(conn.sent) : conn.sent[j] < conn.sending
       /\ \A k \in 1..Len(conn.queue) : conn.sending < conn.queue[k]

Sending(conn) == IF conn.sending = NoEvent THEN 0 ELSE 1

\* None is lost from the count, and the newest is never the one dropped.
Counted(conn) ==
  /\ conn.offered = Len(conn.sent) + Sending(conn) + Len(conn.queue)
                    + conn.skipped + conn.dropped
  /\ conn.queue # <<>> => conn.queue[Len(conn.queue)] = conn.latest

Honest(conn, n) == conn \in ConnStates /\ InOrder(conn, n) /\ Counted(conn)

IInv ==
  /\ published \in Seq(Topics) /\ conns \in [Sockets -> ConnStates]
  /\ \A i \in Sockets : Honest(conns[i], Len(published))
  /\ SlotsAreLive

-----------------------------------------------------------------------------
(* Sequences of events.                                                    *)

LEMMA TailOf ==
  ASSUME NEW q \in Seq(Nat), q # <<>>
  PROVE  /\ Tail(q) \in Seq(Nat) /\ Len(Tail(q)) = Len(q) - 1
         /\ Head(q) = q[1] /\ Len(q) \in Nat /\ 1 \in 1..Len(q)
         /\ \A k \in 1..Len(Tail(q)) : k + 1 \in 1..Len(q) /\ Tail(q)[k] = q[k + 1]
OBVIOUS

LEMMA MinOfTwo ==
  ASSUME NEW a \in Nat, NEW b \in Nat
  PROVE  Min({a, b}) \in Nat
<1>1. \E x \in {a, b} : \A y \in {a, b} : x <= y OBVIOUS
<1>2. Min({a, b}) \in {a, b} BY <1>1 DEF Min
<1> QED BY <1>2

LEMMA AppendOf ==
  ASSUME NEW q \in Seq(Nat), NEW e \in Nat
  PROVE  /\ Append(q, e) \in Seq(Nat) /\ Len(Append(q, e)) = Len(q) + 1 /\ Len(q) \in Nat
         /\ \A k \in 1..Len(q) : Append(q, e)[k] = q[k]
         /\ Append(q, e)[Len(q) + 1] = e
OBVIOUS

LEMMA ConcatOf ==
  ASSUME NEW q \in Seq(Nat), NEW s \in Seq(Nat)
  PROVE  /\ q \o s \in Seq(Nat) /\ Len(q \o s) = Len(q) + Len(s)
         /\ \A k \in 1..Len(q) : (q \o s)[k] = q[k]
         /\ \A k \in 1..Len(s) : (q \o s)[Len(q) + k] = s[k]
OBVIOUS

\* A rising line stays one when its first is taken and a later one is added.
LEMMA RisingTail ==
  ASSUME NEW q \in Seq(Nat), q # <<>>, Rising(q)
  PROVE  Rising(Tail(q)) /\ \A k \in 1..Len(Tail(q)) : Head(q) < Tail(q)[k]
<1> DEFINE t == Tail(q)
<1>1. /\ Len(t) = Len(q) - 1 /\ Len(q) \in Nat /\ Head(q) = q[1] /\ 1 \in 1..Len(q)
      /\ \A k \in 1..Len(t) : k + 1 \in 1..Len(q) /\ t[k] = q[k + 1]
  BY TailOf
<1> HIDE DEF t
<1>2. ASSUME NEW j \in 1..Len(t), NEW k \in 1..Len(t), j < k
      PROVE  t[j] < t[k]
  <2>1. j + 1 \in 1..Len(q) /\ k + 1 \in 1..Len(q) /\ j + 1 < k + 1
    BY <1>1, <1>2
  <2> QED BY <1>1, <2>1 DEF Rising
<1>3. ASSUME NEW k \in 1..Len(t)
      PROVE  Head(q) < t[k]
  <2>1. 1 \in 1..Len(q) /\ k + 1 \in 1..Len(q) /\ 1 < k + 1
    BY <1>1
  <2> QED BY <1>1, <2>1 DEF Rising
<1> QED BY <1>2, <1>3 DEF Rising, t

LEMMA RisingAppend ==
  ASSUME NEW q \in Seq(Nat), NEW e \in Nat, Rising(q), \A k \in 1..Len(q) : q[k] < e
  PROVE  Rising(Append(q, e))
<1> DEFINE t == Append(q, e)
<1>1. /\ Len(t) = Len(q) + 1 /\ Len(q) \in Nat /\ t[Len(q) + 1] = e
      /\ \A k \in 1..Len(q) : t[k] = q[k]
  BY AppendOf
<1> HIDE DEF t
<1>2. Rising(t)
  <2> SUFFICES ASSUME NEW j \in 1..Len(t), NEW k \in 1..Len(t), j < k
               PROVE  t[j] < t[k]
    BY DEF Rising
  <2>1. j \in 1..Len(q) /\ t[j] = q[j] BY <1>1
  <2>2. CASE k = Len(q) + 1 BY <1>1, <2>1, <2>2
  <2>3. CASE k # Len(q) + 1
    <3>1. k \in 1..Len(q) /\ t[k] = q[k] BY <1>1, <2>3
    <3> QED BY <2>1, <3>1 DEF Rising
  <2> QED BY <2>2, <2>3
<1> QED BY <1>2 DEF t

\* Two rising lines, one behind the other.
LEMMA RisingConcat ==
  ASSUME NEW q \in Seq(Nat), NEW s \in Seq(Nat), Rising(q), Rising(s),
         \A j \in 1..Len(q), k \in 1..Len(s) : q[j] < s[k]
  PROVE  Rising(q \o s)
<1> DEFINE t == q \o s
<1>1. /\ Len(t) = Len(q) + Len(s) /\ Len(q) \in Nat /\ Len(s) \in Nat
      /\ \A k \in 1..Len(q) : t[k] = q[k]
      /\ \A k \in 1..Len(s) : t[Len(q) + k] = s[k]
  BY ConcatOf
<1> HIDE DEF t
<1>2. SUFFICES ASSUME NEW j \in 1..Len(t), NEW k \in 1..Len(t), j < k
               PROVE  t[j] < t[k]
  BY DEF Rising, t
<1>3. CASE k <= Len(q)
  <2>1. j \in 1..Len(q) /\ k \in 1..Len(q)
    BY <1>1, <1>2, <1>3
  <2>2. t[j] = q[j] /\ t[k] = q[k]
    BY <1>1, <2>1
  <2> QED BY <1>2, <2>1, <2>2 DEF Rising
<1>4. CASE j > Len(q)
  <2>1. /\ j - Len(q) \in 1..Len(s) /\ k - Len(q) \in 1..Len(s)
        /\ j = Len(q) + (j - Len(q)) /\ k = Len(q) + (k - Len(q))
        /\ j - Len(q) < k - Len(q)
    BY <1>1, <1>2, <1>4
  <2>2. t[j] = s[j - Len(q)] /\ t[k] = s[k - Len(q)]
    BY <1>1, <2>1
  <2> QED BY <2>1, <2>2 DEF Rising
<1>5. CASE j <= Len(q) /\ k > Len(q)
  <2>1. j \in 1..Len(q) /\ k - Len(q) \in 1..Len(s) /\ k = Len(q) + (k - Len(q))
    BY <1>1, <1>2, <1>5
  <2>2. t[j] = q[j] /\ t[k] = s[k - Len(q)]
    BY <1>1, <2>1
  <2> QED BY <2>1, <2>2
<1> QED BY <1>1, <1>2, <1>3, <1>4, <1>5

-----------------------------------------------------------------------------
(* One connection.                                                         *)

\* The parts of an honest connection, one by one.
LEMMA HonestParts ==
  ASSUME NEW n \in Nat, NEW c, Honest(c, n)
  PROVE  /\ c.queue \in Seq(Nat) /\ c.sent \in Seq(Nat) /\ c.sending \in Nat
         /\ Len(c.queue) \in Nat /\ Len(c.sent) \in Nat
         /\ c.skipped \in Nat /\ c.dropped \in Nat /\ c.offered \in Nat
BY DEF Honest, ConnStates

\* A connection that has been offered nothing.
LEMMA FreshIsHonest ==
  ASSUME NEW n \in Nat, NEW pc \in {"idle", "asking", "accepting", "closed"} \cup Live,
         NEW peer \in {"up", "vanished", "stalled", "left"},
         NEW c, c \in {FreshConn, [FreshConn EXCEPT !.pc = pc],
                       [FreshConn EXCEPT !.pc = pc, !.peer = peer]}
  PROVE  Honest(c, n)
<1>1. FreshConn \in ConnStates
  <2>1. <<>> \in Seq(Nat)
    OBVIOUS
  <2> QED BY <2>1 DEF FreshConn, ConnStates, NoEvent
<1>2. c \in ConnStates
  <2>1. [FreshConn EXCEPT !.pc = pc] \in ConnStates
    BY <1>1 DEF ConnStates
  <2>2. [FreshConn EXCEPT !.pc = pc, !.peer = peer] \in ConnStates
    BY <1>1 DEF ConnStates
  <2> QED BY <1>1, <2>1, <2>2
<1>3. /\ c.queue = <<>> /\ c.sent = <<>> /\ c.sending = NoEvent
      /\ c.offered = 0 /\ c.skipped = 0 /\ c.dropped = 0
  <2>1. CASE c = FreshConn
    BY <2>1 DEF FreshConn
  <2>2. CASE c = [FreshConn EXCEPT !.pc = pc]
    BY <2>2 DEF FreshConn
  <2>3. CASE c = [FreshConn EXCEPT !.pc = pc, !.peer = peer]
    BY <2>3 DEF FreshConn
  <2> QED BY <2>1, <2>2, <2>3
<1>4. InOrder(c, n) /\ Counted(c)
  BY <1>3 DEF InOrder, Counted, Rising, Sending
<1> QED BY <1>2, <1>4 DEF Honest

Same(c, d) ==
  /\ d.queue = c.queue /\ d.sent = c.sent /\ d.sending = c.sending
  /\ d.dropped = c.dropped /\ d.skipped = c.skipped
  /\ d.offered = c.offered /\ d.latest = c.latest

LEMMA SameIsHonest ==
  ASSUME NEW n \in Nat, NEW m \in Nat, n <= m,
         NEW c, Honest(c, n), NEW d \in ConnStates, Same(c, d)
  PROVE  Honest(d, m)
BY DEF Honest, Same, InOrder, Counted, Sending

\* Subscriber.offer: the newest event is queued behind the others; when the
\* queue is full the oldest of it is counted as dropped.
LEMMA OfferIsHonest ==
  ASSUME NEW n \in Nat, NEW c, Honest(c, n)
  PROVE  Honest(Offer(c, n + 1), n + 1)
<1> DEFINE fits == Len(c.queue) < QueueSize
           kept == IF fits THEN c.queue ELSE Tail(c.queue)
           dropped == IF fits THEN c.dropped ELSE c.dropped + 1
           d == Offer(c, n + 1)
<1>1. /\ c.queue \in Seq(Nat) /\ c.sent \in Seq(Nat) /\ c.sending \in Nat
      /\ Len(c.queue) \in Nat /\ Len(c.sent) \in Nat
      /\ c.skipped \in Nat /\ c.dropped \in Nat /\ c.offered \in Nat
  BY HonestParts
<1>2. /\ kept \in Seq(Nat) /\ Rising(kept) /\ dropped \in Nat
      /\ Len(kept) + dropped = Len(c.queue) + c.dropped
      /\ \A k \in 1..Len(kept) : \E j \in 1..Len(c.queue) : kept[k] = c.queue[j]
  <2>1. Rising(c.queue)
    BY DEF Honest, InOrder
  <2>2. CASE fits
    BY <1>1, <2>1, <2>2
  <2>3. CASE ~fits
    <3>1. c.queue # <<>>
      <4>1. Len(c.queue) # 0
        BY <1>1, <2>3, StreamAssumption
      <4> QED BY <4>1
    <3>2. /\ Tail(c.queue) \in Seq(Nat) /\ Len(Tail(c.queue)) = Len(c.queue) - 1
          /\ \A k \in 1..Len(Tail(c.queue)) :
               k + 1 \in 1..Len(c.queue) /\ Tail(c.queue)[k] = c.queue[k + 1]
      BY <1>1, <3>1, TailOf
    <3>3. Rising(Tail(c.queue))
      BY <1>1, <2>1, <3>1, RisingTail
    <3>4. kept = Tail(c.queue) /\ dropped = c.dropped + 1
      BY <2>3
    <3> HIDE DEF kept, dropped, fits
    <3>5. \A k \in 1..Len(kept) : \E j \in 1..Len(c.queue) : kept[k] = c.queue[j]
      BY <3>2, <3>4
    <3>6. Len(kept) + dropped = Len(c.queue) + c.dropped /\ dropped \in Nat
      <4>1. Len(c.queue) \in Nat /\ c.dropped \in Nat
        BY <1>1
      <4>2. \A x, y \in Nat : (x - 1) + (y + 1) = x + y /\ y + 1 \in Nat
        OBVIOUS
      <4>3. Len(kept) = Len(c.queue) - 1 /\ dropped = c.dropped + 1
        BY <3>2, <3>4
      <4> DEFINE x == Len(c.queue)
                 y == c.dropped
      <4>4. x \in Nat /\ y \in Nat BY <4>1
      <4> HIDE DEF x, y
      <4>5. Len(kept) = x - 1 /\ dropped = y + 1 BY <4>3 DEF x, y
      <4>6. Len(kept) + dropped = x + y /\ dropped \in Nat BY <4>2, <4>4, <4>5
      <4> QED BY <4>6 DEF x, y
    <3> QED BY <3>2, <3>3, <3>4, <3>5, <3>6
  <2> HIDE DEF fits
  <2> QED BY <2>2, <2>3
<1>3. d = [c EXCEPT !.queue = Append(kept, n + 1), !.dropped = dropped,
                    !.offered = c.offered + 1, !.latest = n + 1]
  BY DEF Offer, Honest, ConnStates
<1> HIDE DEF fits, kept, dropped, d
<1>4. Append(kept, n + 1) \in Seq(Nat) /\ c.offered + 1 \in Nat /\ n + 1 \in Nat
  BY <1>1, <1>2, AppendOf
<1>5. d \in ConnStates
  BY <1>2, <1>3, <1>4 DEF Honest, ConnStates
<1>6. /\ d.queue = Append(kept, n + 1) /\ d.latest = n + 1 /\ d.offered = c.offered + 1
      /\ d.dropped = dropped
      /\ d.sent = c.sent /\ d.sending = c.sending /\ d.skipped = c.skipped
  BY <1>3 DEF Honest, ConnStates
<1>7. /\ Len(d.queue) = Len(kept) + 1 /\ Len(kept) \in Nat
      /\ d.queue[Len(kept) + 1] = n + 1
      /\ \A k \in 1..Len(kept) : d.queue[k] = kept[k]
  BY <1>2, <1>4, <1>6, AppendOf
<1>8. ASSUME NEW k \in 1..Len(kept)
      PROVE  /\ kept[k] \in 1..n
             /\ \A j \in 1..Len(c.sent) : c.sent[j] < kept[k]
             /\ c.sending # NoEvent => c.sending < kept[k]
  <2>1. PICK j \in 1..Len(c.queue) : kept[k] = c.queue[j]
    BY <1>2
  <2> QED BY <2>1 DEF Honest, InOrder
<1>9. InOrder(d, n + 1)
  <2>1. Rising(d.queue)
    <3>1. \A k \in 1..Len(kept) : kept[k] < n + 1
      BY <1>8
    <3> QED BY <1>2, <1>4, <1>6, <3>1, RisingAppend
  <2>2. /\ \A j \in 1..Len(c.sent) : c.sent[j] \in 1..(n + 1) /\ c.sent[j] < n + 1
        /\ Rising(c.sent)
        /\ c.sending # NoEvent => /\ c.sending \in 1..(n + 1) /\ c.sending < n + 1
                                  /\ \A j \in 1..Len(c.sent) : c.sent[j] < c.sending
    BY DEF Honest, InOrder
  <2>3. ASSUME NEW k \in 1..Len(d.queue)
        PROVE  /\ d.queue[k] \in 1..(n + 1)
               /\ \A j \in 1..Len(c.sent) : c.sent[j] < d.queue[k]
               /\ c.sending # NoEvent => c.sending < d.queue[k]
    <3>1. CASE k = Len(kept) + 1
      BY <1>7, <2>2, <3>1
    <3>2. CASE k # Len(kept) + 1
      <4>1. k \in 1..Len(kept)
        BY <1>7, <3>2
      <4>2. d.queue[k] = kept[k] /\ kept[k] \in 1..n
        BY <1>7, <1>8, <4>1
      <4> QED BY <1>8, <4>1, <4>2
    <3> QED BY <3>1, <3>2
  <2>4. d.sent = c.sent /\ d.sending = c.sending
    BY <1>6
  <2> QED BY <2>1, <2>2, <2>3, <2>4 DEF InOrder
<1>10. Counted(d)
  <2>1. c.offered = Len(c.sent) + Sending(c) + Len(c.queue) + c.skipped + c.dropped
    BY DEF Honest, Counted
  <2>2. Sending(d) = Sending(c) /\ Sending(c) \in Nat /\ Len(d.sent) = Len(c.sent)
    BY <1>6 DEF Sending
  <2>3. Len(d.queue) = Len(kept) + 1 /\ Len(kept) \in Nat /\ dropped \in Nat
        /\ Len(kept) + dropped = Len(c.queue) + c.dropped
    BY <1>2, <1>7
  <2>4. d.offered = Len(d.sent) + Sending(d) + Len(d.queue) + d.skipped + d.dropped
    <3>1. Len(c.sent) \in Nat /\ Len(c.queue) \in Nat /\ c.skipped \in Nat /\ c.dropped \in Nat
      BY <1>1
    <3>2. Len(d.queue) \in Nat /\ Len(d.queue) + dropped = Len(c.queue) + c.dropped + 1
      BY <2>3, <3>1
    <3>3. Len(c.sent) + Sending(c) + Len(d.queue) + c.skipped + dropped
            = Len(c.sent) + Sending(c) + Len(c.queue) + c.skipped + c.dropped + 1
      <4> DEFINE a == Len(c.sent)
                 b == Sending(c)
                 q == Len(c.queue)
                 s == c.skipped
                 x == c.dropped
                 q2 == Len(d.queue)
      <4>1. /\ a \in Nat /\ b \in Nat /\ q \in Nat /\ s \in Nat /\ x \in Nat
            /\ q2 \in Nat /\ dropped \in Nat /\ q2 + dropped = q + x + 1
        BY <2>2, <2>3, <3>1, <3>2
      <4> HIDE DEF a, b, q, s, x, q2
      <4>2. a + b + q2 + s + dropped = a + b + q + s + x + 1
        BY <4>1
      <4> QED BY <4>2 DEF a, b, q, s, x, q2
    <3>4. d.offered = c.offered + 1 /\ d.skipped = c.skipped /\ d.dropped = dropped
      BY <1>6
    <3> QED BY <2>1, <2>2, <3>3, <3>4
  <2>5. d.queue[Len(d.queue)] = d.latest
    BY <1>6, <1>7
  <2> QED BY <2>4, <2>5 DEF Counted
<1> QED BY <1>5, <1>9, <1>10 DEF Honest, d

Taken(c, d) ==
  /\ c.queue # <<>> /\ c.sending = NoEvent
  /\ \/ d = [c EXCEPT !.queue = Tail(@), !.sending = Head(c.queue)]
     \/ d = [c EXCEPT !.queue = Tail(@), !.skipped = @ + 1]

\* _pump_outbound takes the oldest event, to send it or to skip it.
LEMMA TakeIsHonest ==
  ASSUME NEW n \in Nat, NEW c, Honest(c, n), NEW d, Taken(c, d)
  PROVE  Honest(d, n)
<1> DEFINE t == Tail(c.queue)
           h == Head(c.queue)
<1>1. /\ c.queue \in Seq(Nat) /\ c.sent \in Seq(Nat) /\ c.sending \in Nat
      /\ Len(c.queue) \in Nat /\ Len(c.sent) \in Nat
      /\ c.skipped \in Nat /\ c.dropped \in Nat /\ c.offered \in Nat
  BY HonestParts
<1>2. /\ t \in Seq(Nat) /\ Len(t) = Len(c.queue) - 1 /\ h = c.queue[1] /\ 1 \in 1..Len(c.queue)
      /\ \A k \in 1..Len(t) : k + 1 \in 1..Len(c.queue) /\ t[k] = c.queue[k + 1]
  BY <1>1, TailOf DEF Taken
<1>3. Rising(t) /\ \A k \in 1..Len(t) : h < t[k]
  BY <1>1, RisingTail DEF Honest, InOrder, Taken
<1> HIDE DEF t, h
<1>4. h \in 1..n /\ \A j \in 1..Len(c.sent) : c.sent[j] < h
  BY <1>2 DEF Honest, InOrder
<1>5. \A k \in 1..Len(t) : t[k] \in 1..n /\ \A j \in 1..Len(c.sent) : c.sent[j] < t[k]
  BY <1>2 DEF Honest, InOrder, Taken
<1>6. \/ d = [c EXCEPT !.queue = t, !.sending = h]
      \/ d = [c EXCEPT !.queue = t, !.skipped = c.skipped + 1]
  BY DEF t, h, Honest, ConnStates, Taken
<1>7. /\ d.queue = t /\ d.sent = c.sent /\ d.latest = c.latest
      /\ d.dropped = c.dropped /\ d.offered = c.offered
      /\ \/ d.sending = h /\ d.skipped = c.skipped
         \/ d.sending = NoEvent /\ d.skipped = c.skipped + 1
  BY <1>6 DEF Honest, ConnStates, Taken
<1>8. d \in ConnStates
  <2>1. h \in Nat /\ c.skipped + 1 \in Nat
    BY <1>1, <1>4
  <2>2. c \in ConnStates BY DEF Honest
  <2>3. t \in Seq(Nat) BY <1>2
  <2>4. /\ [c EXCEPT !.queue = t, !.sending = h] \in ConnStates
        /\ [c EXCEPT !.queue = t, !.skipped = c.skipped + 1] \in ConnStates
    <3> HIDE DEF Honest, Taken
    <3> QED BY <2>1, <2>2, <2>3 DEF ConnStates
  <2> QED BY <1>6, <2>4
<1>9. InOrder(d, n)
  <2>1. Rising(c.sent) /\ \A j \in 1..Len(c.sent) : c.sent[j] \in 1..n
    BY DEF Honest, InOrder
  <2>2. d.sending = NoEvent \/ d.sending = h
    BY <1>7
  <2>3. d.queue = t /\ d.sent = c.sent
    BY <1>7
  <2> QED BY <1>3, <1>4, <1>5, <2>1, <2>2, <2>3 DEF InOrder
<1>10. Counted(d)
  <2>1. c.offered = Len(c.sent) + Len(c.queue) + c.skipped + c.dropped
    <3>1. c.offered = Len(c.sent) + Sending(c) + Len(c.queue) + c.skipped + c.dropped
      BY DEF Honest, Counted
    <3>2. Sending(c) = 0
      BY DEF Sending, Taken
    <3> QED BY <1>1, <3>1, <3>2
  <2>2. Sending(d) + d.skipped = 1 + c.skipped /\ Sending(d) \in Nat /\ d.skipped \in Nat
    BY <1>1, <1>4, <1>7 DEF Sending, NoEvent
  <2>3. Len(d.queue) = Len(c.queue) - 1 /\ Len(d.sent) = Len(c.sent)
    BY <1>2, <1>7
  <2>4. d.offered = Len(d.sent) + Sending(d) + Len(d.queue) + d.skipped + d.dropped
    <3>1. Len(c.sent) \in Nat /\ Len(c.queue) \in Nat /\ c.skipped \in Nat /\ c.dropped \in Nat
      BY <1>1
    <3>2. d.offered = c.offered /\ d.dropped = c.dropped
      BY <1>7
    <3>3. Len(c.sent) + Sending(d) + (Len(c.queue) - 1) + d.skipped + c.dropped
            = Len(c.sent) + Len(c.queue) + c.skipped + c.dropped
      <4> DEFINE a == Len(c.sent)
                 b == Sending(d)
                 q == Len(c.queue)
                 s == c.skipped
                 x == c.dropped
                 s2 == d.skipped
      <4>1. /\ a \in Nat /\ b \in Nat /\ q \in Nat /\ s \in Nat /\ x \in Nat
            /\ s2 \in Nat /\ b + s2 = 1 + s
        BY <2>2, <3>1
      <4> HIDE DEF a, b, q, s, x, s2
      <4>2. a + b + (q - 1) + s2 + x = a + q + s + x
        BY <4>1
      <4> QED BY <4>2 DEF a, b, q, s, x, s2
    <3> QED BY <2>1, <2>3, <3>2, <3>3
  <2>5. t # <<>> => t[Len(t)] = c.queue[Len(c.queue)]
    <3>1. t # <<>> => Len(t) \in 1..Len(t)
      BY <1>2
    <3>2. Len(t) + 1 = Len(c.queue)
      BY <1>1, <1>2
    <3> QED BY <1>2, <3>1, <3>2
  <2>6. c.queue[Len(c.queue)] = c.latest
    BY DEF Honest, Counted, Taken
  <2>7. d.queue # <<>> => d.queue[Len(d.queue)] = d.latest
    BY <1>7, <2>5, <2>6
  <2> QED BY <2>4, <2>7 DEF Counted
<1> QED BY <1>8, <1>9, <1>10 DEF Honest

LEMMA DeliverIsHonest ==
  ASSUME NEW n \in Nat, NEW c, Honest(c, n), c.sending # NoEvent
  PROVE  Honest([c EXCEPT !.sending = NoEvent, !.sent = Append(@, c.sending)], n)
<1> DEFINE e == c.sending
           t == Append(c.sent, e)
           d == [c EXCEPT !.sending = NoEvent, !.sent = t]
<1>1. /\ c.queue \in Seq(Nat) /\ c.sent \in Seq(Nat) /\ e \in Nat
      /\ Len(c.queue) \in Nat /\ Len(c.sent) \in Nat
      /\ c.skipped \in Nat /\ c.dropped \in Nat /\ c.offered \in Nat
  BY HonestParts
<1>2. /\ \A j \in 1..Len(c.sent) : c.sent[j] < e /\ c.sent[j] \in 1..n
      /\ \A k \in 1..Len(c.queue) : e < c.queue[k] /\ c.queue[k] \in 1..n
      /\ e \in 1..n /\ Rising(c.sent) /\ Rising(c.queue)
      /\ \A j \in 1..Len(c.sent), k \in 1..Len(c.queue) : c.sent[j] < c.queue[k]
  BY DEF Honest, InOrder
<1> HIDE DEF e
<1>3. /\ t \in Seq(Nat) /\ Len(t) = Len(c.sent) + 1 /\ t[Len(c.sent) + 1] = e
      /\ \A j \in 1..Len(c.sent) : t[j] = c.sent[j]
  BY <1>1, AppendOf
<1>4. Rising(t)
  BY <1>1, <1>2, RisingAppend
<1> HIDE DEF t
<1>5. /\ d \in ConnStates /\ d.queue = c.queue /\ d.latest = c.latest /\ d.sending = NoEvent
      /\ d.sent = t
      /\ d.dropped = c.dropped /\ d.offered = c.offered /\ d.skipped = c.skipped
  BY <1>3 DEF Honest, ConnStates, NoEvent
<1> HIDE DEF d
<1>6. \A j \in 1..Len(t) : t[j] \in 1..n /\ \A k \in 1..Len(c.queue) : t[j] < c.queue[k]
  <2> SUFFICES ASSUME NEW j \in 1..Len(t)
               PROVE  t[j] \in 1..n /\ \A k \in 1..Len(c.queue) : t[j] < c.queue[k]
    OBVIOUS
  <2>1. j \in 1..Len(c.sent) \/ j = Len(c.sent) + 1
    BY <1>1, <1>3
  <2> QED BY <1>2, <1>3, <2>1
<1>7. InOrder(d, n)
  BY <1>2, <1>4, <1>5, <1>6 DEF InOrder
<1>8. Counted(d)
  <2>1. c.offered = Len(c.sent) + 1 + Len(c.queue) + c.skipped + c.dropped
    BY DEF Honest, Counted, Sending
  <2>2. Sending(d) = 0 /\ Len(d.sent) = Len(c.sent) + 1
    BY <1>3, <1>5 DEF Sending
  <2>3. d.offered = Len(d.sent) + Sending(d) + Len(d.queue) + d.skipped + d.dropped
    BY <1>1, <1>5, <2>1, <2>2
  <2>4. c.queue # <<>> => c.queue[Len(c.queue)] = c.latest
    BY DEF Honest, Counted
  <2> QED BY <1>5, <2>3, <2>4 DEF Counted
<1> QED BY <1>5, <1>7, <1>8 DEF Honest, d, t, e

\* What the counts and the order say of the whole line.
LEMMA HonestLine ==
  ASSUME NEW n \in Nat, NEW c, Honest(c, n)
  PROVE  LET sending == IF c.sending = NoEvent THEN <<>> ELSE <<c.sending>>
             line == c.sent \o sending \o c.queue
         IN  /\ c.offered = Len(line) + c.skipped + c.dropped
             /\ \A j, k \in DOMAIN line : j < k => line[j] < line[k]
             /\ c.queue # <<>> => Last(c.queue) = c.latest
<1> DEFINE sending == IF c.sending = NoEvent THEN <<>> ELSE <<c.sending>>
           front == c.sent \o sending
           line == front \o c.queue
<1>1. /\ c.queue \in Seq(Nat) /\ c.sent \in Seq(Nat) /\ c.sending \in Nat
      /\ Len(c.queue) \in Nat /\ Len(c.sent) \in Nat
      /\ c.skipped \in Nat /\ c.dropped \in Nat /\ c.offered \in Nat
  BY HonestParts
<1>2. /\ sending \in Seq(Nat) /\ Len(sending) = Sending(c) /\ Sending(c) \in Nat
      /\ \A k \in 1..Len(sending) : c.sending # NoEvent /\ sending[k] = c.sending
      /\ Rising(sending)
  <2>1. CASE c.sending = NoEvent
    BY <2>1 DEF Sending, Rising
  <2>2. CASE c.sending # NoEvent
    BY <1>1, <2>2 DEF Sending, Rising
  <2> QED BY <2>1, <2>2
<1> HIDE DEF sending
<1>3. /\ front \in Seq(Nat) /\ Len(front) = Len(c.sent) + Len(sending)
      /\ \A k \in 1..Len(c.sent) : front[k] = c.sent[k]
      /\ \A k \in 1..Len(sending) : front[Len(c.sent) + k] = sending[k]
  BY <1>1, <1>2, ConcatOf
<1>4. Rising(front)
  <2>1. Rising(c.sent) /\ \A j \in 1..Len(c.sent), k \in 1..Len(sending) : c.sent[j] < sending[k]
    BY <1>2 DEF Honest, InOrder
  <2> QED BY <1>1, <1>2, <2>1, RisingConcat
<1> HIDE DEF front
<1>5. ASSUME NEW j \in 1..Len(front), NEW k \in 1..Len(c.queue)
      PROVE  front[j] < c.queue[k]
  <2>1. CASE j <= Len(c.sent)
    <3>1. j \in 1..Len(c.sent)
      BY <1>1, <1>3, <2>1
    <3> QED BY <1>3, <3>1 DEF Honest, InOrder
  <2>2. CASE j > Len(c.sent)
    <3>1. j - Len(c.sent) \in 1..Len(sending) /\ j = Len(c.sent) + (j - Len(c.sent))
      <4>1. Len(c.sent) \in Nat /\ Len(sending) \in Nat
            /\ Len(front) = Len(c.sent) + Len(sending)
        BY <1>1, <1>2, <1>3
      <4> QED BY <2>2, <4>1
    <3>2. front[j] = c.sending /\ c.sending # NoEvent
      BY <1>2, <1>3, <3>1
    <3> QED BY <3>2 DEF Honest, InOrder
  <2> QED BY <1>1, <1>3, <2>1, <2>2
<1>6. line \in Seq(Nat) /\ Len(line) = Len(front) + Len(c.queue)
  BY <1>1, <1>3, ConcatOf
<1>7. Rising(line)
  <2>1. Rising(c.queue)
    BY DEF Honest, InOrder
  <2> QED BY <1>1, <1>3, <1>4, <1>5, <2>1, RisingConcat
<1> HIDE DEF line
<1>8. \A j, k \in DOMAIN line : j < k => line[j] < line[k]
  <2>1. DOMAIN line = 1..Len(line)
    BY <1>6
  <2> QED BY <1>7, <2>1 DEF Rising
<1>9. c.offered = Len(line) + c.skipped + c.dropped
  <2>1. c.offered = Len(c.sent) + Sending(c) + Len(c.queue) + c.skipped + c.dropped
    BY DEF Honest, Counted
  <2> QED BY <1>1, <1>2, <1>3, <1>6, <2>1
<1>10. c.queue # <<>> => Last(c.queue) = c.latest
  BY DEF Honest, Counted, Last
<1> QED BY <1>8, <1>9, <1>10 DEF line, front, sending

-----------------------------------------------------------------------------
(* The actions.                                                            *)

LEMMA Initially ==
  ASSUME Init
  PROVE  IInv
<1>1. published \in Seq(Topics) /\ Len(published) = 0
  BY DEF Init
<1>2. \A i \in Sockets : conns[i] = FreshConn
  BY DEF Init
<1>3. \A i \in Sockets : Honest(conns[i], 0)
  BY <1>2, FreshIsHonest
<1>4. conns \in [Sockets -> ConnStates]
  <2>1. conns = [i \in Sockets |-> FreshConn]
    BY DEF Init
  <2>2. \A i \in Sockets : conns[i] \in ConnStates
    BY <1>3 DEF Honest
  <2> QED BY <2>1, <2>2
<1>5. SlotsAreLive
  BY <1>2 DEF Init, SlotsAreLive, FreshConn
<1> QED BY <1>1, <1>3, <1>4, <1>5 DEF IInv

\* One connection changes and keeps its slot, or has none to keep.
LEMMA ChangeKeeps ==
  ASSUME IInv, NEW i \in Sockets, NEW c, Honest(c, Len(published)), Set(i, c),
         c.pc \in Live <=> conns[i].pc \in Live,
         UNCHANGED <<bus, manager, published>>
  PROVE  IInv'
<1>1. /\ conns' \in [Sockets -> ConnStates] /\ conns'[i] = c
      /\ \A j \in Sockets : j # i => conns'[j] = conns[j]
  BY DEF IInv, Set, Honest
<1>2. \A j \in Sockets : Honest(conns'[j], Len(published))
  BY <1>1 DEF IInv
<1>3. SlotsAreLive'
  BY <1>1 DEF IInv, SlotsAreLive, Live
<1> QED BY <1>1, <1>2, <1>3 DEF IInv

\* What a connection does besides moving events.
LEMMA MoveKeeps ==
  ASSUME IInv, NEW i \in Sockets, NEW c \in ConnStates, Same(conns[i], c), Set(i, c),
         c.pc \in Live <=> conns[i].pc \in Live,
         UNCHANGED <<bus, manager, published>>
  PROVE  IInv'
<1>1. Len(published) \in Nat
  BY DEF IInv
<1>2. Honest(c, Len(published))
  BY <1>1, SameIsHonest DEF IInv
<1> QED BY <1>2, ChangeKeeps

LEMMA EndpointKeeps ==
  ASSUME IInv, NEW i \in Sockets,
         Refuse(i) \/ Admit(i) \/ Greet(i) \/ GreetingFails(i) \/ PeerLost(i) \/ ReadGarbage(i)
  PROVE  IInv'
<1>1. PICK pc \in {"idle", "asking", "accepting", "closed"} \cup Live :
        /\ Set(i, [conns[i] EXCEPT !.pc = pc]) /\ UNCHANGED <<bus, manager, published>>
        /\ pc \in Live <=> conns[i].pc \in Live
  BY DEF Refuse, Admit, Greet, GreetingFails, PeerLost, ReadGarbage, Live
<1>2. conns[i] \in ConnStates
  BY DEF IInv
<1> DEFINE c == [conns[i] EXCEPT !.pc = pc]
<1>3. c \in ConnStates /\ Same(conns[i], c) /\ c.pc = pc
  BY <1>2 DEF ConnStates, Same
<1> HIDE DEF c
<1> QED BY <1>1, <1>3, MoveKeeps DEF c

LEMMA SubscriptionsAreTyped ==
  ASSUME NEW c \in ConnStates, NEW wanted \in Wanted
  PROVE  /\ Subscribed(c, wanted) \in {All} \cup SUBSET Topics
         /\ Unsubscribed(c, wanted) \in {All} \cup SUBSET Topics
<1>1. wanted \in SUBSET Topics /\ c.topics \in {All} \cup SUBSET Topics
  BY StreamAssumption DEF ConnStates
<1> QED BY <1>1 DEF Subscribed, Unsubscribed

LEMMA MessagesKeep ==
  ASSUME IInv, NEW i \in Sockets,
         ReadPong(i) \/ ReadRequest(i) \/ Reply(i) \/ Interval(i) \/ Beat(i)
  PROVE  IInv'
<1>1. conns[i] \in ConnStates
  BY DEF IInv
<1>2. ASSUME NEW c \in ConnStates, Same(conns[i], c), Set(i, c),
             c.pc \in Live <=> conns[i].pc \in Live, UNCHANGED <<bus, manager, published>>
      PROVE  IInv'
  BY <1>2, MoveKeeps
<1>3. CASE ReadPong(i)
  <2> DEFINE c == [conns[i] EXCEPT !.silent = 0, !.pong = FALSE]
  <2>1. Set(i, c) /\ UNCHANGED <<bus, manager, published>>
    BY <1>3, <1>1 DEF ReadPong, Heard, ConnStates
  <2>2. c \in ConnStates /\ Same(conns[i], c) /\ c.pc = conns[i].pc
    BY <1>1 DEF ConnStates, Same
  <2> HIDE DEF c
  <2> QED BY <1>2, <2>1, <2>2
<1>4. CASE ReadRequest(i)
  <2>1. PICK topics \in {All} \cup SUBSET Topics :
          Set(i, [Heard(conns[i]) EXCEPT !.topics = topics, !.replying = TRUE])
    <3>1. conns[i].topics \in {All} \cup SUBSET Topics
      BY <1>1 DEF ConnStates
    <3> QED BY <1>1, <1>4, <3>1, SubscriptionsAreTyped DEF ReadRequest
  <2> DEFINE c == [Heard(conns[i]) EXCEPT !.topics = topics, !.replying = TRUE]
  <2>2. c \in ConnStates /\ Same(conns[i], c) /\ c.pc = conns[i].pc
    BY <1>1 DEF ConnStates, Same, Heard
  <2>3. Set(i, c) /\ UNCHANGED <<bus, manager, published>>
    BY <1>4, <2>1 DEF ReadRequest
  <2> HIDE DEF c
  <2> QED BY <1>2, <2>2, <2>3
<1>5. CASE Reply(i)
  <2> DEFINE c == [conns[i] EXCEPT !.replying = FALSE]
  <2>1. Set(i, c) /\ UNCHANGED <<bus, manager, published>>
    BY <1>5 DEF Reply
  <2>2. c \in ConnStates /\ Same(conns[i], c) /\ c.pc = conns[i].pc
    BY <1>1 DEF ConnStates, Same
  <2> HIDE DEF c
  <2> QED BY <1>2, <2>1, <2>2
<1>6. CASE Interval(i)
  <2> DEFINE silent == Min({conns[i].silent + 1, Patience})
             c == [conns[i] EXCEPT !.silent = silent, !.pc = "closing"]
             d == [conns[i] EXCEPT !.silent = silent, !.beating = TRUE]
  <2>1. silent \in Nat
    <3>1. conns[i].silent + 1 \in Nat /\ Patience \in Nat
      BY <1>1, StreamAssumption DEF ConnStates
    <3> QED BY <3>1, MinOfTwo
  <2>2. /\ Set(i, c) \/ Set(i, d)
        /\ conns[i].pc = "serving" /\ UNCHANGED <<bus, manager, published>>
    BY <1>6 DEF Interval
  <2> HIDE DEF silent
  <2>3. c \in ConnStates /\ Same(conns[i], c) /\ c.pc = "closing"
    BY <1>1, <2>1 DEF ConnStates, Same, Live
  <2>4. d \in ConnStates /\ Same(conns[i], d) /\ d.pc = conns[i].pc
    BY <1>1, <2>1 DEF ConnStates, Same
  <2> HIDE DEF c, d
  <2>5. CASE Set(i, c)
    BY <1>2, <2>2, <2>3, <2>5 DEF Live
  <2>6. CASE Set(i, d)
    BY <1>2, <2>2, <2>4, <2>6
  <2> QED BY <2>2, <2>5, <2>6
<1>7. CASE Beat(i)
  <2> DEFINE pong == conns[i].peer = "up"
             c == [conns[i] EXCEPT !.beating = FALSE, !.pong = pong]
  <2>1. Set(i, c) /\ UNCHANGED <<bus, manager, published>>
    BY <1>7 DEF Beat
  <2>2. pong \in BOOLEAN
    OBVIOUS
  <2> HIDE DEF pong
  <2>3. c \in ConnStates /\ Same(conns[i], c) /\ c.pc = conns[i].pc
    BY <1>1, <2>2 DEF ConnStates, Same
  <2> HIDE DEF c
  <2> QED BY <1>2, <2>1, <2>3
<1> QED BY <1>3, <1>4, <1>5, <1>6, <1>7

LEMMA PeerKeeps ==
  ASSUME IInv, NEW i \in Sockets,
         Wakes(i) \/ GivenUp(i) \/ (\E peer \in {"vanished", "stalled"} : PeerChanges(i, peer))
  PROVE  IInv'
<1>1. conns[i] \in ConnStates
  BY DEF IInv
<1>2. PICK peer \in {"up", "vanished", "stalled", "left"}, pong \in BOOLEAN :
        Set(i, [conns[i] EXCEPT !.peer = peer, !.pong = pong])
  <2>1. conns[i].pong \in BOOLEAN /\ [conns[i] EXCEPT !.pong = conns[i].pong] = conns[i]
    BY <1>1 DEF ConnStates
  <2>2. \A peer \in {"up", "left"} :
          [conns[i] EXCEPT !.peer = peer] = [conns[i] EXCEPT !.peer = peer, !.pong = conns[i].pong]
    BY <1>1 DEF ConnStates
  <2> QED BY <2>1, <2>2 DEF Wakes, GivenUp, PeerChanges
<1> DEFINE c == [conns[i] EXCEPT !.peer = peer, !.pong = pong]
<1>3. c \in ConnStates /\ Same(conns[i], c) /\ c.pc = conns[i].pc
  BY <1>1 DEF ConnStates, Same
<1>4. Set(i, c) /\ UNCHANGED <<bus, manager, published>>
  BY <1>2 DEF Wakes, GivenUp, PeerChanges
<1> HIDE DEF c
<1> QED BY <1>3, <1>4, MoveKeeps

\* The slot and the subscription come and go together.
LEMMA SlotKeeps ==
  ASSUME IInv, NEW i \in Sockets, Register(i) \/ Release(i)
  PROVE  IInv'
<1>1. Len(published) \in Nat /\ conns[i] \in ConnStates /\ Honest(conns[i], Len(published))
  BY DEF IInv
<1>2. PICK c :
        /\ Honest(c, Len(published)) /\ Set(i, c) /\ UNCHANGED published
        /\ \/ c.pc \in Live /\ bus' = bus \cup {i} /\ manager' = manager \cup {i}
           \/ c.pc \notin Live /\ bus' = bus \ {i} /\ manager' = manager \ {i}
  <2>1. CASE Register(i)
    <3> DEFINE c == [conns[i] EXCEPT !.pc = "greeting"]
    <3>1. c \in ConnStates /\ Same(conns[i], c) /\ c.pc \in Live
      BY <1>1 DEF ConnStates, Same, Live
    <3>2. Set(i, c) /\ UNCHANGED published /\ bus' = bus \cup {i} /\ manager' = manager \cup {i}
      BY <2>1 DEF Register
    <3> HIDE DEF c
    <3>3. Honest(c, Len(published))
      BY <1>1, <3>1, SameIsHonest
    <3> QED BY <3>1, <3>2, <3>3
  <2>2. CASE Release(i)
    <3> DEFINE c == [FreshConn EXCEPT !.pc = "closed", !.peer = conns[i].peer]
    <3>1. conns[i].peer \in {"up", "vanished", "stalled", "left"}
      BY <1>1 DEF ConnStates
    <3>2. Honest(c, Len(published))
      BY <1>1, <3>1, FreshIsHonest
    <3>3. c.pc = "closed"
      BY DEF FreshConn
    <3>4. Set(i, c) /\ UNCHANGED published /\ bus' = bus \ {i} /\ manager' = manager \ {i}
      BY <2>2 DEF Release
    <3> HIDE DEF c
    <3> QED BY <3>2, <3>3, <3>4 DEF Live
  <2> QED BY <2>1, <2>2
<1>3. /\ conns' \in [Sockets -> ConnStates] /\ conns'[i] = c
      /\ \A j \in Sockets : j # i => conns'[j] = conns[j]
  BY <1>2 DEF IInv, Set, Honest
<1>4. \A j \in Sockets : Honest(conns'[j], Len(published))
  BY <1>2, <1>3 DEF IInv
<1>5. SlotsAreLive'
  BY <1>2, <1>3 DEF IInv, SlotsAreLive, Live
<1> QED BY <1>2, <1>3, <1>4, <1>5 DEF IInv

\* The pump: Take and Deliver.
LEMMA PumpKeeps ==
  ASSUME IInv, NEW i \in Sockets, Take(i) \/ Deliver(i)
  PROVE  IInv'
<1>1. Len(published) \in Nat /\ conns[i] \in ConnStates /\ Honest(conns[i], Len(published))
  BY DEF IInv
<1>2. PICK c : Honest(c, Len(published)) /\ Set(i, c) /\ c.pc = conns[i].pc
  <2>1. CASE Take(i)
    <3>1. PICK c : Set(i, c) /\ Taken(conns[i], c)
      BY <2>1 DEF Take, Taken
    <3>2. Honest(c, Len(published))
      BY <1>1, <3>1, TakeIsHonest
    <3>3. c.pc = conns[i].pc
      BY <1>1, <3>1 DEF Taken, ConnStates
    <3> QED BY <3>1, <3>2, <3>3
  <2>2. CASE Deliver(i)
    <3> DEFINE c == [conns[i] EXCEPT !.sending = NoEvent, !.sent = Append(@, conns[i].sending)]
    <3>1. Set(i, c) /\ conns[i].sending # NoEvent
      BY <2>2 DEF Deliver
    <3>2. Honest(c, Len(published))
      BY <1>1, <3>1, DeliverIsHonest
    <3>3. c.pc = conns[i].pc
      BY <1>1 DEF ConnStates
    <3> HIDE DEF c
    <3> QED BY <3>1, <3>2, <3>3
  <2> QED BY <2>1, <2>2
<1>3. UNCHANGED <<bus, manager, published>>
  BY DEF Take, Deliver
<1> QED BY <1>2, <1>3, ChangeKeeps

\* A publication reaches every subscriber at once.
LEMMA PublishKeeps ==
  ASSUME IInv, NEW topic \in Topics, Publish(topic)
  PROVE  IInv'
<1> DEFINE n == Len(published)
<1>1. /\ n \in Nat /\ published' \in Seq(Topics) /\ Len(published') = n + 1
      /\ UNCHANGED <<bus, manager>>
  BY DEF IInv, Publish
<1>2. conns' = [i \in Sockets |-> IF i \in bus /\ Wants(conns[i], topic)
                                 THEN Offer(conns[i], n + 1) ELSE conns[i]]
  BY <1>1 DEF Publish
<1>3. ASSUME NEW i \in Sockets
      PROVE  Honest(conns'[i], n + 1) /\ conns'[i].pc = conns[i].pc
  <2>1. Honest(conns[i], n) /\ conns[i] \in ConnStates
    BY DEF IInv
  <2>2. Same(conns[i], conns[i])
    BY DEF Same
  <2>3. Honest(conns[i], n + 1)
    BY <1>1, <2>1, <2>2, SameIsHonest
  <2>4. Honest(Offer(conns[i], n + 1), n + 1)
    BY <1>1, <2>1, OfferIsHonest
  <2>5. Offer(conns[i], n + 1).pc = conns[i].pc
    BY <2>1 DEF Offer, ConnStates
  <2> QED BY <1>2, <2>3, <2>4, <2>5
<1> HIDE DEF n
<1>4. conns' \in [Sockets -> ConnStates]
  <2>1. \A i \in Sockets : conns'[i] \in ConnStates
    BY <1>3 DEF Honest
  <2> QED BY <1>2, <2>1
<1>5. SlotsAreLive'
  BY <1>1, <1>3 DEF IInv, SlotsAreLive
<1> QED BY <1>1, <1>3, <1>4, <1>5 DEF IInv

\* A new socket takes the place of one that holds no slot.
LEMMA ConnectKeeps ==
  ASSUME IInv, Connect
  PROVE  IInv'
<1> DEFINE i == Min(Free)
           c == [FreshConn EXCEPT !.pc = "asking"]
<1>1. i \in Free
  <2>1. Free \subseteq Nat /\ Free # {}
    BY StreamAssumption DEF Free, Connect
  <2>2. \E m \in Free : \A k \in Free : m <= k
    BY <2>1, LeastElement
  <2> QED BY <2>2 DEF Min
<1>2. Set(i, c) /\ UNCHANGED <<bus, manager, published>>
  BY DEF Connect
<1> HIDE DEF i
<1>3. i \in Sockets /\ conns[i].pc \notin Live
  BY <1>1 DEF Free, Live
<1>4. c = [FreshConn EXCEPT !.pc = "asking"] /\ c.pc = "asking"
  BY DEF FreshConn
<1>5. Honest(c, Len(published))
  <2>1. Len(published) \in Nat
    BY DEF IInv
  <2> QED BY <1>4, <2>1, FreshIsHonest
<1> HIDE DEF c
<1> QED BY <1>2, <1>3, <1>4, <1>5, ChangeKeeps DEF Live

LEMMA PageKeeps ==
  ASSUME IInv, Opened \/ OnClose \/ Disconnect
  PROVE  IInv'
<1>1. UNCHANGED <<bus, manager, published>> /\ Len(published) \in Nat
  BY DEF IInv, Opened, OnClose, Disconnect
<1>2. CASE Opened \/ OnClose
  BY <1>1, <1>2 DEF IInv, Opened, OnClose, SlotsAreLive
<1>3. CASE Disconnect
  <2>1. conns' = [i \in Sockets |-> IF i = page.socket THEN [conns[i] EXCEPT !.peer = "left"]
                                   ELSE conns[i]]
    BY <1>3 DEF Disconnect
  <2>2. ASSUME NEW i \in Sockets
        PROVE  Honest(conns'[i], Len(published)) /\ conns'[i].pc = conns[i].pc
    <3>1. Honest(conns[i], Len(published)) /\ conns[i] \in ConnStates
      BY DEF IInv
    <3> DEFINE c == [conns[i] EXCEPT !.peer = "left"]
    <3>2. c \in ConnStates /\ Same(conns[i], c) /\ c.pc = conns[i].pc
      BY <3>1 DEF ConnStates, Same
    <3> HIDE DEF c
    <3>3. Honest(c, Len(published))
      BY <1>1, <3>1, <3>2, SameIsHonest
    <3> QED BY <2>1, <3>1, <3>2, <3>3 DEF c
  <2>3. conns' \in [Sockets -> ConnStates]
    <3>1. \A i \in Sockets : conns'[i] \in ConnStates
      BY <2>2 DEF Honest
    <3> QED BY <2>1, <3>1
  <2>4. SlotsAreLive'
    BY <1>1, <2>2 DEF IInv, SlotsAreLive
  <2> QED BY <1>1, <2>2, <2>3, <2>4 DEF IInv
<1> QED BY <1>2, <1>3

-----------------------------------------------------------------------------
(* The theorems.                                                           *)

LEMMA EveryStepKeeps ==
  ASSUME IInv, [Next]_vars
  PROVE  IInv'
<1>1. CASE UNCHANGED vars
  BY <1>1 DEF vars, IInv, SlotsAreLive
<1>2. CASE Next
  BY <1>2, PublishKeeps, EndpointKeeps, SlotKeeps, PumpKeeps, MessagesKeep, PeerKeeps,
     ConnectKeeps, PageKeeps
  DEF Next, Serve, Browse
<1> QED BY <1>1, <1>2

\* The strengthening is an invariant of the bus, the connections and the page.
THEOREM StreamInductive == Spec => []IInv
<1>1. Init => IInv
  BY Initially
<1>2. IInv /\ [Next]_vars => IInv'
  BY EveryStepKeeps
<1> QED BY <1>1, <1>2, PTL DEF Spec

\* Every event offered to a subscriber is sent, waiting, skipped or counted as
\* dropped, in the order of publication and never dropping the newest
\* (Subscriber.offer, _pump_outbound), for queues of any size.
THEOREM EventsAreAccountedFor == Spec => []AccountedFor
<1>1. IInv => AccountedFor
  <2> SUFFICES ASSUME IInv, NEW i \in Sockets
               PROVE  LET conn == conns[i]
                          sending == IF conn.sending = NoEvent THEN <<>> ELSE <<conn.sending>>
                          line == conn.sent \o sending \o conn.queue
                      IN  /\ conn.offered = Len(line) + conn.skipped + conn.dropped
                          /\ \A j, k \in DOMAIN line : j < k => line[j] < line[k]
                          /\ conn.queue # <<>> => Last(conn.queue) = conn.latest
    BY DEF AccountedFor
  <2>1. Len(published) \in Nat /\ Honest(conns[i], Len(published))
    BY DEF IInv
  <2> QED BY <2>1, HonestLine
<1> QED BY <1>1, StreamInductive, PTL

\* The bus feeds, and the capacity counts, the connections being served and
\* those whose greeting failed (serve).
THEOREM SlotsFollowConnections == Spec => []SlotsAreLive
<1>1. IInv => SlotsAreLive
  BY DEF IInv
<1> QED BY <1>1, StreamInductive, PTL
=============================================================================
