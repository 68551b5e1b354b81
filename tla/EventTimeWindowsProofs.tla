----------------------- MODULE EventTimeWindowsProofs -----------------------
(***************************************************************************)
(* Proofs about EventTimeWindows, for any topic, any number of partitions, *)
(* subtasks and restarts, and any sizes of window, bound and allowance, of *)
(* what MCWindows checks on a small instance.                              *)
(***************************************************************************)
EXTENDS EventTimeWindows, OrderLemmas

-----------------------------------------------------------------------------
(* Operators of the model *)

\* The minimum of finitely many watermarks is one of them.
LEMMA MinOfFinite ==
    ASSUME NEW S \in SUBSET Int, IsFiniteSet(S), S # {}
    PROVE  MinOf(S) \in S
<1>1. \E x \in S : \A y \in S : x <= y
  BY LeastInt
<1>. QED  BY <1>1 DEF MinOf

\* The same of the maximum.
LEMMA MaxOfFinite ==
    ASSUME NEW S \in SUBSET Int, IsFiniteSet(S), S # {}
    PROVE  MaxOf(S) \in S
<1>1. \E x \in S : \A y \in S : y <= x
  BY LargestInt
<1>. QED  BY <1>1 DEF MaxOf

\* The watermarks of some of the subtasks' channels.
LEMMA WatermarksFinite ==
    ASSUME NEW wm \in [Subtasks -> Int], NEW T \in SUBSET Subtasks
    PROVE  /\ {wm[t] : t \in T} \in SUBSET Int
           /\ IsFiniteSet({wm[t] : t \in T})
<1>1. IsFiniteSet(T)
  BY TopicAssumption, FS_Subset
<1>. QED  BY <1>1, FiniteImage

\* Every event has a window, which ends behind it.
LEMMA WindowFacts ==
    /\ \A id \in EventIds : WindowOf(id) \in Windows
    /\ \A k \in Windows : EndOf(k) \in Int /\ EndOf(k) > 0
<1>1. ASSUME NEW id \in EventIds
      PROVE  EndOf(WindowOf(id)) \in Int /\ EndOf(WindowOf(id)) > 0
  <2>1. EventTime[id] \in Nat /\ WindowSize \in Nat /\ WindowSize > 0
    BY TimeAssumption
  <2>2. EventTime[id] % WindowSize \in 0..(WindowSize - 1)
    BY <2>1
  <2>3. EndOf(WindowOf(id)) = EventTime[id] - (EventTime[id] % WindowSize) + WindowSize
    BY DEF EndOf, WindowOf
  <2>. QED  BY <2>1, <2>2, <2>3
<1>. QED  BY <1>1 DEF Windows

\* The watermark before any event closes no window.
LEMMA NoTimeFacts == NoTime \in Int /\ NoTime < 0 /\ \A k \in Windows : ~Closed(k, NoTime)
<1>1. NoTime \in Int /\ NoTime < -1
  BY TimeAssumption DEF NoTime
<1>. QED  BY <1>1, WindowFacts DEF Closed

\* A later watermark closes no fewer windows.
LEMMA ClosedGrows ==
    ASSUME NEW k \in Windows, NEW t \in Int, NEW u \in Int, t <= u, Closed(k, t)
    PROVE  Closed(k, u)
  BY WindowFacts DEF Closed

-----------------------------------------------------------------------------
(* What is on a channel *)

EventsAt(q) == {i \in DOMAIN q : q[i].type = "event"}

\* No event twice.
Once(q) == \A i, j \in EventsAt(q) : q[i].id = q[j].id => i = j

\* No watermark beyond time.
Within(q, time) == \A i \in DOMAIN q : q[i].type = "watermark" => q[i].time <= time

IdOf(e) == IF e.type = "event" THEN {e.id} ELSE {}

\* Membership in the events of a sequence, without the set of its indices.
LEMMA EventsInDef ==
    ASSUME NEW q, NEW id
    PROVE  id \in EventsIn(q) <=> \E i \in EventsAt(q) : q[i].id = id
  BY DEF EventsIn, EventsAt

\* An element appended adds its own id, if it is an event.
LEMMA AppendElement ==
    ASSUME NEW q \in Seq(Elements), NEW e \in Elements
    PROVE  /\ EventsIn(Append(q, e)) = EventsIn(q) \cup IdOf(e)
           /\ Once(q) /\ EventsIn(q) \cap IdOf(e) = {} => Once(Append(q, e))
           /\ \A t : Within(q, t) /\ (e.type = "watermark" => e.time <= t)
                        => Within(Append(q, e), t)
<1>. DEFINE r == Append(q, e)
<1>. DEFINE n == Len(q)
<1>1. /\ n \in Nat /\ DOMAIN q = 1..n /\ DOMAIN r = 1..(n + 1)
      /\ r[n + 1] = e /\ \A i \in 1..n : r[i] = q[i]
  OBVIOUS
<1>2. /\ EventsAt(r) = EventsAt(q) \cup (IF e.type = "event" THEN {n + 1} ELSE {})
      /\ \A i \in EventsAt(q) : i \in 1..n /\ r[i] = q[i]
  BY <1>1 DEF EventsAt
<1>. HIDE DEF r, n
<1>3. \A id : id \in EventsIn(r) <=> id \in EventsIn(q) \cup IdOf(e)
  BY <1>1, <1>2, EventsInDef DEF IdOf
<1>4. Once(q) /\ EventsIn(q) \cap IdOf(e) = {} => Once(r)
  <2>. SUFFICES ASSUME Once(q), EventsIn(q) \cap IdOf(e) = {},
                       NEW i \in EventsAt(r), NEW j \in EventsAt(r), r[i].id = r[j].id
                PROVE  i = j
    BY DEF Once
  <2>1. CASE i \in EventsAt(q) /\ j \in EventsAt(q)
    BY <1>2, <2>1 DEF Once
  <2>2. CASE i \in EventsAt(q) /\ j \notin EventsAt(q)
    <3>1. e.type = "event" /\ r[j] = e
      BY <1>1, <1>2, <2>2
    <3>2. q[i].id = e.id
      BY <1>2, <2>2, <3>1
    <3>. QED  BY <2>2, <3>1, <3>2, EventsInDef DEF IdOf
  <2>3. CASE i \notin EventsAt(q) /\ j \in EventsAt(q)
    <3>1. e.type = "event" /\ r[i] = e
      BY <1>1, <1>2, <2>3
    <3>2. q[j].id = e.id
      BY <1>2, <2>3, <3>1
    <3>. QED  BY <2>3, <3>1, <3>2, EventsInDef DEF IdOf
  <2>4. CASE i \notin EventsAt(q) /\ j \notin EventsAt(q)
    BY <1>2, <2>4
  <2>. QED  BY <2>1, <2>2, <2>3, <2>4
<1>5. ASSUME NEW t, Within(q, t), e.type = "watermark" => e.time <= t
      PROVE  Within(r, t)
  BY <1>1, <1>5 DEF Within
<1>. QED  BY <1>3, <1>4, <1>5 DEF r

\* An element taken from the front takes its own id with it, and no other.
LEMMA TakeElement ==
    ASSUME NEW q \in Seq(Elements), q # <<>>
    PROVE  /\ Head(q) \in Elements /\ Tail(q) \in Seq(Elements)
           /\ EventsIn(q) = EventsIn(Tail(q)) \cup IdOf(Head(q))
           /\ Once(q) => Once(Tail(q)) /\ EventsIn(Tail(q)) \cap IdOf(Head(q)) = {}
           /\ \A t : Within(q, t) => /\ Within(Tail(q), t)
                                     /\ Head(q).type = "watermark" => Head(q).time <= t
<1>. DEFINE r == Tail(q)
<1>. DEFINE e == Head(q)
<1>. DEFINE n == Len(q)
<1>0. e \in Elements /\ r \in Seq(Elements)
  OBVIOUS
<1>1. /\ n \in Nat /\ n >= 1 /\ DOMAIN q = 1..n /\ DOMAIN r = 1..(n - 1)
      /\ q[1] = e /\ \A i \in 1..(n - 1) : r[i] = q[i + 1]
  OBVIOUS
<1>. HIDE DEF r, n, e
<1>2. /\ \A i \in EventsAt(r) : i + 1 \in EventsAt(q) /\ r[i] = q[i + 1] /\ i \in Nat /\ i # 0
      /\ \A i \in EventsAt(q) : i = 1 \/ (i - 1 \in EventsAt(r) /\ r[i - 1] = q[i])
      /\ 1 \in EventsAt(q) <=> e.type = "event"
  BY <1>1 DEF EventsAt
<1>3. \A id : id \in EventsIn(q) <=> id \in EventsIn(r) \cup IdOf(e)
  <2>1. ASSUME NEW id \in EventsIn(q) PROVE id \in EventsIn(r) \cup IdOf(e)
    <3>1. PICK i \in EventsAt(q) : q[i].id = id
      BY EventsInDef
    <3>2. CASE i = 1
      BY <1>1, <1>2, <3>1, <3>2 DEF IdOf
    <3>3. CASE i - 1 \in EventsAt(r) /\ r[i - 1] = q[i]
      BY <3>1, <3>3, EventsInDef
    <3>. QED  BY <1>2, <3>2, <3>3
  <2>2. ASSUME NEW id \in EventsIn(r) PROVE id \in EventsIn(q)
    <3>1. PICK i \in EventsAt(r) : r[i].id = id
      BY EventsInDef
    <3>. QED  BY <1>2, <3>1, EventsInDef
  <2>3. ASSUME NEW id \in IdOf(e) PROVE id \in EventsIn(q)
    <3>1. e.type = "event" /\ e.id = id
      BY DEF IdOf
    <3>. QED  BY <1>1, <1>2, <3>1, EventsInDef
  <2>. QED  BY <2>1, <2>2, <2>3
<1>4. Once(q) => Once(r) /\ EventsIn(r) \cap IdOf(e) = {}
  <2>. SUFFICES ASSUME Once(q) PROVE Once(r) /\ EventsIn(r) \cap IdOf(e) = {}
    OBVIOUS
  <2>1. ASSUME NEW i \in EventsAt(r), NEW j \in EventsAt(r), r[i].id = r[j].id PROVE i = j
    <3>1. i + 1 = j + 1
      BY <1>2, <2>1 DEF Once
    <3>. QED  BY <1>2, <3>1
  <2>2. ASSUME NEW id \in EventsIn(r), id \in IdOf(e) PROVE FALSE
    <3>1. PICK i \in EventsAt(r) : r[i].id = id
      BY EventsInDef
    <3>2. e.type = "event" /\ e.id = id
      BY <2>2 DEF IdOf
    <3>3. i + 1 = 1
      BY <1>1, <1>2, <3>1, <3>2 DEF Once
    <3>. QED  BY <1>2, <3>3
  <2>. QED  BY <2>1, <2>2 DEF Once
<1>5. ASSUME NEW t, Within(q, t)
      PROVE  Within(r, t) /\ (e.type = "watermark" => e.time <= t)
  <2>1. \A i \in DOMAIN r : i + 1 \in DOMAIN q
    BY <1>1
  <2>. QED  BY <1>1, <1>5, <2>1 DEF Within
<1>. QED  BY <1>0, <1>3, <1>4, <1>5 DEF r, e

-----------------------------------------------------------------------------
(* The steps of the window operator *)

\* What a watermark or a status does to the windows: nothing, or the operator's
\* watermark advances, no further than that of some channel.
Moved ==
    \/ Stay
    \/ \E time \in Int :
        /\ time > watermark
        /\ Advance(time)
        /\ \E t \in Subtasks : time <= inWm'[t]

\* The new minimum of aligned channels is the watermark of one of them.
LEMMA AdvanceToMinMoves ==
    ASSUME NEW aligned, inWm' \in [Subtasks -> Int], AdvanceToMin(inWm', aligned)
    PROVE  Moved
<1>. DEFINE T == {u \in Subtasks : aligned[u]}
<1>. DEFINE W == {inWm'[t] : t \in T}
<1>1. CASE Stay
  BY <1>1 DEF Moved
<1>2. CASE /\ \E t \in Subtasks : aligned[t]
           /\ MinOf(W) > watermark
           /\ Advance(MinOf(W))
  <2>1. W \in SUBSET Int /\ IsFiniteSet(W) /\ W # {}
    BY <1>2, WatermarksFinite
  <2>. HIDE DEF W
  <2>2. MinOf(W) \in W
    BY <2>1, MinOfFinite
  <2>3. \E t \in Subtasks : MinOf(W) = inWm'[t]
    BY <2>2 DEF W
  <2>. QED  BY <1>2, <2>1, <2>2, <2>3 DEF Moved
<1>. QED  BY <1>1, <1>2 DEF AdvanceToMin

\* The flush of the largest watermark when every channel is idle.
LEMMA FlushMoves ==
    ASSUME inWm' \in [Subtasks -> Int], Subtasks # {}, inWm' = inWm,
           LET time == MaxOf({inWm[t] : t \in Subtasks}) IN
           IF time > watermark THEN Advance(time) ELSE Stay
    PROVE  Moved
<1>. DEFINE W == {inWm[t] : t \in Subtasks}
<1>1. CASE Stay
  BY <1>1 DEF Moved
<1>2. CASE MaxOf(W) > watermark /\ Advance(MaxOf(W))
  <2>1. W \in SUBSET Int /\ IsFiniteSet(W) /\ W # {}
    BY WatermarksFinite
  <2>. HIDE DEF W
  <2>2. MaxOf(W) \in W
    BY <2>1, MaxOfFinite
  <2>3. \E t \in Subtasks : MaxOf(W) = inWm'[t]
    BY <2>2 DEF W
  <2>. QED  BY <1>2, <2>1, <2>2, <2>3 DEF Moved
<1>. QED  BY <1>1, <1>2

\* A watermark on channel s raises the channel's watermark or is ignored; whatever
\* else the valve does, the windows follow.
LEMMA WatermarkReceived ==
    ASSUME TypeOK, NEW s \in Subtasks, NEW time \in Int, ReceiveWatermark(s, time)
    PROVE  /\ Moved /\ UNCHANGED <<inIdle, dropped>>
           /\ inAligned' \in [Subtasks -> BOOLEAN]
           /\ inWm' = inWm \/ (time > inWm[s] /\ inWm' = [inWm EXCEPT ![s] = time])
<1>1. CASE inIdle[s] \/ time <= inWm[s]
  BY <1>1 DEF ReceiveWatermark, Moved, TypeOK
<1>2. CASE ~(inIdle[s] \/ time <= inWm[s])
  <2>1. /\ inWm' = [inWm EXCEPT ![s] = time]
        /\ inAligned' = [inAligned EXCEPT ![s] = @ \/ time >= watermark]
        /\ AdvanceToMin(inWm', inAligned')
        /\ time > inWm[s]
    BY <1>2 DEF ReceiveWatermark, TypeOK
  <2>2. inWm' \in [Subtasks -> Int] /\ inAligned' \in [Subtasks -> BOOLEAN]
    BY <2>1 DEF TypeOK
  <2>3. Moved
    BY <2>1, <2>2, AdvanceToMinMoves
  <2>. QED  BY <2>1, <2>2, <2>3 DEF ReceiveWatermark
<1>. QED  BY <1>1, <1>2

\* A status changes no channel's watermark; the windows follow here as well.
LEMMA StatusReceived ==
    ASSUME TypeOK, NEW s \in Subtasks, ReceiveIdle(s) \/ ReceiveActive(s)
    PROVE  /\ Moved /\ UNCHANGED <<inWm, dropped>>
           /\ inAligned' \in [Subtasks -> BOOLEAN] /\ inIdle' \in [Subtasks -> BOOLEAN]
<1>1. CASE ReceiveActive(s)
  BY <1>1 DEF ReceiveActive, Moved, TypeOK
<1>2. CASE ReceiveIdle(s)
  <2>1. /\ inWm' = inWm /\ inWm' \in [Subtasks -> Int]
        /\ inIdle' = [inIdle EXCEPT ![s] = TRUE]
        /\ inAligned' = [inAligned EXCEPT ![s] = FALSE]
        /\ UNCHANGED dropped
    BY <1>2 DEF ReceiveIdle, TypeOK
  <2>2. inIdle' \in [Subtasks -> BOOLEAN] /\ inAligned' \in [Subtasks -> BOOLEAN]
    BY <2>1 DEF TypeOK
  <2>3. \/ Stay
        \/ LET time == MaxOf({inWm[t] : t \in Subtasks}) IN
           IF time > watermark THEN Advance(time) ELSE Stay
        \/ AdvanceToMin(inWm', inAligned')
    BY <1>2, <2>1 DEF ReceiveIdle
  <2>4. Moved
    <3>1. CASE Stay
      BY <3>1 DEF Moved
    <3>2. CASE LET time == MaxOf({inWm[t] : t \in Subtasks}) IN
               IF time > watermark THEN Advance(time) ELSE Stay
      BY <2>1, <3>2, FlushMoves
    <3>3. CASE AdvanceToMin(inWm', inAligned')
      BY <2>1, <3>3, AdvanceToMinMoves
    <3>. QED  BY <2>3, <3>1, <3>2, <3>3
  <2>. QED  BY <2>1, <2>2, <2>4
<1>. QED  BY <1>1, <1>2

\* The operator takes the element at the front of a channel: an event, which no
\* watermark moves, or something else, which touches no event and leaves each
\* channel's watermark alone or raises it to the one received.
LEMMA Received ==
    ASSUME TypeOK, NEW s \in Subtasks, Receive(s)
    PROVE  /\ channel[s] \in Seq(Elements) /\ channel[s] # <<>>
           /\ channel' = [channel EXCEPT ![s] = Tail(@)]
           /\ UNCHANGED <<next, maxTime, emitted, idle, late, checkpoint, restarts>>
           /\ \/ \E id \in EventIds : IdOf(Head(channel[s])) = {id} /\ ReceiveEvent(s, id)
              \/ /\ IdOf(Head(channel[s])) = {}
                 /\ Moved /\ UNCHANGED dropped
                 /\ inAligned' \in [Subtasks -> BOOLEAN] /\ inIdle' \in [Subtasks -> BOOLEAN]
                 /\ \/ inWm' = inWm
                    \/ \E time \in Int :
                        /\ Head(channel[s]).type = "watermark"
                        /\ time = Head(channel[s]).time
                        /\ time > inWm[s] /\ inWm' = [inWm EXCEPT ![s] = time]
<1>. DEFINE e == Head(channel[s])
<1>1. channel[s] \in Seq(Elements) /\ channel[s] # <<>>
  BY DEF Receive, TypeOK
<1>2. e \in Elements
  BY <1>1
<1>. HIDE DEF e
<1>3. \/ e.type = "event" /\ ReceiveEvent(s, e.id)
      \/ e.type = "watermark" /\ ReceiveWatermark(s, e.time)
      \/ e.type = "idle" /\ ReceiveIdle(s)
      \/ e.type = "active" /\ ReceiveActive(s)
  BY DEF Receive, e
<1>4. CASE e.type = "event" /\ ReceiveEvent(s, e.id)
  <2>1. e.id \in EventIds
    BY <1>2, <1>4 DEF Elements
  <2>. QED  BY <1>1, <1>4, <2>1 DEF Receive, IdOf, e
<1>5. CASE e.type = "watermark" /\ ReceiveWatermark(s, e.time)
  <2>1. e.time \in Int
    BY <1>2, <1>5 DEF Elements
  <2>2. inIdle' \in [Subtasks -> BOOLEAN]
    BY <1>5, <2>1, WatermarkReceived DEF TypeOK
  <2>3. IdOf(e) = {}
    BY <1>5 DEF IdOf
  <2>. QED  BY <1>1, <1>5, <2>1, <2>2, <2>3, WatermarkReceived DEF Receive, e
<1>6. CASE (e.type = "idle" /\ ReceiveIdle(s)) \/ (e.type = "active" /\ ReceiveActive(s))
  <2>1. IdOf(e) = {}
    BY <1>6 DEF IdOf
  <2>. QED  BY <1>1, <1>6, <2>1, StatusReceived DEF Receive, e
<1>. QED  BY <1>3, <1>4, <1>5, <1>6

-----------------------------------------------------------------------------
(* Type correctness *)

\* The initial state is well typed.
LEMMA TypeInit == Init => TypeOK
<1>. SUFFICES ASSUME Init PROVE TypeOK
  OBVIOUS
<1>1. FromEarliest \in [next : Positions, open : [Windows -> SUBSET EventIds]]
  BY TopicAssumption DEF FromEarliest, NothingOpen, Positions
<1>2. FromEarliest.next \in Positions /\ FromEarliest.open = NothingOpen
  BY <1>1 DEF FromEarliest
<1>3. \A s \in Subtasks : <<>> \in Seq(Elements)
  OBVIOUS
<1>. QED
  BY <1>1, <1>2, <1>3, NoTimeFacts, TimeAssumption DEF Init, TypeOK, NothingOpen

\* Offsets that go forward stay within the topic.
LEMMA PositionsMove ==
    ASSUME NEW f \in Positions, NEW p \in Partitions, NEW s \in Subtasks,
           NEW i \in DOMAIN Topic[p]
    PROVE  [f EXCEPT ![p][s] = i] \in Positions
<1>1. Topic[p] \in Seq(EventIds) /\ i \in Nat /\ i <= Len(Topic[p])
  BY TopicAssumption
<1>. QED  BY <1>1 DEF Positions

\* A record and a status or watermark fit a channel.
LEMMA ElementTypes ==
    /\ \A id \in EventIds : [type |-> "event", id |-> id] \in Elements
    /\ \A t \in Int : [type |-> "watermark", time |-> t] \in Elements
    /\ [type |-> "idle"] \in Elements /\ [type |-> "active"] \in Elements
  BY DEF Elements

\* The windows keep their types when the watermark advances or an event comes.
LEMMA MovedType ==
    ASSUME TypeOK, Moved
    PROVE  /\ watermark' \in Int /\ counted' \subseteq EventIds
           /\ open' \in [Windows -> SUBSET EventIds] /\ row' \in [Windows -> SUBSET EventIds]
<1>1. CASE Stay
  BY <1>1 DEF Stay, TypeOK
<1>2. ASSUME NEW time \in Int, Advance(time)
      PROVE  /\ watermark' \in Int /\ counted' \subseteq EventIds
             /\ open' \in [Windows -> SUBSET EventIds] /\ row' \in [Windows -> SUBSET EventIds]
  BY <1>2 DEF Advance, Upserted, TypeOK
<1>. QED  BY <1>1, <1>2 DEF Moved

\* What the periodic emit sends: a watermark, behind a status if it was idle.
LEMMA Emitted ==
    ASSUME NEW q \in Seq(Elements), NEW t \in Int, NEW wasIdle \in BOOLEAN
    PROVE  LET active == Append(q, [type |-> "active"])
               mark == [type |-> "watermark", time |-> t]
           IN q \o (IF wasIdle THEN <<[type |-> "active"]>> ELSE <<>>) \o <<mark>>
                = IF wasIdle THEN Append(active, mark) ELSE Append(q, mark)
<1>. DEFINE act == [type |-> "active"]
<1>. DEFINE mark == [type |-> "watermark", time |-> t]
<1>1. act \in Elements /\ mark \in Elements
  BY ElementTypes
<1>. HIDE DEF act, mark
<1>2. Append(q, act) \in Seq(Elements)
  BY <1>1
<1>3. q \o <<act>> = Append(q, act) /\ q \o <<>> = q /\ q \o <<mark>> = Append(q, mark)
  BY <1>1
<1>4. Append(q, act) \o <<mark>> = Append(Append(q, act), mark)
  BY <1>1, <1>2
<1>. QED  BY <1>3, <1>4 DEF act, mark

\* The record routed is the first of those unread.
LEMMA Routed ==
    ASSUME TypeOK, NEW p \in Partitions, NEW s \in Subtasks, Route(p, s)
    PROVE  \E i \in DOMAIN Topic[p] :
              /\ Topic[p][i] \in EventIds /\ SubtaskOf[Topic[p][i]] = s
              /\ i \in Nat /\ i > next[p][s]
              /\ \A j \in Unread(p, s) : i <= j
              /\ next' = [next EXCEPT ![p][s] = i]
              /\ maxTime' = [maxTime EXCEPT ![s] = Later(EventTime[Topic[p][i]], s)]
              /\ \/ /\ late' = late \cup {Topic[p][i]}
                    /\ UNCHANGED channel
                 \/ /\ UNCHANGED late
                    /\ channel' = [channel EXCEPT ![s] =
                                      Append(@, [type |-> "event", id |-> Topic[p][i]])]
<1>1. PICK i \in Unread(p, s) :
        /\ \A j \in Unread(p, s) : i <= j
        /\ next' = [next EXCEPT ![p][s] = i]
        /\ maxTime' = [maxTime EXCEPT ![s] = Later(EventTime[Topic[p][i]], s)]
        /\ late' = IF TooLate(s, Topic[p][i]) THEN late \cup {Topic[p][i]} ELSE late
        /\ channel' = IF PassedOn(s, Topic[p][i])
                      THEN [channel EXCEPT ![s] =
                               Append(@, [type |-> "event", id |-> Topic[p][i]])]
                      ELSE channel
  BY DEF Route
<1>2. /\ i \in DOMAIN Topic[p] /\ SubtaskOf[Topic[p][i]] = s /\ i > next[p][s]
  BY DEF Unread, Stream
<1>3. Topic[p][i] \in EventIds /\ i \in Nat
  BY <1>2, TopicAssumption
<1>. QED  BY <1>1, <1>2, <1>3 DEF PassedOn

\* Every step keeps the types.
LEMMA TypeStep == TypeOK /\ [Next]_vars => TypeOK'
<1>. SUFFICES ASSUME TypeOK, [Next]_vars PROVE TypeOK'
  OBVIOUS
<1>1. ASSUME NEW p \in Partitions, NEW s \in Subtasks, Route(p, s) PROVE TypeOK'
  <2>1. PICK i \in DOMAIN Topic[p] :
          /\ Topic[p][i] \in EventIds /\ next' = [next EXCEPT ![p][s] = i]
          /\ maxTime' = [maxTime EXCEPT ![s] = Later(EventTime[Topic[p][i]], s)]
          /\ \/ late' = late \cup {Topic[p][i]} /\ UNCHANGED channel
             \/ /\ UNCHANGED late
                /\ channel' = [channel EXCEPT ![s] =
                                  Append(@, [type |-> "event", id |-> Topic[p][i]])]
    BY <1>1, Routed
  <2>2. next' \in Positions
    BY <2>1, PositionsMove DEF TypeOK
  <2>3. maxTime' \in [Subtasks -> Int]
    <3>1. EventTime[Topic[p][i]] \in Int
      BY <2>1, TimeAssumption
    <3>. QED  BY <2>1, <3>1 DEF TypeOK, Later
  <2>4. late' \subseteq EventIds
    BY <2>1 DEF TypeOK
  <2>5. channel' \in [Subtasks -> Seq(Elements)]
    <3>. DEFINE e == [type |-> "event", id |-> Topic[p][i]]
    <3>1. e \in Elements
      BY <2>1, ElementTypes
    <3>2. UNCHANGED channel \/ channel' = [channel EXCEPT ![s] = Append(@, e)]
      BY <2>1
    <3>. HIDE DEF e
    <3>3. Append(channel[s], e) \in Seq(Elements)
      BY <3>1 DEF TypeOK
    <3>. QED  BY <3>2, <3>3 DEF TypeOK
  <2>. QED  BY <1>1, <2>2, <2>3, <2>4, <2>5 DEF Route, TypeOK, inVars
<1>2. ASSUME NEW s \in Subtasks, EmitWatermark(s) PROVE TypeOK'
  <2>1. BoundedWatermark(s) \in Int
    BY TimeAssumption DEF BoundedWatermark, TypeOK
  <2>2. channel[s] \in Seq(Elements) /\ idle[s] \in BOOLEAN
    BY DEF TypeOK
  <2>. DEFINE act == [type |-> "active"]
  <2>. DEFINE mark == [type |-> "watermark", time |-> BoundedWatermark(s)]
  <2>3. act \in Elements /\ mark \in Elements
    BY <2>1, ElementTypes
  <2>4. channel' = [channel EXCEPT ![s] =
            IF idle[s] THEN Append(Append(@, act), mark) ELSE Append(@, mark)]
    BY <1>2, <2>1, <2>2, Emitted DEF EmitWatermark, TypeOK
  <2>. HIDE DEF act, mark
  <2>5. channel' \in [Subtasks -> Seq(Elements)]
    <3>1. (IF idle[s] THEN Append(Append(channel[s], act), mark) ELSE Append(channel[s], mark))
             \in Seq(Elements)
      BY <2>2, <2>3
    <3>. QED  BY <2>4, <3>1 DEF TypeOK
  <2>. QED  BY <1>2, <2>1, <2>5 DEF EmitWatermark, TypeOK, inVars
<1>3. ASSUME NEW s \in Subtasks, MarkIdle(s) PROVE TypeOK'
  <2>1. channel' \in [Subtasks -> Seq(Elements)]
    BY <1>3, ElementTypes DEF MarkIdle, TypeOK
  <2>. QED  BY <1>3, <2>1 DEF MarkIdle, TypeOK, inVars
<1>4. ASSUME NEW s \in Subtasks, Receive(s) PROVE TypeOK'
  <2>1. channel' \in [Subtasks -> Seq(Elements)]
    <3>1. Tail(channel[s]) \in Seq(Elements)
      BY <1>4, Received, TakeElement
    <3>2. channel' = [channel EXCEPT ![s] = Tail(@)]
      BY <1>4, Received
    <3>. QED  BY <3>1, <3>2 DEF TypeOK
  <2>2. UNCHANGED <<next, maxTime, emitted, idle, late, checkpoint, restarts>>
    BY <1>4, Received
  <2>3. CASE \E id \in EventIds : ReceiveEvent(s, id)
    <3>1. PICK id \in EventIds : ReceiveEvent(s, id)
      BY <2>3
    <3>2. open' \in [Windows -> SUBSET EventIds] /\ dropped' \subseteq EventIds
      <4>1. CASE dropped' = dropped \cup {id} /\ UNCHANGED open
        BY <4>1 DEF TypeOK
      <4>2. CASE /\ open' = [open EXCEPT ![WindowOf(id)] = @ \cup {id}]
                 /\ UNCHANGED dropped
        BY <4>2 DEF TypeOK
      <4>. QED  BY <3>1, <4>1, <4>2 DEF ReceiveEvent
    <3>. QED  BY <2>1, <2>2, <3>1, <3>2 DEF ReceiveEvent, TypeOK, inVars
  <2>4. CASE /\ Moved /\ UNCHANGED dropped
             /\ inAligned' \in [Subtasks -> BOOLEAN] /\ inIdle' \in [Subtasks -> BOOLEAN]
             /\ inWm' = inWm \/ \E time \in Int : inWm' = [inWm EXCEPT ![s] = time]
    BY <2>1, <2>2, <2>4, MovedType DEF TypeOK
  <2>. QED  BY <1>4, <2>3, <2>4, Received
<1>5. ASSUME TakeCheckpoint PROVE TypeOK'
  BY <1>5 DEF TakeCheckpoint, SnapshotOfWindows, TypeOK, inVars
<1>6. ASSUME Restart PROVE TypeOK'
  <2>1. restarts' \in 0..MaxRestarts
    BY <1>6, TimeAssumption DEF Restart, TypeOK
  <2>2. /\ checkpoint.next \in Positions /\ checkpoint.open \in [Windows -> SUBSET EventIds]
    BY DEF TypeOK
  <2>3. next' \in Positions /\ open' \in [Windows -> SUBSET EventIds]
    BY <1>6, <2>2 DEF Restart, RestoredNext
  <2>4. \A s \in Subtasks : <<>> \in Seq(Elements)
    OBVIOUS
  <2>5. /\ maxTime' \in [Subtasks -> Int] /\ emitted' \in [Subtasks -> Int]
        /\ idle' \in [Subtasks -> BOOLEAN] /\ inIdle' \in [Subtasks -> BOOLEAN]
        /\ inAligned' \in [Subtasks -> BOOLEAN] /\ channel' \in [Subtasks -> Seq(Elements)]
        /\ inWm' \in [Subtasks -> Int] /\ watermark' \in Int
    BY <1>6, <2>4, NoTimeFacts DEF Restart
  <2>. QED  BY <1>6, <2>1, <2>3, <2>5 DEF Restart, TypeOK
<1>7. ASSUME UNCHANGED vars PROVE TypeOK'
  BY <1>7 DEF vars, inVars, TypeOK
<1>. QED  BY <1>1, <1>2, <1>3, <1>4, <1>5, <1>6, <1>7 DEF Next

\* Offsets, windows, rows and channels have their types, whatever is replayed: no
\* offset is behind the end of its partition.
THEOREM TypeCorrect == Spec => []TypeOK
  BY TypeInit, TypeStep, PTL DEF Spec

-----------------------------------------------------------------------------
(* The inductive invariant *)

\* id is processed when every subtask stands at its offset in f.
ReadBy(f, id) ==
    \E p \in Partitions : \E i \in DOMAIN Topic[p] :
        Topic[p][i] = id /\ i <= f[p][SubtaskOf[id]]

Settled == counted \cup late \cup dropped

\* Windows hold their own events, and none that comes again behind the offsets f.
HoldsRead(f, windows) ==
    \A k \in Windows : \A id \in windows[k] : WindowOf(id) = k /\ ReadBy(f, id)

\* A channel carries events its own subtask has read, each once.
Carried(s) ==
    /\ Once(channel[s])
    /\ \A id \in InChannel(s) : SubtaskOf[id] = s /\ ReadBy(next, id)

Apart == \A s \in Subtasks : \A id \in InChannel(s) : id \notin open[WindowOf(id)]

\* EventsConserved, of the job and of what a restart makes of it.
Kept == \A id \in EventIds :
    ReadBy(next, id) =>
        id \in InChannel(SubtaskOf[id]) \/ id \in open[WindowOf(id)] \/ id \in Settled
SavedKept == \A id \in EventIds :
    ReadBy(checkpoint.next, id) => id \in checkpoint.open[WindowOf(id)] \/ id \in Settled

\* Windows are open until the watermark reaches their end and have a row after it.
OpenAhead == \A k \in Windows : open[k] # {} => ~Closed(k, watermark)
RowsClosed == restarts = 0 => \A k \in Windows : row[k] # {} => Closed(k, watermark)

\* Until a restart nothing is settled that is to be read again.
SettledRead == restarts = 0 => \A id \in Settled : ReadBy(next, id)

\* Every watermark goes back to an event that a subtask has processed.
Earned(s) ==
    /\ maxTime[s] # NoTime =>
        \E p \in Partitions : \E i \in Processed(p, s) : EventTime[Topic[p][i]] = maxTime[s]
    /\ emitted[s] # NoTime => maxTime[s] # NoTime /\ emitted[s] <= BoundedWatermark(s)
    /\ inWm[s] <= emitted[s]
    /\ Within(channel[s], emitted[s])
Reached == watermark # NoTime => \E s \in Subtasks : watermark <= inWm[s]

IInv ==
    /\ TypeOK
    /\ \A s \in Subtasks : Carried(s) /\ Earned(s)
    /\ HoldsRead(next, open) /\ HoldsRead(checkpoint.next, checkpoint.open)
    /\ Apart
    /\ Kept /\ SavedKept
    /\ OpenAhead /\ RowsClosed
    /\ SettledRead /\ FatesExclusive
    /\ Reached

-----------------------------------------------------------------------------
(* A step, seen from the events *)

\* The record routed has not been read before.
LEMMA UnreadIsNew ==
    ASSUME TypeOK, NEW p \in Partitions, NEW i \in DOMAIN Topic[p],
           i > next[p][SubtaskOf[Topic[p][i]]]
    PROVE  ~ReadBy(next, Topic[p][i])
<1>. SUFFICES ASSUME NEW q \in Partitions, NEW j \in DOMAIN Topic[q],
                     Topic[q][j] = Topic[p][i], j <= next[q][SubtaskOf[Topic[p][i]]]
              PROVE  FALSE
  BY DEF ReadBy
<1>1. q = p /\ j = i
  BY TopicAssumption
<1>2. i \in Nat /\ SubtaskOf[Topic[p][i]] \in Subtasks
  BY TopicAssumption
<1>3. next[p][SubtaskOf[Topic[p][i]]] \in Nat
  BY <1>2 DEF TypeOK, Positions
<1>. QED  BY <1>1, <1>2, <1>3

\* The first unread record is the only one read by being routed.
LEMMA ReadOneMore ==
    ASSUME TypeOK, NEW p \in Partitions, NEW s \in Subtasks, NEW i \in DOMAIN Topic[p],
           SubtaskOf[Topic[p][i]] = s, i > next[p][s], \A j \in Unread(p, s) : i <= j,
           next' = [next EXCEPT ![p][s] = i], NEW id \in EventIds
    PROVE  ReadBy(next', id) <=> ReadBy(next, id) \/ id = Topic[p][i]
<1>. DEFINE t == SubtaskOf[id]
<1>0. t \in Subtasks /\ i \in Nat /\ \A q \in Partitions : \A j \in DOMAIN Topic[q] : j \in Nat
  BY TopicAssumption
<1>1. \A q \in Partitions : next[q][t] \in Nat
  BY <1>0 DEF TypeOK, Positions
<1>2. /\ next'[p][s] = i
      /\ \A q \in Partitions : q # p \/ t # s => next'[q][t] = next[q][t]
  BY <1>0 DEF TypeOK, Positions
<1>3. ASSUME ReadBy(next', id) PROVE ReadBy(next, id) \/ id = Topic[p][i]
  <2>0. PICK q \in Partitions :
            \E j \in DOMAIN Topic[q] : Topic[q][j] = id /\ j <= next'[q][t]
    BY <1>3 DEF ReadBy
  <2>1. PICK j \in DOMAIN Topic[q] : Topic[q][j] = id /\ j <= next'[q][t]
    BY <2>0
  <2>2. CASE q # p \/ t # s
    BY <1>2, <2>1, <2>2 DEF ReadBy
  <2>3. CASE q = p /\ t = s
    <3>1. j <= next[p][s] \/ j \in Unread(p, s)
      BY <1>0, <1>1, <2>1, <2>3 DEF Unread, Stream
    <3>2. CASE j <= next[p][s]
      BY <2>1, <2>3, <3>2 DEF ReadBy
    <3>3. CASE j \in Unread(p, s)
      <4>1. i <= j /\ j <= i
        BY <1>2, <2>1, <2>3, <3>3
      <4>. QED  BY <1>0, <2>1, <2>3, <4>1
    <3>. QED  BY <3>1, <3>2, <3>3
  <2>. QED  BY <2>2, <2>3
<1>4. ASSUME ReadBy(next, id) PROVE ReadBy(next', id)
  <2>0. PICK q \in Partitions :
            \E j \in DOMAIN Topic[q] : Topic[q][j] = id /\ j <= next[q][t]
    BY <1>4 DEF ReadBy
  <2>1. PICK j \in DOMAIN Topic[q] : Topic[q][j] = id /\ j <= next[q][t]
    BY <2>0
  <2>2. j <= next'[q][t]
    BY <1>0, <1>1, <1>2, <2>1
  <2>. QED  BY <2>1, <2>2 DEF ReadBy
<1>5. ASSUME id = Topic[p][i] PROVE ReadBy(next', id)
  BY <1>0, <1>2, <1>5 DEF ReadBy
<1>. QED  BY <1>3, <1>4, <1>5

\* The events on the channels, and what is read, through each kind of step.
ChannelsKeep == \A t \in Subtasks : InChannel(t)' = InChannel(t)

Routing(id) ==
    /\ ~ReadBy(next, id)
    /\ \A x \in EventIds : ReadBy(next', x) <=> ReadBy(next, x) \/ x = id
    /\ \/ late' = late \cup {id} /\ ChannelsKeep
       \/ /\ UNCHANGED late
          /\ \A t \in Subtasks :
                InChannel(t)' = InChannel(t) \cup (IF t = SubtaskOf[id] THEN {id} ELSE {})
    /\ UNCHANGED <<open, row, watermark, dropped, counted, checkpoint, restarts>>

Taking(s, id) ==
    /\ id \in InChannel(s) /\ id \notin InChannel(s)'
    /\ InChannel(s) = InChannel(s)' \cup {id}
    /\ \A t \in Subtasks \ {s} : InChannel(t)' = InChannel(t)
    /\ IF WindowLate(id)
       THEN dropped' = dropped \cup {id} /\ UNCHANGED open
       ELSE open' = [open EXCEPT ![WindowOf(id)] = @ \cup {id}] /\ UNCHANGED dropped
    /\ UNCHANGED <<next, row, watermark, late, counted, checkpoint, restarts>>

Moving ==
    /\ ChannelsKeep
    /\ Moved
    /\ UNCHANGED <<next, late, dropped, checkpoint, restarts>>

Saving ==
    /\ \A t \in Subtasks : InChannel(t) = {}
    /\ ChannelsKeep
    /\ checkpoint' = [next |-> next, open |-> open]
    /\ UNCHANGED <<next, open, row, watermark, late, dropped, counted, restarts>>

Restoring ==
    /\ \A t \in Subtasks : InChannel(t)' = {}
    /\ restarts' = restarts + 1
    /\ next' = checkpoint.next /\ open' = checkpoint.open
    /\ watermark' = NoTime
    /\ UNCHANGED <<row, late, dropped, counted, checkpoint>>

Kinds ==
    \/ \E id \in EventIds : Routing(id)
    \/ \E s \in Subtasks, id \in EventIds : Taking(s, id)
    \/ Moving \/ Saving \/ Restoring

\* A record routed: its event is late, or joins its subtask's channel.
LEMMA RouteKind ==
    ASSUME TypeOK, NEW p \in Partitions, NEW s \in Subtasks, Route(p, s)
    PROVE  \E id \in EventIds : Routing(id)
<1>1. PICK i \in DOMAIN Topic[p] :
        /\ Topic[p][i] \in EventIds /\ SubtaskOf[Topic[p][i]] = s
        /\ i \in Nat /\ i > next[p][s]
        /\ \A j \in Unread(p, s) : i <= j
        /\ next' = [next EXCEPT ![p][s] = i]
        /\ \/ late' = late \cup {Topic[p][i]} /\ UNCHANGED channel
           \/ /\ UNCHANGED late
              /\ channel' = [channel EXCEPT ![s] =
                                Append(@, [type |-> "event", id |-> Topic[p][i]])]
  BY Routed
<1>. DEFINE id == Topic[p][i]
<1>. DEFINE e == [type |-> "event", id |-> id]
<1>2. ~ReadBy(next, id)
  BY <1>1, UnreadIsNew
<1>3. \A x \in EventIds : ReadBy(next', x) <=> ReadBy(next, x) \/ x = id
  <2>1. /\ SubtaskOf[Topic[p][i]] = s /\ i > next[p][s] /\ \A j \in Unread(p, s) : i <= j
        /\ next' = [next EXCEPT ![p][s] = i]
    BY <1>1
  <2>. QED  BY <2>1, ReadOneMore, Zenon
<1>4. e \in Elements /\ IdOf(e) = {id}
  BY <1>1, ElementTypes DEF IdOf
<1>5. channel \in [Subtasks -> Seq(Elements)]
  BY DEF TypeOK
<1>6. \/ late' = late \cup {id} /\ ChannelsKeep
      \/ /\ UNCHANGED late
         /\ \A t \in Subtasks :
                InChannel(t)' = InChannel(t) \cup (IF t = SubtaskOf[id] THEN {id} ELSE {})
  <2>1. CASE late' = late \cup {id} /\ UNCHANGED channel
    BY <2>1 DEF ChannelsKeep, InChannel
  <2>2. CASE UNCHANGED late /\ channel' = [channel EXCEPT ![s] = Append(@, e)]
    <3>. HIDE DEF e
    <3>1. EventsIn(Append(channel[s], e)) = EventsIn(channel[s]) \cup {id}
      BY <1>4, <1>5, AppendElement
    <3>2. \A t \in Subtasks :
              channel'[t] = IF t = s THEN Append(channel[t], e) ELSE channel[t]
      BY <1>5, <2>2
    <3>. QED  BY <1>1, <2>2, <3>1, <3>2 DEF InChannel
  <2>. QED  BY <1>1, <2>1, <2>2
<1>7. UNCHANGED <<open, row, watermark, dropped, counted, checkpoint, restarts>>
  BY DEF Route, inVars
<1>. QED  BY <1>1, <1>2, <1>3, <1>6, <1>7 DEF Routing

\* Watermarks and statuses add no event to a channel.
LEMMA EmitKind ==
    ASSUME TypeOK, NEW s \in Subtasks, EmitWatermark(s) \/ MarkIdle(s)
    PROVE  Moving
<1>. DEFINE act == [type |-> "active"]
<1>. DEFINE mark == [type |-> "watermark", time |-> BoundedWatermark(s)]
<1>. DEFINE quiet == [type |-> "idle"]
<1>1. channel \in [Subtasks -> Seq(Elements)] /\ idle[s] \in BOOLEAN
  BY DEF TypeOK
<1>2. BoundedWatermark(s) \in Int
  BY TimeAssumption DEF BoundedWatermark, TypeOK
<1>3. act \in Elements /\ mark \in Elements /\ quiet \in Elements
  BY <1>2, ElementTypes
<1>4. IdOf(act) = {} /\ IdOf(mark) = {} /\ IdOf(quiet) = {}
  BY DEF IdOf
<1>5. channel[s] \in Seq(Elements)
  BY <1>1
<1>6. \E q \in Seq(Elements) :
        /\ channel' = [channel EXCEPT ![s] = q]
        /\ EventsIn(q) = EventsIn(channel[s])
  <2>1. CASE EmitWatermark(s)
    <3>1. channel' = [channel EXCEPT ![s] =
              IF idle[s] THEN Append(Append(@, act), mark) ELSE Append(@, mark)]
      BY <1>1, <1>2, <1>5, <2>1, Emitted DEF EmitWatermark
    <3>. HIDE DEF act, mark
    <3>2. /\ Append(channel[s], mark) \in Seq(Elements)
          /\ Append(channel[s], act) \in Seq(Elements)
          /\ Append(Append(channel[s], act), mark) \in Seq(Elements)
      BY <1>3, <1>5
    <3>3. /\ EventsIn(Append(channel[s], mark)) = EventsIn(channel[s])
          /\ EventsIn(Append(channel[s], act)) = EventsIn(channel[s])
      BY <1>3, <1>4, <1>5, AppendElement
    <3>4. EventsIn(Append(Append(channel[s], act), mark)) = EventsIn(channel[s])
      <4>. DEFINE q == Append(channel[s], act)
      <4>1. q \in Seq(Elements) /\ EventsIn(q) = EventsIn(channel[s])
        BY <3>2, <3>3
      <4>. HIDE DEF q
      <4>2. EventsIn(Append(q, mark)) = EventsIn(q) \cup IdOf(mark)
        BY <1>3, <4>1, AppendElement
      <4>. QED  BY <1>4, <4>1, <4>2 DEF q
    <3>. QED  BY <3>1, <3>2, <3>3, <3>4
  <2>2. CASE MarkIdle(s)
    <3>1. channel' = [channel EXCEPT ![s] = Append(@, quiet)]
      BY <2>2 DEF MarkIdle
    <3>. HIDE DEF quiet
    <3>2. Append(channel[s], quiet) \in Seq(Elements)
      BY <1>3, <1>5
    <3>3. EventsIn(Append(channel[s], quiet)) = EventsIn(channel[s])
      BY <1>3, <1>4, <1>5, AppendElement
    <3>. QED  BY <3>1, <3>2, <3>3
  <2>. QED  BY <2>1, <2>2
<1>7. ChannelsKeep
  BY <1>1, <1>6 DEF ChannelsKeep, InChannel
<1>8. Moved /\ UNCHANGED <<next, late, dropped, checkpoint, restarts>>
  BY DEF EmitWatermark, MarkIdle, Moved, Stay, inVars
<1>. QED  BY <1>7, <1>8 DEF Moving

\* The operator takes an event off a channel, or its windows move.
LEMMA ReceiveKind ==
    ASSUME TypeOK, NEW s \in Subtasks, Once(channel[s]), Receive(s)
    PROVE  Moving \/ \E id \in EventIds : Taking(s, id)
<1>. DEFINE e == Head(channel[s])
<1>1. /\ channel[s] \in Seq(Elements) /\ channel[s] # <<>>
      /\ channel' = [channel EXCEPT ![s] = Tail(@)]
      /\ UNCHANGED <<next, late, checkpoint, restarts>>
  BY Received
<1>2. /\ EventsIn(channel[s]) = EventsIn(Tail(channel[s])) \cup IdOf(e)
      /\ EventsIn(Tail(channel[s])) \cap IdOf(e) = {}
  BY <1>1, TakeElement
<1>3. \A t \in Subtasks :
        channel'[t] = IF t = s THEN Tail(channel[t]) ELSE channel[t]
  BY <1>1 DEF TypeOK
<1>. HIDE DEF e
<1>4. ASSUME NEW id \in EventIds, IdOf(e) = {id}, ReceiveEvent(s, id)
      PROVE  Taking(s, id)
  <2>1. UNCHANGED <<row, watermark, counted>>
    BY <1>4 DEF ReceiveEvent, inVars
  <2>2. IF WindowLate(id)
        THEN dropped' = dropped \cup {id} /\ UNCHANGED open
        ELSE open' = [open EXCEPT ![WindowOf(id)] = @ \cup {id}] /\ UNCHANGED dropped
    BY <1>4 DEF ReceiveEvent
  <2>3. /\ id \in InChannel(s) /\ id \notin InChannel(s)'
        /\ InChannel(s) = InChannel(s)' \cup {id}
        /\ \A t \in Subtasks \ {s} : InChannel(t)' = InChannel(t)
    BY <1>2, <1>3, <1>4 DEF InChannel
  <2>. QED  BY <1>1, <2>1, <2>2, <2>3 DEF Taking
<1>5. ASSUME IdOf(e) = {}, Moved, UNCHANGED dropped
      PROVE  Moving
  BY <1>1, <1>2, <1>3, <1>5 DEF Moving, ChannelsKeep, InChannel
<1>6. \/ \E id \in EventIds : IdOf(e) = {id} /\ ReceiveEvent(s, id)
      \/ IdOf(e) = {} /\ Moved /\ UNCHANGED dropped
  BY Received DEF e
<1>. QED  BY <1>4, <1>5, <1>6

\* Every step of the job is of one of the five kinds.
LEMMA StepKinds ==
    ASSUME TypeOK, \A s \in Subtasks : Once(channel[s]), [Next]_vars
    PROVE  Kinds
<1>. USE DEF Kinds
<1>1. CASE \E p \in Partitions, s \in Subtasks : Route(p, s)
  BY <1>1, RouteKind
<1>2. CASE \E s \in Subtasks : EmitWatermark(s) \/ MarkIdle(s)
  BY <1>2, EmitKind
<1>3. CASE \E s \in Subtasks : Receive(s)
  BY <1>3, ReceiveKind
<1>4. EventsIn(<<>>) = {}
  BY DEF EventsIn
<1>5. CASE TakeCheckpoint
  <2>1. \A t \in Subtasks : InChannel(t) = {}
    BY <1>4, <1>5 DEF TakeCheckpoint, AtCut, InChannel
  <2>2. ChannelsKeep
    BY <1>5 DEF TakeCheckpoint, ChannelsKeep, InChannel
  <2>. QED  BY <1>5, <2>1, <2>2 DEF TakeCheckpoint, SnapshotOfWindows, Saving, inVars
<1>6. CASE Restart
  <2>1. \A t \in Subtasks : InChannel(t)' = {}
    BY <1>4, <1>6 DEF Restart, InChannel
  <2>. QED  BY <1>6, <2>1 DEF Restart, RestoredNext, Restoring
<1>7. CASE UNCHANGED vars
  BY <1>7 DEF vars, inVars, Moving, Moved, Stay, ChannelsKeep, InChannel
<1>. QED  BY <1>1, <1>2, <1>3, <1>5, <1>6, <1>7 DEF Next

-----------------------------------------------------------------------------
(* The invariant through every step *)

\* No event comes to be on a channel twice: what is routed was unread.
LEMMA OnceStep ==
    ASSUME TypeOK, \A t \in Subtasks : Carried(t), [Next]_vars
    PROVE  \A t \in Subtasks : Once(channel'[t])
<1>0. channel \in [Subtasks -> Seq(Elements)] /\ \A t \in Subtasks : Once(channel[t])
  BY DEF TypeOK, Carried
<1>1. ASSUME NEW s \in Subtasks, NEW q, channel' = [channel EXCEPT ![s] = q], Once(q)
      PROVE  \A t \in Subtasks : Once(channel'[t])
  BY <1>0, <1>1
<1>2. ASSUME NEW p \in Partitions, NEW s \in Subtasks, Route(p, s)
      PROVE  \A t \in Subtasks : Once(channel'[t])
  <2>1. PICK i \in DOMAIN Topic[p] :
          /\ Topic[p][i] \in EventIds /\ SubtaskOf[Topic[p][i]] = s /\ i > next[p][s]
          /\ \/ UNCHANGED channel
             \/ channel' = [channel EXCEPT ![s] =
                               Append(@, [type |-> "event", id |-> Topic[p][i]])]
    BY <1>2, Routed
  <2>. DEFINE e == [type |-> "event", id |-> Topic[p][i]]
  <2>2. e \in Elements /\ IdOf(e) = {Topic[p][i]}
    BY <2>1, ElementTypes DEF IdOf
  <2>3. Topic[p][i] \notin EventsIn(channel[s])
    <3>1. ~ReadBy(next, Topic[p][i])
      BY <2>1, UnreadIsNew
    <3>. QED  BY <3>1 DEF Carried, InChannel
  <2>4. UNCHANGED channel \/ channel' = [channel EXCEPT ![s] = Append(channel[s], e)]
    BY <2>1
  <2>. HIDE DEF e
  <2>5. Once(Append(channel[s], e))
    <3>1. EventsIn(channel[s]) \cap IdOf(e) = {}
      BY <2>2, <2>3
    <3>. QED  BY <1>0, <2>2, <3>1, AppendElement
  <2>. QED  BY <1>0, <1>1, <2>4, <2>5
<1>3. ASSUME NEW s \in Subtasks, EmitWatermark(s) PROVE \A t \in Subtasks : Once(channel'[t])
  <2>. DEFINE act == [type |-> "active"]
  <2>. DEFINE mark == [type |-> "watermark", time |-> BoundedWatermark(s)]
  <2>1. BoundedWatermark(s) \in Int /\ idle[s] \in BOOLEAN
    BY TimeAssumption DEF BoundedWatermark, TypeOK
  <2>2. act \in Elements /\ mark \in Elements /\ IdOf(act) = {} /\ IdOf(mark) = {}
    BY <2>1, ElementTypes DEF IdOf
  <2>3. \/ channel' = [channel EXCEPT ![s] = Append(Append(channel[s], act), mark)]
        \/ channel' = [channel EXCEPT ![s] = Append(channel[s], mark)]
    BY <1>0, <1>3, <2>1, Emitted DEF EmitWatermark
  <2>. HIDE DEF act, mark
  <2>. DEFINE q == Append(channel[s], act)
  <2>4. q \in Seq(Elements) /\ Once(q) /\ Once(Append(channel[s], mark))
    <3>1. q \in Seq(Elements)
      BY <1>0, <2>2
    <3>. QED  BY <1>0, <2>2, <3>1, AppendElement
  <2>5. channel' = [channel EXCEPT ![s] = Append(q, mark)]
           \/ channel' = [channel EXCEPT ![s] = Append(channel[s], mark)]
    BY <2>3
  <2>. HIDE DEF q
  <2>6. Once(Append(q, mark))
    BY <2>2, <2>4, AppendElement
  <2>. QED  BY <1>1, <2>4, <2>5, <2>6
<1>4. ASSUME NEW s \in Subtasks, MarkIdle(s) PROVE \A t \in Subtasks : Once(channel'[t])
  <2>. DEFINE quiet == [type |-> "idle"]
  <2>1. channel' = [channel EXCEPT ![s] = Append(channel[s], quiet)]
    BY <1>4 DEF MarkIdle
  <2>2. quiet \in Elements /\ IdOf(quiet) = {}
    BY ElementTypes DEF IdOf
  <2>. HIDE DEF quiet
  <2>3. Once(Append(channel[s], quiet))
    BY <1>0, <2>2, AppendElement
  <2>. QED  BY <1>1, <2>1, <2>3
<1>5. ASSUME NEW s \in Subtasks, Receive(s) PROVE \A t \in Subtasks : Once(channel'[t])
  <2>1. /\ channel[s] \in Seq(Elements) /\ channel[s] # <<>>
        /\ channel' = [channel EXCEPT ![s] = Tail(channel[s])]
    BY <1>5, Received
  <2>2. Once(Tail(channel[s]))
    BY <1>0, <2>1, TakeElement
  <2>. QED  BY <1>1, <2>1, <2>2
<1>6. CASE TakeCheckpoint \/ UNCHANGED vars
  BY <1>0, <1>6 DEF TakeCheckpoint, vars
<1>7. CASE Restart
  <2>1. Once(<<>>)
    BY DEF Once, EventsAt
  <2>. QED  BY <1>7, <2>1 DEF Restart
<1>. QED  BY <1>2, <1>3, <1>4, <1>5, <1>6, <1>7 DEF Next

\* What the operator's windows hold after they moved they held before; what they no
\* longer hold is counted.
LEMMA MovedHolds ==
    ASSUME TypeOK, Moved
    PROVE  /\ \A k \in Windows : open'[k] = open[k] \/ open'[k] = {}
           /\ \A k \in Windows : \A id \in open[k] : id \in open'[k] \/ id \in counted'
           /\ \A id \in counted' : id \in counted \/ \E k \in Windows : id \in open[k] /\ open'[k] = {}
           /\ counted \subseteq counted'
<1>1. CASE Stay
  BY <1>1 DEF Stay
<1>2. ASSUME NEW time \in Int, Advance(time)
      PROVE  /\ \A k \in Windows : open'[k] = open[k] \/ open'[k] = {}
             /\ \A k \in Windows : \A id \in open[k] : id \in open'[k] \/ id \in counted'
             /\ \A id \in counted' :
                    id \in counted \/ \E k \in Windows : id \in open[k] /\ open'[k] = {}
             /\ counted \subseteq counted'
  <2>. DEFINE fired == {k \in Windows : open[k] # {} /\ Closed(k, time)}
  <2>1. /\ open' = [k \in Windows |-> IF k \in fired THEN {} ELSE open[k]]
        /\ counted' = counted \cup UNION {open[k] : k \in fired}
    BY <1>2 DEF Advance
  <2>2. fired \subseteq Windows
    OBVIOUS
  <2>. HIDE DEF fired
  <2>. QED  BY <2>1, <2>2
<1>. QED  BY <1>1, <1>2 DEF Moved

\* What is settled stays settled.
LEMMA SettledGrows ==
    ASSUME TypeOK, Kinds
    PROVE  Settled \subseteq Settled'
<1>1. CASE Moving
  BY <1>1, MovedHolds DEF Moving, Settled
<1>2. CASE \/ \E id \in EventIds : Routing(id)
           \/ \E s \in Subtasks, id \in EventIds : Taking(s, id)
           \/ Saving \/ Restoring
  BY <1>2 DEF Routing, Taking, Saving, Restoring, Settled
<1>. QED  BY <1>1, <1>2 DEF Kinds

\* Channels carry event ids.
LEMMA ChannelIds ==
    ASSUME TypeOK, NEW s \in Subtasks
    PROVE  InChannel(s) \subseteq EventIds
<1>1. \A i \in DOMAIN channel[s] : channel[s][i] \in Elements
  BY DEF TypeOK
<1>. QED  BY <1>1 DEF InChannel, EventsIn, Elements

\* A channel's events stay its own, and read.
LEMMA CarriedStep ==
    ASSUME TypeOK, \A t \in Subtasks : Carried(t), Kinds,
           \A t \in Subtasks : Once(channel'[t])
    PROVE  \A t \in Subtasks : Carried(t)'
<1>1. ASSUME NEW id \in EventIds, Routing(id), NEW t \in Subtasks, NEW x \in InChannel(t)'
      PROVE  SubtaskOf[x] = t /\ ReadBy(next', x)
  <2>1. x \in InChannel(t) \/ (x = id /\ t = SubtaskOf[id])
    BY <1>1 DEF Routing, ChannelsKeep
  <2>2. x \in EventIds
    BY <2>1, ChannelIds
  <2>3. ReadBy(next', x) <=> ReadBy(next, x) \/ x = id
    BY <1>1, <2>2 DEF Routing
  <2>. QED  BY <2>1, <2>3 DEF Carried
<1>2. ASSUME \/ \E s \in Subtasks, id \in EventIds : Taking(s, id)
             \/ Moving \/ Saving \/ Restoring,
             NEW t \in Subtasks, NEW x \in InChannel(t)'
      PROVE  SubtaskOf[x] = t /\ ReadBy(next', x)
  <2>1. x \in InChannel(t) /\ next' = next
    BY <1>2 DEF Taking, Moving, Saving, Restoring, ChannelsKeep
  <2>. QED  BY <2>1 DEF Carried
<1>3. \A t \in Subtasks : \A x \in InChannel(t)' : SubtaskOf[x] = t /\ ReadBy(next', x)
  BY <1>1, <1>2 DEF Kinds
<1>. QED  BY <1>3 DEF Carried

\* Windows, of the job and of the checkpoint, keep to events that are read.
LEMMA HoldsStep ==
    ASSUME TypeOK, \A t \in Subtasks : Carried(t), Kinds,
           HoldsRead(next, open), HoldsRead(checkpoint.next, checkpoint.open)
    PROVE  HoldsRead(next', open') /\ HoldsRead(checkpoint'.next, checkpoint'.open)
<1>0. \A k \in Windows : open[k] \subseteq EventIds /\ checkpoint.open[k] \subseteq EventIds
  BY DEF TypeOK
<1>1. ASSUME NEW id \in EventIds, Routing(id)
      PROVE  HoldsRead(next', open') /\ checkpoint' = checkpoint
  BY <1>0, <1>1 DEF Routing, HoldsRead
<1>2. ASSUME NEW s \in Subtasks, NEW id \in EventIds, Taking(s, id)
      PROVE  HoldsRead(next', open') /\ checkpoint' = checkpoint
  <2>1. ReadBy(next, id)
    BY <1>2 DEF Taking, Carried
  <2>2. \A k \in Windows : \A x \in open'[k] : x \in open[k] \/ (x = id /\ WindowOf(id) = k)
    BY <1>2 DEF Taking, TypeOK
  <2>. QED  BY <1>2, <2>1, <2>2 DEF Taking, HoldsRead
<1>3. ASSUME Moving PROVE HoldsRead(next', open') /\ checkpoint' = checkpoint
  <2>1. \A k \in Windows : open'[k] = open[k] \/ open'[k] = {}
    BY <1>3, MovedHolds DEF Moving
  <2>. QED  BY <1>3, <2>1 DEF Moving, HoldsRead
<1>4. ASSUME Saving
      PROVE  HoldsRead(next', open') /\ HoldsRead(checkpoint'.next, checkpoint'.open)
  <2>1. checkpoint'.next = next /\ checkpoint'.open = open /\ next' = next /\ open' = open
    BY <1>4 DEF Saving
  <2>. QED  BY <2>1
<1>5. ASSUME Restoring PROVE HoldsRead(next', open') /\ checkpoint' = checkpoint
  <2>1. next' = checkpoint.next /\ open' = checkpoint.open /\ checkpoint' = checkpoint
    BY <1>5 DEF Restoring
  <2>. QED  BY <2>1
<1>. QED  BY <1>1, <1>2, <1>3, <1>4, <1>5 DEF Kinds

\* An event on its way is not in its window yet.
LEMMA ApartStep ==
    ASSUME TypeOK, \A t \in Subtasks : Carried(t), Kinds, HoldsRead(next, open), Apart
    PROVE  Apart'
<1>. SUFFICES ASSUME NEW t \in Subtasks, NEW x \in InChannel(t)'
              PROVE  x \notin open'[WindowOf(x)]
  BY DEF Apart
<1>1. ASSUME NEW id \in EventIds, Routing(id) PROVE x \notin open'[WindowOf(x)]
  <2>1. WindowOf(id) \in Windows
    BY WindowFacts
  <2>2. id \notin open[WindowOf(id)]
    BY <1>1, <2>1 DEF Routing, HoldsRead
  <2>. QED  BY <1>1, <2>2 DEF Routing, ChannelsKeep, Apart
<1>2. ASSUME NEW s \in Subtasks, NEW id \in EventIds, Taking(s, id)
      PROVE  x \notin open'[WindowOf(x)]
  <2>1. x \in InChannel(t) /\ x # id
    BY <1>2 DEF Taking, Carried
  <2>2. x \notin open[WindowOf(x)] /\ x \in EventIds
    BY <2>1, ChannelIds DEF Apart
  <2>3. WindowOf(x) \in Windows
    BY <2>2, WindowFacts
  <2>4. open'[WindowOf(x)] \subseteq open[WindowOf(x)] \cup {id}
    BY <1>2, <2>3 DEF Taking, TypeOK
  <2>. QED  BY <2>1, <2>2, <2>4
<1>3. ASSUME Moving PROVE x \notin open'[WindowOf(x)]
  <2>1. x \in InChannel(t)
    BY <1>3 DEF Moving, ChannelsKeep
  <2>2. WindowOf(x) \in Windows
    BY <2>1, ChannelIds, WindowFacts
  <2>. QED  BY <1>3, <2>1, <2>2, MovedHolds DEF Moving, Apart
<1>4. ASSUME Saving \/ Restoring PROVE x \notin open'[WindowOf(x)]
  BY <1>4 DEF Saving, Restoring, ChannelsKeep
<1>. QED  BY <1>1, <1>2, <1>3, <1>4 DEF Kinds

\* What is read stays on its way, in its window or settled.
LEMMA KeptStep ==
    ASSUME TypeOK, \A t \in Subtasks : Carried(t), Kinds, Kept, SavedKept
    PROVE  Kept' /\ SavedKept'
<1>0. Settled \subseteq Settled'
  BY SettledGrows
<1>1. ASSUME NEW x \in EventIds, ReadBy(next', x)
      PROVE  x \in InChannel(SubtaskOf[x])' \/ x \in open'[WindowOf(x)] \/ x \in Settled'
  <2>0. SubtaskOf[x] \in Subtasks /\ WindowOf(x) \in Windows
    BY TopicAssumption, WindowFacts
  <2>. DEFINE Before == x \in InChannel(SubtaskOf[x]) \/ x \in open[WindowOf(x)]
  <2>1. ASSUME NEW id \in EventIds, Routing(id)
        PROVE  x \in InChannel(SubtaskOf[x])' \/ x \in open'[WindowOf(x)] \/ x \in Settled'
    <3>1. CASE x = id
      BY <2>0, <2>1, <3>1 DEF Routing, Settled
    <3>2. CASE x # id
      <4>1. Before \/ x \in Settled
        BY <1>1, <2>1, <3>2 DEF Routing, Kept
      <4>2. /\ InChannel(SubtaskOf[x]) \subseteq InChannel(SubtaskOf[x])'
            /\ open' = open
        BY <2>0, <2>1 DEF Routing, ChannelsKeep
      <4>. QED  BY <1>0, <4>1, <4>2
    <3>. QED  BY <3>1, <3>2
  <2>2. ASSUME NEW s \in Subtasks, NEW id \in EventIds, Taking(s, id)
        PROVE  x \in InChannel(SubtaskOf[x])' \/ x \in open'[WindowOf(x)] \/ x \in Settled'
    <3>1. Before \/ x \in Settled
      BY <1>1, <2>2 DEF Taking, Kept
    <3>2. CASE x = id
      BY <2>0, <2>2, <3>2 DEF Taking, TypeOK, Settled
    <3>3. CASE x # id
      <4>1. x \in InChannel(SubtaskOf[x]) => x \in InChannel(SubtaskOf[x])'
        BY <2>0, <2>2, <3>3 DEF Taking
      <4>2. x \in open[WindowOf(x)] => x \in open'[WindowOf(x)]
        BY <2>0, <2>2 DEF Taking, TypeOK
      <4>. QED  BY <1>0, <3>1, <4>1, <4>2
    <3>. QED  BY <3>2, <3>3
  <2>3. ASSUME Moving
        PROVE  x \in InChannel(SubtaskOf[x])' \/ x \in open'[WindowOf(x)] \/ x \in Settled'
    <3>1. Before \/ x \in Settled
      BY <1>1, <2>3 DEF Moving, Kept
    <3>2. x \in InChannel(SubtaskOf[x]) => x \in InChannel(SubtaskOf[x])'
      BY <2>0, <2>3 DEF Moving, ChannelsKeep
    <3>3. x \in open[WindowOf(x)] => x \in open'[WindowOf(x)] \/ x \in Settled'
      BY <2>0, <2>3, MovedHolds DEF Moving, Settled
    <3>. QED  BY <1>0, <3>1, <3>2, <3>3
  <2>4. ASSUME Saving
        PROVE  x \in InChannel(SubtaskOf[x])' \/ x \in open'[WindowOf(x)] \/ x \in Settled'
    BY <1>0, <1>1, <2>0, <2>4 DEF Saving, ChannelsKeep, Kept
  <2>5. ASSUME Restoring PROVE x \in open'[WindowOf(x)] \/ x \in Settled'
    BY <1>0, <1>1, <2>5 DEF Restoring, SavedKept
  <2>. QED  BY <2>1, <2>2, <2>3, <2>4, <2>5 DEF Kinds
<1>2. SavedKept'
  <2>1. CASE checkpoint' = checkpoint
    BY <1>0, <2>1 DEF SavedKept
  <2>2. CASE Saving
    <3>1. checkpoint'.next = next /\ checkpoint'.open = open
      BY <2>2 DEF Saving
    <3>2. \A x \in EventIds : x \notin InChannel(SubtaskOf[x])
      BY <2>2, TopicAssumption DEF Saving
    <3>. QED  BY <1>0, <3>1, <3>2 DEF SavedKept, Kept
  <2>. QED  BY <2>1, <2>2 DEF Kinds, Routing, Taking, Moving, Restoring
<1>. QED  BY <1>1, <1>2 DEF Kept

\* The watermark separates open windows from those with a row: it closes a window
\* and makes its row in one step, and opens none that it has passed.
LEMMA ClosedStep ==
    ASSUME TypeOK, Kinds, OpenAhead, RowsClosed
    PROVE  OpenAhead' /\ RowsClosed'
<1>1. CASE Restoring
  <2>1. restarts' # 0
    BY <1>1 DEF Restoring, TypeOK
  <2>. QED  BY <1>1, <2>1, NoTimeFacts DEF Restoring, OpenAhead, RowsClosed
<1>2. ASSUME NEW id \in EventIds, Routing(id) PROVE OpenAhead' /\ RowsClosed'
  BY <1>2 DEF Routing, OpenAhead, RowsClosed
<1>3. CASE Saving
  BY <1>3 DEF Saving, OpenAhead, RowsClosed
<1>4. ASSUME NEW s \in Subtasks, NEW id \in EventIds, Taking(s, id)
      PROVE  OpenAhead' /\ RowsClosed'
  <2>1. \A k \in Windows : open'[k] = open[k] \/ (k = WindowOf(id) /\ ~Closed(k, watermark))
    BY <1>4 DEF Taking, WindowLate, TypeOK
  <2>. QED  BY <1>4, <2>1 DEF Taking, OpenAhead, RowsClosed
<1>5. ASSUME Moving PROVE OpenAhead' /\ RowsClosed'
  <2>1. CASE Stay
    BY <1>5, <2>1 DEF Moving, Stay, OpenAhead, RowsClosed
  <2>2. ASSUME NEW time \in Int, time > watermark, Advance(time)
        PROVE  OpenAhead' /\ RowsClosed'
    <3>. DEFINE fires(k) == open[k] # {} /\ Closed(k, time)
    <3>1. /\ watermark' = time
          /\ \A k \in Windows : open'[k] = IF fires(k) THEN {} ELSE open[k]
          /\ \A k \in Windows : row'[k] = IF fires(k) THEN open[k] ELSE row[k]
      BY <2>2 DEF Advance, Upserted
    <3>2. OpenAhead'
      BY <3>1 DEF OpenAhead
    <3>3. ASSUME restarts' = 0, NEW k \in Windows, row'[k] # {} PROVE Closed(k, time)
      <4>1. CASE fires(k)
        BY <4>1
      <4>2. CASE ~fires(k)
        <5>1. Closed(k, watermark)
          BY <1>5, <3>1, <3>3, <4>2 DEF Moving, RowsClosed
        <5>2. watermark \in Int /\ watermark <= time
          BY <2>2 DEF TypeOK
        <5>. QED  BY <5>1, <5>2, ClosedGrows
      <4>. QED  BY <4>1, <4>2
    <3>. QED  BY <3>1, <3>2, <3>3 DEF RowsClosed
  <2>. QED  BY <1>5, <2>1, <2>2 DEF Moving, Moved
<1>. QED  BY <1>1, <1>2, <1>3, <1>4, <1>5 DEF Kinds

\* An event has one fate: late when it is routed, dropped when it is taken off its
\* channel, counted when its window closes.
LEMMA FatesStep ==
    ASSUME TypeOK, Kinds, \A t \in Subtasks : Carried(t), HoldsRead(next, open), Apart,
           SettledRead, FatesExclusive
    PROVE  SettledRead' /\ FatesExclusive'
<1>1. CASE restarts' # 0
  BY <1>1 DEF SettledRead, FatesExclusive
<1>2. CASE restarts' = 0
  <2>0. restarts = 0
    BY <1>2 DEF Kinds, Routing, Taking, Moving, Saving, Restoring, TypeOK
  <2>1. /\ late \cap dropped = {} /\ counted \cap (late \cup dropped) = {}
        /\ \A t \in Subtasks : InChannel(t) \cap (late \cup dropped \cup counted) = {}
        /\ \A k \in Windows : open[k] \cap (late \cup dropped \cup counted) = {}
        /\ \A x \in late \cup dropped \cup counted : ReadBy(next, x) /\ x \in EventIds
    BY <2>0 DEF FatesExclusive, SettledRead, Settled, TypeOK
  <2>2. ASSUME NEW id \in EventIds, Routing(id) PROVE SettledRead' /\ FatesExclusive'
    <3>1. /\ id \notin late \cup dropped \cup counted
          /\ \A k \in Windows : id \notin open[k]
          /\ \A t \in Subtasks : id \notin InChannel(t)
      BY <2>1, <2>2 DEF Routing, HoldsRead, Carried
    <3>2. /\ open' = open /\ dropped' = dropped /\ counted' = counted
          /\ late' \subseteq late \cup {id} /\ ReadBy(next', id)
          /\ \A x \in EventIds : ReadBy(next, x) => ReadBy(next', x)
      BY <2>2 DEF Routing
    <3>3. \/ late' = late
          \/ \A t \in Subtasks : InChannel(t)' = InChannel(t)
      BY <2>2 DEF Routing, ChannelsKeep
    <3>4. \A t \in Subtasks : InChannel(t)' \subseteq InChannel(t) \cup {id}
      BY <2>2 DEF Routing, ChannelsKeep
    <3>5. SettledRead'
      BY <2>1, <3>2 DEF SettledRead, Settled
    <3>6. /\ late' \cap dropped' = {} /\ counted' \cap (late' \cup dropped') = {}
          /\ \A k \in Windows : open'[k] \cap (late' \cup dropped' \cup counted') = {}
      BY <2>1, <3>1, <3>2
    <3>7. \A t \in Subtasks : InChannel(t)' \cap (late' \cup dropped' \cup counted') = {}
      <4>1. CASE late' = late
        BY <2>1, <3>1, <3>2, <3>4, <4>1
      <4>2. CASE \A t \in Subtasks : InChannel(t)' = InChannel(t)
        BY <2>1, <3>1, <3>2, <4>2
      <4>. QED  BY <3>3, <4>1, <4>2
    <3>. QED  BY <3>5, <3>6, <3>7 DEF FatesExclusive
  <2>3. ASSUME NEW s \in Subtasks, NEW id \in EventIds, Taking(s, id)
        PROVE  SettledRead' /\ FatesExclusive'
    <3>1. /\ id \in InChannel(s) /\ ReadBy(next, id) /\ id \notin open[WindowOf(id)]
          /\ id \notin late \cup dropped \cup counted
      BY <2>1, <2>3 DEF Taking, Carried, Apart
    <3>2. \A k \in Windows : id \notin open[k]
      BY <3>1 DEF HoldsRead
    <3>3. \A t \in Subtasks : InChannel(t)' \subseteq InChannel(t) /\ id \notin InChannel(t)'
      BY <2>3, <3>1 DEF Taking, Carried
    <3>4. next' = next /\ late' = late /\ counted' = counted
      BY <2>3 DEF Taking
    <3>5. \/ dropped' = dropped \cup {id} /\ open' = open
          \/ dropped' = dropped /\ \A k \in Windows : open'[k] \subseteq open[k] \cup {id}
      BY <2>3 DEF Taking, TypeOK
    <3>6. SettledRead'
      BY <2>1, <3>1, <3>4, <3>5 DEF SettledRead, Settled
    <3>7. /\ late' \cap dropped' = {} /\ counted' \cap (late' \cup dropped') = {}
          /\ \A t \in Subtasks : InChannel(t)' \cap (late' \cup dropped' \cup counted') = {}
      BY <2>1, <3>1, <3>3, <3>4, <3>5
    <3>8. \A k \in Windows : open'[k] \cap (late' \cup dropped' \cup counted') = {}
      BY <2>1, <3>1, <3>2, <3>4, <3>5
    <3>. QED  BY <3>6, <3>7, <3>8 DEF FatesExclusive
  <2>4. ASSUME Moving PROVE SettledRead' /\ FatesExclusive'
    <3>1. next' = next /\ late' = late /\ dropped' = dropped /\ ChannelsKeep /\ Moved
      BY <2>4 DEF Moving
    <3>2. /\ \A k \in Windows : open'[k] = open[k] \/ open'[k] = {}
          /\ \A x \in counted' :
                x \in counted \/ \E k \in Windows : x \in open[k] /\ open'[k] = {}
      BY <3>1, MovedHolds
    <3>3. ASSUME NEW x \in counted', x \notin counted
          PROVE  /\ ReadBy(next, x) /\ x \notin late \cup dropped
                 /\ \A t \in Subtasks : x \notin InChannel(t)
                 /\ \A k \in Windows : x \notin open'[k]
      <4>1. PICK k \in Windows : x \in open[k] /\ open'[k] = {}
        BY <3>2, <3>3
      <4>2. WindowOf(x) = k /\ ReadBy(next, x)
        BY <4>1 DEF HoldsRead
      <4>3. \A j \in Windows : x \in open'[j] => j = k
        BY <3>2, <4>2 DEF HoldsRead
      <4>. QED  BY <2>1, <4>1, <4>2, <4>3 DEF Apart
    <3>4. SettledRead'
      BY <2>1, <3>1, <3>3 DEF SettledRead, Settled
    <3>5. /\ late' \cap dropped' = {} /\ counted' \cap (late' \cup dropped') = {}
      BY <2>1, <3>1, <3>3
    <3>6. \A t \in Subtasks : InChannel(t)' \cap (late' \cup dropped' \cup counted') = {}
      BY <2>1, <3>1, <3>3 DEF ChannelsKeep
    <3>7. \A k \in Windows : open'[k] \cap (late' \cup dropped' \cup counted') = {}
      BY <2>1, <3>1, <3>2, <3>3
    <3>. QED  BY <3>4, <3>5, <3>6, <3>7 DEF FatesExclusive
  <2>5. ASSUME Saving PROVE SettledRead' /\ FatesExclusive'
    <3>1. /\ UNCHANGED <<next, open, late, dropped, counted, restarts>>
          /\ \A t \in Subtasks : InChannel(t)' = InChannel(t)
      BY <2>5 DEF Saving, ChannelsKeep
    <3>. QED  BY <3>1 DEF SettledRead, Settled, FatesExclusive
  <2>6. ~Restoring
    BY <1>2, <2>0 DEF Restoring
  <2>. QED  BY <2>2, <2>3, <2>4, <2>5, <2>6 DEF Kinds
<1>. QED  BY <1>1, <1>2

\* A higher bound holds for the same watermarks.
LEMMA WithinMore ==
    ASSUME NEW q \in Seq(Elements), NEW a \in Int, NEW b \in Int, a <= b, Within(q, a)
    PROVE  Within(q, b)
<1>1. \A i \in DOMAIN q : q[i].type = "watermark" => q[i].time \in Int
  <2>1. \A i \in DOMAIN q : q[i] \in Elements
    OBVIOUS
  <2>. QED  BY <2>1 DEF Elements
<1>. QED  BY <1>1 DEF Within

\* A subtask whose largest time, watermarks and channel stay keeps what it earned.
LEMMA EarnedKeeps ==
    ASSUME NEW s \in Subtasks, Earned(s),
           maxTime'[s] = maxTime[s], emitted'[s] = emitted[s], inWm'[s] = inWm[s],
           \A p \in Partitions : Processed(p, s) \subseteq Processed(p, s)',
           Within(channel'[s], emitted[s])
    PROVE  Earned(s)'
<1>1. maxTime'[s] # NoTime =>
        \E p \in Partitions : \E i \in Processed(p, s)' : EventTime[Topic[p][i]] = maxTime'[s]
  BY DEF Earned
<1>2. BoundedWatermark(s)' = BoundedWatermark(s)
  BY DEF BoundedWatermark
<1>. QED  BY <1>1, <1>2 DEF Earned

\* Each step derives its watermarks from earlier ones, in the end from the times of
\* the events processed.
LEMMA EarnedStep ==
    ASSUME TypeOK, \A t \in Subtasks : Earned(t), [Next]_vars, NEW t \in Subtasks
    PROVE  Earned(t)'
<1>0. /\ channel \in [Subtasks -> Seq(Elements)] /\ channel[t] \in Seq(Elements)
      /\ maxTime \in [Subtasks -> Int] /\ emitted \in [Subtasks -> Int]
      /\ inWm \in [Subtasks -> Int] /\ OutOfOrderness \in Nat
      /\ maxTime[t] \in Int /\ emitted[t] \in Int /\ inWm[t] \in Int
  BY TimeAssumption DEF TypeOK
<1>a. Earned(t)
  OBVIOUS
<1>w. Within(channel[t], emitted[t])
  BY DEF Earned
<1>1. ASSUME NEW p \in Partitions, NEW s \in Subtasks, Route(p, s) PROVE Earned(t)'
  <2>1. PICK i \in DOMAIN Topic[p] :
          /\ Topic[p][i] \in EventIds /\ SubtaskOf[Topic[p][i]] = s
          /\ i \in Nat /\ i > next[p][s]
          /\ next' = [next EXCEPT ![p][s] = i]
          /\ maxTime' = [maxTime EXCEPT ![s] = Later(EventTime[Topic[p][i]], s)]
          /\ \/ UNCHANGED channel
             \/ channel' = [channel EXCEPT ![s] =
                               Append(@, [type |-> "event", id |-> Topic[p][i]])]
    BY <1>1, Routed
  <2>2. emitted' = emitted /\ inWm' = inWm
    BY <1>1 DEF Route, inVars
  <2>3. Within(channel'[t], emitted[t])
    <3>. DEFINE e == [type |-> "event", id |-> Topic[p][i]]
    <3>1. e \in Elements /\ e.type # "watermark"
      BY <2>1, ElementTypes
    <3>2. channel' = channel \/ channel' = [channel EXCEPT ![s] = Append(@, e)]
      BY <2>1
    <3>. HIDE DEF e
    <3>3. channel'[t] = channel[t] \/ channel'[t] = Append(channel[t], e)
      BY <1>0, <3>2
    <3>. QED  BY <1>0, <1>w, <3>1, <3>3, AppendElement
  <2>4. \A q \in Partitions : Processed(q, t) \subseteq Processed(q, t)'
    <3>1. next \in [Partitions -> [Subtasks -> Nat]]
      BY DEF TypeOK, Positions
    <3>2. \A q \in Partitions : next[q][t] \in Nat /\ next'[q][t] \in Nat /\ next[q][t] <= next'[q][t]
      BY <2>1, <3>1
    <3>3. \A q \in Partitions : \A j \in Stream(q, t) : j \in Nat
      BY TopicAssumption DEF Stream
    <3>. QED  BY <3>2, <3>3 DEF Processed, Stream
  <2>5. CASE maxTime'[t] = maxTime[t]
    BY <2>2, <2>3, <2>4, <2>5, EarnedKeeps
  <2>6. CASE maxTime'[t] # maxTime[t]
    <3>1. t = s /\ maxTime'[t] = EventTime[Topic[p][i]] /\ maxTime'[t] > maxTime[t]
      BY <1>0, <2>1, <2>6 DEF Later
    <3>2. maxTime'[t] \in Nat /\ maxTime'[t] # NoTime
      BY <2>1, <3>1, TimeAssumption, NoTimeFacts
    <3>3. i \in Processed(p, t)'
      <4>1. next'[p][t] = i
        BY <2>1, <3>1 DEF TypeOK, Positions
      <4>. QED  BY <2>1, <3>1, <4>1 DEF Processed, Stream
    <3>4. emitted'[t] # NoTime => emitted'[t] <= BoundedWatermark(t)'
      BY <1>0, <1>a, <2>2, <3>1, <3>2 DEF Earned, BoundedWatermark
    <3>5. inWm'[t] <= emitted'[t] /\ Within(channel'[t], emitted'[t])
      BY <1>a, <2>2, <2>3 DEF Earned
    <3>. QED  BY <3>1, <3>2, <3>3, <3>4, <3>5 DEF Earned
  <2>. QED  BY <2>5, <2>6
<1>2. ASSUME NEW s \in Subtasks, EmitWatermark(s) PROVE Earned(t)'
  <2>. DEFINE time == BoundedWatermark(s)
  <2>1. /\ maxTime[s] # NoTime /\ time > emitted[s] /\ time \in Int
        /\ emitted' = [emitted EXCEPT ![s] = time]
        /\ UNCHANGED <<next, maxTime, inWm>>
    BY <1>0, <1>2 DEF EmitWatermark, BoundedWatermark, inVars
  <2>2. ASSUME s # t PROVE Earned(t)'
    <3>1. channel'[t] = channel[t] /\ emitted'[t] = emitted[t]
      BY <1>0, <1>2, <2>1, <2>2 DEF EmitWatermark
    <3>2. \A q \in Partitions : Processed(q, t)' = Processed(q, t)
      BY <2>1 DEF Processed, Stream
    <3>. QED  BY <1>w, <2>1, <3>1, <3>2, EarnedKeeps
  <2>3. ASSUME s = t PROVE Earned(t)'
    <3>. DEFINE act == [type |-> "active"]
    <3>. DEFINE mark == [type |-> "watermark", time |-> time]
    <3>1. /\ act \in Elements /\ mark \in Elements
          /\ act.type # "watermark" /\ mark.time = time
      BY <2>1, ElementTypes
    <3>2. Within(channel[t], time)
      BY <1>0, <1>w, <2>1, <2>3, WithinMore
    <3>3. channel'[t] = Append(Append(channel[t], act), mark) \/ channel'[t] = Append(channel[t], mark)
      <4>1. idle[s] \in BOOLEAN /\ channel[s] \in Seq(Elements)
        BY <1>0 DEF TypeOK
      <4>2. channel' = [channel EXCEPT ![s] =
                IF idle[s] THEN Append(Append(@, act), mark) ELSE Append(@, mark)]
        BY <1>2, <2>1, <4>1, Emitted DEF EmitWatermark
      <4>. HIDE DEF act, mark
      <4>. QED  BY <1>0, <2>3, <4>2
    <3>. HIDE DEF act, mark
    <3>. DEFINE q == Append(channel[t], act)
    <3>4. q \in Seq(Elements) /\ Within(q, time)
      <4>1. q \in Seq(Elements)
        BY <1>0, <3>1
      <4>. QED  BY <1>0, <3>1, <3>2, <4>1, AppendElement
    <3>5. channel'[t] = Append(q, mark) \/ channel'[t] = Append(channel[t], mark)
      BY <3>3
    <3>. HIDE DEF q
    <3>6. time <= time
      BY <2>1
    <3>7. Within(Append(q, mark), time) /\ Within(Append(channel[t], mark), time)
      BY <1>0, <3>1, <3>2, <3>4, <3>6, AppendElement
    <3>8. emitted'[t] = time /\ BoundedWatermark(t)' = time
      BY <1>0, <2>1, <2>3 DEF BoundedWatermark
    <3>9. inWm'[t] <= time
      BY <1>0, <1>a, <2>1, <2>3 DEF Earned
    <3>10. \A p \in Partitions : Processed(p, t)' = Processed(p, t)
      BY <2>1 DEF Processed, Stream
    <3>11. Within(channel'[t], time)
      BY <3>5, <3>7
    <3>. QED  BY <1>a, <2>1, <2>3, <3>6, <3>8, <3>9, <3>10, <3>11 DEF Earned
  <2>. QED  BY <2>2, <2>3
<1>3. ASSUME NEW s \in Subtasks, MarkIdle(s) PROVE Earned(t)'
  <2>. DEFINE e == [type |-> "idle"]
  <2>1. e \in Elements /\ e.type # "watermark"
    BY ElementTypes
  <2>2. channel' = [channel EXCEPT ![s] = Append(@, e)]
    BY <1>3 DEF MarkIdle
  <2>. HIDE DEF e
  <2>3. channel'[t] = channel[t] \/ channel'[t] = Append(channel[t], e)
    BY <1>0, <2>2
  <2>4. Within(channel'[t], emitted[t])
    BY <1>0, <1>w, <2>1, <2>3, AppendElement
  <2>5. UNCHANGED <<next, maxTime, emitted, inWm>>
    BY <1>3 DEF MarkIdle, inVars
  <2>6. \A p \in Partitions : Processed(p, t)' = Processed(p, t)
    BY <2>5 DEF Processed, Stream
  <2>. QED  BY <2>4, <2>5, <2>6, EarnedKeeps
<1>4. ASSUME NEW s \in Subtasks, Receive(s) PROVE Earned(t)'
  <2>1. /\ channel[s] \in Seq(Elements) /\ channel[s] # <<>>
        /\ channel' = [channel EXCEPT ![s] = Tail(@)]
        /\ UNCHANGED <<next, maxTime, emitted>>
        /\ \/ \E id \in EventIds : ReceiveEvent(s, id)
           \/ inWm' = inWm
           \/ \E time \in Int : /\ Head(channel[s]).type = "watermark"
                                /\ time = Head(channel[s]).time
                                /\ inWm' = [inWm EXCEPT ![s] = time]
    BY <1>4, Received
  <2>2. Within(channel'[t], emitted[t])
    <3>1. channel'[t] = channel[t] \/ (s = t /\ channel'[t] = Tail(channel[t]))
      BY <1>0, <2>1
    <3>. QED  BY <1>0, <1>w, <2>1, <3>1, TakeElement
  <2>3. \A p \in Partitions : Processed(p, t)' = Processed(p, t)
    BY <2>1 DEF Processed, Stream
  <2>4. CASE inWm'[t] = inWm[t]
    BY <2>1, <2>2, <2>3, <2>4, EarnedKeeps
  <2>5. CASE inWm'[t] # inWm[t]
    <3>1. /\ s = t /\ inWm'[t] = Head(channel[t]).time
          /\ Head(channel[t]).type = "watermark"
      BY <1>0, <2>1, <2>5 DEF ReceiveEvent, inVars
    <3>2. Head(channel[t]).time <= emitted[t]
      BY <1>0, <1>w, <2>1, <3>1, TakeElement
    <3>3. BoundedWatermark(t)' = BoundedWatermark(t)
      BY <2>1 DEF BoundedWatermark
    <3>. QED  BY <1>a, <2>1, <2>2, <2>3, <3>1, <3>2, <3>3 DEF Earned
  <2>. QED  BY <2>4, <2>5
<1>5. CASE TakeCheckpoint \/ UNCHANGED vars
  <2>1. UNCHANGED <<next, maxTime, emitted, inWm, channel>>
    BY <1>5 DEF TakeCheckpoint, vars, inVars
  <2>2. \A p \in Partitions : Processed(p, t)' = Processed(p, t)
    BY <2>1 DEF Processed, Stream
  <2>. QED  BY <1>w, <2>1, <2>2, EarnedKeeps
<1>6. CASE Restart
  <2>1. Within(<<>>, NoTime)
    BY DEF Within
  <2>2. /\ maxTime'[t] = NoTime /\ emitted'[t] = NoTime /\ inWm'[t] = NoTime
        /\ channel'[t] = <<>>
    BY <1>6 DEF Restart
  <2>3. NoTime <= NoTime
    BY NoTimeFacts
  <2>. QED  BY <2>1, <2>2, <2>3 DEF Earned
<1>. QED  BY <1>1, <1>2, <1>3, <1>4, <1>5, <1>6 DEF Next

\* The operator's watermark is never ahead of every channel.
LEMMA ReachedStep ==
    ASSUME TypeOK, Reached, [Next]_vars
    PROVE  Reached'
<1>0. inWm \in [Subtasks -> Int] /\ watermark \in Int
  BY DEF TypeOK
<1>1. ASSUME UNCHANGED <<watermark, inWm>> PROVE Reached'
  BY <1>1 DEF Reached
<1>2. ASSUME NEW s \in Subtasks, Receive(s) PROVE Reached'
  <2>1. \/ \E id \in EventIds : ReceiveEvent(s, id)
        \/ /\ Moved
           /\ \/ inWm' = inWm
              \/ \E time \in Int : time > inWm[s] /\ inWm' = [inWm EXCEPT ![s] = time]
    BY <1>2, Received
  <2>2. CASE \E id \in EventIds : ReceiveEvent(s, id)
    BY <1>1, <2>2 DEF ReceiveEvent, inVars
  <2>3. CASE /\ Moved
             /\ \/ inWm' = inWm
                \/ \E time \in Int : time > inWm[s] /\ inWm' = [inWm EXCEPT ![s] = time]
    <3>1. \A t \in Subtasks : inWm[t] <= inWm'[t] /\ inWm'[t] \in Int
      BY <1>0, <2>3
    <3>2. CASE Stay
      BY <1>0, <3>1, <3>2 DEF Stay, Reached
    <3>3. CASE \E time \in Int : Advance(time) /\ \E t \in Subtasks : time <= inWm'[t]
      BY <3>3 DEF Advance, Reached
    <3>. QED  BY <2>3, <3>2, <3>3 DEF Moved
  <2>. QED  BY <2>1, <2>2, <2>3
<1>3. CASE \/ \E p \in Partitions, s \in Subtasks : Route(p, s)
           \/ \E s \in Subtasks : EmitWatermark(s) \/ MarkIdle(s)
           \/ TakeCheckpoint \/ UNCHANGED vars
  BY <1>1, <1>3 DEF Route, EmitWatermark, MarkIdle, TakeCheckpoint, vars, inVars
<1>4. CASE Restart
  BY <1>4 DEF Restart, Reached
<1>. QED  BY <1>2, <1>3, <1>4 DEF Next

\* Initially nothing is read and nothing is held.
LEMMA InvInit == Init => IInv
<1>. SUFFICES ASSUME Init PROVE IInv
  OBVIOUS
<1>1. TypeOK
  BY TypeInit
<1>2. /\ \A p \in Partitions, s \in Subtasks : next[p][s] = 0
      /\ \A k \in Windows : open[k] = {} /\ row[k] = {}
      /\ \A s \in Subtasks : channel[s] = <<>>
      /\ next = FromEarliest.next /\ open = NothingOpen /\ checkpoint = FromEarliest
      /\ late = {} /\ dropped = {} /\ counted = {}
      /\ checkpoint.next = next /\ checkpoint.open = open
  BY DEF Init, FromEarliest, NothingOpen
<1>3. \A id \in EventIds : ~ReadBy(next, id)
  <2>1. ASSUME NEW id \in EventIds, NEW p \in Partitions, NEW i \in DOMAIN Topic[p]
        PROVE  ~(i <= next[p][SubtaskOf[id]])
    <3>1. i \in Nat /\ i >= 1 /\ SubtaskOf[id] \in Subtasks
      BY <2>1, TopicAssumption
    <3>. QED  BY <1>2, <3>1
  <2>. QED  BY <2>1 DEF ReadBy
<1>4. \A s \in Subtasks : InChannel(s) = {} /\ Once(channel[s]) /\ \A t : Within(channel[s], t)
  BY <1>2 DEF InChannel, EventsIn, Once, EventsAt, Within
<1>5. \A s \in Subtasks : Carried(s)
  BY <1>4 DEF Carried
<1>6. \A s \in Subtasks : Earned(s)
  <2>1. NoTime <= NoTime
    BY NoTimeFacts
  <2>2. \A s \in Subtasks : maxTime[s] = NoTime /\ emitted[s] = NoTime /\ inWm[s] = NoTime
    BY DEF Init
  <2>. QED  BY <1>4, <2>1, <2>2 DEF Earned
<1>7. HoldsRead(next, open) /\ HoldsRead(checkpoint.next, checkpoint.open)
  BY <1>2 DEF HoldsRead
<1>8. Apart /\ Kept /\ SavedKept
  BY <1>2, <1>3, <1>4 DEF Apart, Kept, SavedKept
<1>9. OpenAhead /\ RowsClosed /\ SettledRead /\ FatesExclusive
  BY <1>2, <1>4 DEF OpenAhead, RowsClosed, SettledRead, Settled, FatesExclusive
<1>10. Reached
  BY DEF Init, Reached
<1>. QED  BY <1>1, <1>5, <1>6, <1>7, <1>8, <1>9, <1>10 DEF IInv

\* Every step keeps the invariant.
LEMMA InvStep == IInv /\ [Next]_vars => IInv'
<1>. SUFFICES ASSUME IInv, [Next]_vars PROVE IInv'
  OBVIOUS
<1>1. /\ TypeOK /\ \A t \in Subtasks : Carried(t) /\ Once(channel[t])
      /\ \A t \in Subtasks : Earned(t)
      /\ HoldsRead(next, open) /\ HoldsRead(checkpoint.next, checkpoint.open)
      /\ Apart /\ Kept /\ SavedKept /\ OpenAhead /\ RowsClosed /\ SettledRead
      /\ FatesExclusive /\ Reached
  BY DEF IInv, Carried
<1>2. Kinds
  BY <1>1, StepKinds
<1>3. TypeOK'
  BY <1>1, TypeStep
<1>4. \A t \in Subtasks : Carried(t)'
  BY <1>1, <1>2, OnceStep, CarriedStep
<1>5. \A t \in Subtasks : Earned(t)'
  BY <1>1, EarnedStep
<1>6. HoldsRead(next', open') /\ HoldsRead(checkpoint'.next, checkpoint'.open)
  BY <1>1, <1>2, HoldsStep
<1>7. Apart'
  BY <1>1, <1>2, ApartStep
<1>8. Kept' /\ SavedKept'
  BY <1>1, <1>2, KeptStep
<1>9. OpenAhead' /\ RowsClosed'
  BY <1>1, <1>2, ClosedStep
<1>10. SettledRead' /\ FatesExclusive'
  BY <1>1, <1>2, FatesStep
<1>11. Reached'
  BY <1>1, ReachedStep
<1>. QED
  BY <1>3, <1>4, <1>5, <1>6, <1>7, <1>8, <1>9, <1>10, <1>11 DEF IInv

\* The inductive invariant holds in every reachable state.
THEOREM Invariance == Spec => []IInv
  BY InvInit, InvStep, PTL DEF Spec

-----------------------------------------------------------------------------
(* What follows for the events, the drops and the rows *)

\* A record a subtask has processed is read.
LEMMA ProcessedIsRead ==
    ASSUME TypeOK, NEW p \in Partitions, NEW s \in Subtasks, NEW i \in Processed(p, s)
    PROVE  /\ Topic[p][i] \in EventIds /\ SubtaskOf[Topic[p][i]] = s
           /\ ReadBy(next, Topic[p][i])
<1>1. i \in DOMAIN Topic[p] /\ SubtaskOf[Topic[p][i]] = s /\ i <= next[p][s]
  BY DEF Processed, Stream
<1>. QED  BY <1>1, TopicAssumption DEF ReadBy

\* Between dedup and the aggregate rows no event disappears, whatever crashes,
\* checkpoints and restarts come in between.
THEOREM NothingDisappears == Spec => []EventsConserved
<1>1. IInv => EventsConserved
  BY ProcessedIsRead DEF IInv, EventsConserved, Kept, Settled
<1>. QED  BY <1>1, Invariance, PTL

\* No replay counts an event twice into one window: what is still to be read or
\* on its way is in no open window.
THEOREM NothingCountedTwice == Spec => []NoDoubleCount
<1>1. IInv => NoDoubleCount
  <2>. SUFFICES ASSUME IInv, NEW p \in Partitions, NEW s \in Subtasks
                PROVE  /\ \A i \in Unread(p, s) :
                              Topic[p][i] \notin open[WindowOf(Topic[p][i])]
                       /\ \A id \in InChannel(s) : id \notin open[WindowOf(id)]
    BY DEF NoDoubleCount
  <2>1. ASSUME NEW i \in Unread(p, s), Topic[p][i] \in open[WindowOf(Topic[p][i])]
        PROVE  FALSE
    <3>1. i \in DOMAIN Topic[p] /\ SubtaskOf[Topic[p][i]] = s /\ i > next[p][s]
      BY DEF Unread, Stream
    <3>2. ~ReadBy(next, Topic[p][i])
      BY <3>1, UnreadIsNew DEF IInv
    <3>3. WindowOf(Topic[p][i]) \in Windows
      BY <3>1, TopicAssumption, WindowFacts
    <3>. QED  BY <2>1, <3>2, <3>3 DEF IInv, HoldsRead
  <2>. QED  BY <2>1 DEF IInv, Apart
<1>. QED  BY <1>1, Invariance, PTL

\* Until a restart every event has one fate only.
THEOREM OneFate == Spec => []FatesExclusive
<1>1. IInv => FatesExclusive
  BY DEF IInv
<1>. QED  BY <1>1, Invariance, PTL

\* A window that the watermark has passed was passed by an event: some subtask has
\* processed one at least the out-of-orderness bound beyond the window's end.
LEMMA PassedByAnEvent ==
    ASSUME IInv, NEW k \in Windows, Closed(k, watermark)
    PROVE  \E p \in Partitions, s \in Subtasks : \E i \in Processed(p, s) :
              EventTime[Topic[p][i]] >= EndOf(k) + OutOfOrderness
<1>0. /\ TypeOK /\ Reached /\ \A t \in Subtasks : Earned(t)
      /\ EndOf(k) \in Int /\ EndOf(k) > 0 /\ OutOfOrderness \in Nat
      /\ NoTime \in Int /\ NoTime < 0
  BY WindowFacts, NoTimeFacts, TimeAssumption DEF IInv
<1>1. watermark \in Int /\ EndOf(k) - 1 <= watermark
  BY <1>0 DEF Closed, TypeOK
<1>2. PICK s \in Subtasks : watermark <= inWm[s]
  BY <1>0, <1>1 DEF Reached
<1>3. /\ inWm[s] <= emitted[s] /\ inWm[s] \in Int /\ emitted[s] \in Int
      /\ maxTime[s] \in Int
  BY <1>0 DEF Earned, TypeOK
<1>4. emitted[s] # NoTime
  BY <1>0, <1>1, <1>2, <1>3
<1>5. maxTime[s] # NoTime /\ emitted[s] <= maxTime[s] - OutOfOrderness - 1
  BY <1>0, <1>4 DEF Earned, BoundedWatermark
<1>6. PICK p \in Partitions : \E i \in Processed(p, s) : EventTime[Topic[p][i]] = maxTime[s]
  BY <1>0, <1>5 DEF Earned
<1>7. maxTime[s] >= EndOf(k) + OutOfOrderness
  BY <1>0, <1>1, <1>2, <1>3, <1>5
<1>. QED  BY <1>6, <1>7

\* No event is dropped on ordering jitter.
THEOREM NoDropOnJitter == Spec => DropsAreJustified
<1>1. IInv /\ [Next]_vars =>
        \A id \in dropped' \ dropped :
            \E p \in Partitions, s \in Subtasks : \E i \in Processed(p, s) :
                EventTime[Topic[p][i]] >= EndOf(WindowOf(id)) + OutOfOrderness
  <2>. SUFFICES ASSUME IInv, [Next]_vars, NEW id \in dropped' \ dropped
                PROVE  \E p \in Partitions, s \in Subtasks : \E i \in Processed(p, s) :
                          EventTime[Topic[p][i]] >= EndOf(WindowOf(id)) + OutOfOrderness
    OBVIOUS
  <2>1. Kinds
    BY StepKinds DEF IInv, Carried
  <2>2. PICK s \in Subtasks, x \in EventIds : Taking(s, x)
    BY <2>1 DEF Kinds, Routing, Moving, Saving, Restoring
  <2>3. x = id /\ Closed(WindowOf(id), watermark)
    BY <2>2 DEF Taking, WindowLate
  <2>4. WindowOf(id) \in Windows
    BY <2>3, WindowFacts
  <2>. QED  BY <2>3, <2>4, PassedByAnEvent
<1>. QED  BY <1>1, Invariance, PTL DEF Spec, DropsAreJustified

-----------------------------------------------------------------------------
(* The job implements AggregateLedger *)

\* What a row holds has been counted.
RowsCounted == \A k \in Windows : row[k] \subseteq counted

\* Rows are made of windows that fire, which are counted then.
LEMMA RowsCountedStep ==
    ASSUME TypeOK, Kinds, RowsCounted
    PROVE  RowsCounted'
<1>1. ASSUME NEW time \in Int, Advance(time) PROVE RowsCounted'
  <2>. DEFINE fired == {k \in Windows : open[k] # {} /\ Closed(k, time)}
  <2>1. /\ \A k \in Windows : row'[k] = IF k \in fired THEN open[k] ELSE row[k]
        /\ counted' = counted \cup UNION {open[k] : k \in fired}
    BY <1>1 DEF Advance, Upserted
  <2>. HIDE DEF fired
  <2>. QED  BY <2>1 DEF RowsCounted
<1>2. CASE UNCHANGED <<row, counted>>
  BY <1>2 DEF RowsCounted
<1>. QED  BY <1>1, <1>2 DEF Kinds, Routing, Taking, Moving, Moved, Stay, Saving, Restoring

\* The first state of the job is one of the promise.
LEMMA PromiseInit == Init => Promise!Init /\ RowsCounted
<1>. SUFFICES ASSUME Init PROVE Promise!Init /\ RowsCounted
  OBVIOUS
<1>1. row = [k \in Windows |-> {}] /\ late = {} /\ dropped = {} /\ restarts = 0
  BY DEF Init, NothingOpen
<1>2. (restarts > 0) = FALSE
  BY <1>1
<1>. QED  BY <1>1, <1>2 DEF Promise!Init, RowsCounted

\* An event that is still on its way is undecided.
LEMMA OnItsWay ==
    ASSUME IInv, RowsCounted, NEW id \in EventIds,
           ~ReadBy(next, id) \/ \E s \in Subtasks : id \in InChannel(s)
    PROVE  Promise!Undecided(id)
<1>. SUFFICES ASSUME ~(restarts > 0) PROVE id \notin late \cup dropped \cup counted
  BY DEF Promise!Undecided, Promise!Aggregated, RowsCounted
<1>1. restarts = 0
  BY DEF IInv, TypeOK
<1>2. ReadBy(next, id) \/ id \notin Settled
  BY <1>1 DEF IInv, SettledRead
<1>3. \A s \in Subtasks : InChannel(s) \cap (late \cup dropped \cup counted) = {}
  BY <1>1 DEF IInv, FatesExclusive
<1>. QED  BY <1>2, <1>3 DEF Settled

\* What fires is a window's own, open until now and so without a row.
LEMMA FiringWrites ==
    ASSUME IInv, NEW time \in Int, Advance(time), UNCHANGED <<late, dropped, restarts>>
    PROVE  Promise!Fire
<1>. DEFINE Home == [id \in EventIds |-> WindowOf(id)]
<1>1. /\ row \in [Windows -> SUBSET EventIds] /\ open \in [Windows -> SUBSET EventIds]
      /\ restarts \in Nat
  BY TimeAssumption DEF IInv, TypeOK
<1>2. /\ row' = [k \in Windows |-> row'[k]]
      /\ \A k \in Windows : row'[k] = row[k] \/ (row'[k] = open[k] /\ open[k] # {})
  BY DEF Advance, Upserted
<1>3. row' \in [Windows -> SUBSET EventIds]
  BY <1>1, <1>2
<1>4. ASSUME NEW k \in Windows, row'[k] # row[k] PROVE Promise!Writable(k, row'[k])
  <2>1. row'[k] = open[k] /\ open[k] # {} /\ open[k] \subseteq EventIds
    BY <1>1, <1>2, <1>4
  <2>2. \A id \in open[k] : WindowOf(id) = k
    BY DEF IInv, HoldsRead
  <2>3. \A id \in open[k] : Home[id] = k
    BY <2>1, <2>2
  <2>4. ASSUME ~(restarts > 0)
        PROVE  row[k] = {} /\ open[k] \cap (late \cup dropped) = {}
    <3>1. restarts = 0
      BY <1>1, <2>4
    <3>2. row[k] = {}
      BY <2>1, <3>1 DEF IInv, OpenAhead, RowsClosed
    <3>3. open[k] \cap (late \cup dropped \cup counted) = {}
      BY <3>1 DEF IInv, FatesExclusive
    <3>. QED  BY <3>2, <3>3
  <2>. QED  BY <2>1, <2>3, <2>4 DEF Promise!Writable
<1>5. (restarts > 0)' = (restarts > 0)
  OBVIOUS
<1>. QED  BY <1>3, <1>4, <1>5 DEF Promise!Fire

\* Every step of the job is one of the promise, or invisible there.
LEMMA PromiseStep ==
    ASSUME IInv, RowsCounted, [Next]_vars
    PROVE  RowsCounted' /\ [Promise!Next]_(Promise!vars)
<1>1. TypeOK /\ Kinds
  BY StepKinds DEF IInv, Carried
<1>2. RowsCounted'
  BY <1>1, RowsCountedStep
<1>3. ASSUME UNCHANGED <<row, late, dropped, restarts>> PROVE UNCHANGED Promise!vars
  BY <1>3 DEF Promise!vars
<1>4. ASSUME NEW id \in EventIds, Routing(id) PROVE [Promise!Next]_(Promise!vars)
  <2>1. CASE late' = late
    BY <1>3, <1>4, <2>1 DEF Routing
  <2>2. CASE late' = late \cup {id}
    <3>1. Promise!Undecided(id)
      BY <1>4, OnItsWay DEF Routing
    <3>2. Promise!Divert(id)
      BY <1>4, <2>2, <3>1 DEF Routing, Promise!Divert
    <3>. QED  BY <3>2 DEF Promise!Next
  <2>. QED  BY <1>4, <2>1, <2>2 DEF Routing
<1>5. ASSUME NEW s \in Subtasks, NEW id \in EventIds, Taking(s, id)
      PROVE  [Promise!Next]_(Promise!vars)
  <2>1. CASE dropped' = dropped
    BY <1>3, <1>5, <2>1 DEF Taking
  <2>2. CASE dropped' = dropped \cup {id}
    <3>1. Promise!Undecided(id)
      BY <1>5, OnItsWay DEF Taking
    <3>2. Promise!Drop(id)
      BY <1>5, <2>2, <3>1 DEF Taking, Promise!Drop
    <3>. QED  BY <3>2 DEF Promise!Next
  <2>. QED  BY <1>5, <2>1, <2>2 DEF Taking
<1>6. ASSUME Moving PROVE [Promise!Next]_(Promise!vars)
  <2>1. CASE Stay
    BY <1>3, <1>6, <2>1 DEF Moving, Stay
  <2>2. ASSUME NEW time \in Int, Advance(time) PROVE Promise!Next
    <3>1. Promise!Fire
      BY <1>6, <2>2, FiringWrites DEF Moving
    <3>. QED  BY <3>1 DEF Promise!Next
  <2>. QED  BY <1>6, <2>1, <2>2 DEF Moving, Moved
<1>7. ASSUME Saving PROVE UNCHANGED Promise!vars
  BY <1>3, <1>7 DEF Saving
<1>8. ASSUME Restoring PROVE Promise!Next
  <2>1. (restarts > 0)' = TRUE
    BY <1>1, <1>8, TimeAssumption DEF Restoring, TypeOK
  <2>2. Promise!Recover
    BY <1>8, <2>1 DEF Restoring, Promise!Recover
  <2>. QED  BY <2>2 DEF Promise!Next
<1>. QED  BY <1>1, <1>2, <1>4, <1>5, <1>6, <1>7, <1>8 DEF Kinds

\* Behind dedup the job implements AggregateLedger: one fate and one row until a
\* restore, and after it no row taken away and none with another window's events.
THEOREM KeepsPromise == Spec => AggregateSpec
<1>1. Init => Promise!Init /\ RowsCounted
  BY PromiseInit
<1>2. IInv /\ RowsCounted /\ [Next]_vars => RowsCounted' /\ [Promise!Next]_(Promise!vars)
  BY PromiseStep
<1>. QED  BY <1>1, <1>2, Invariance, PTL DEF Spec, AggregateSpec, Promise!Spec
=============================================================================
