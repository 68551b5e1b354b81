-------------------------- MODULE EventTimeWindows --------------------------
(***************************************************************************)
(* Event time in flink/jobs/validation_dedup_job.py: what happens to a     *)
(* deduplicated event between the dedup operator and the rows of           *)
(* transactions.window_aggregates.                                         *)
(*                                                                         *)
(*   subtask s:  assigner (event time, watermark, idleness)                *)
(*               --> LatenessRouter --> transactions.late                  *)
(*               --> channel s --> ten-second windows per user --> rows    *)
(*                                                                         *)
(* The watermark strategy is applied behind dedup, so there is one         *)
(* watermark per dedup subtask, over whatever partitions feed it, and the  *)
(* router compares with that one while the window operator compares with   *)
(* the minimum of all of them.  Topic[p] holds the records of a partition  *)
(* that dedup passes; each pair (p, s) is a FIFO network channel.  A crash *)
(* restores the window state and the positions of the last checkpoint but  *)
(* no watermark, which Flink does not snapshot.                            *)
(*                                                                         *)
(* Operators named Bug... are plausible mistakes, as in ValidationDedup.   *)
(***************************************************************************)
EXTENDS Integers, Sequences, FiniteSets

CONSTANTS
    Partitions,
    Subtasks,
    EventIds,
    Topic,             \* Topic[p]: ids in the order the producer sent them
    SubtaskOf,         \* key_by(event_id)
    UserOf,
    EventTime,         \* in an abstract unit of time
    WindowSize,        \* TumblingEventTimeWindows.of(...), 10 s in the job
    OutOfOrderness,    \* for_bounded_out_of_orderness(...), 50 ms
    AllowedLateness,   \* ALLOWED_LATENESS_MS, 45 s
    MaxRestarts        \* bound: restarts from a checkpoint

ASSUME TimeAssumption ==
    /\ EventTime \in [EventIds -> Nat]
    /\ WindowSize \in Nat \ {0}
    /\ OutOfOrderness \in Nat
    /\ AllowedLateness \in Nat
    /\ MaxRestarts \in Nat

\* Within its TTL dedup passes an id once: it has one offset in one partition.
ASSUME TopicAssumption ==
    /\ IsFiniteSet(Subtasks)
    /\ SubtaskOf \in [EventIds -> Subtasks]
    /\ Topic \in [Partitions -> Seq(EventIds)]
    /\ \A p, q \in Partitions : \A i \in DOMAIN Topic[p], j \in DOMAIN Topic[q] :
            Topic[p][i] = Topic[q][j] => p = q /\ i = j

VARIABLES
    next,       \* next[p][s]: offset in Topic[p] up to which s has its records
    maxTime,    \* maxTime[s]: largest event time the assigner has seen
    emitted,    \* emitted[s]: last watermark it emitted, as the router sees it
    idle,       \* idle[s]: it has declared itself idle
    channel,    \* channel[s]: elements on the way to the window operator
    inWm,       \* inWm[s]: last watermark received on channel s
    inIdle,     \* inIdle[s]: channel s is marked idle
    inAligned,  \* inAligned[s]: channel s takes part in the minimum
    watermark,  \* the window operator's watermark
    open,       \* open[k]: events in the state of window k = <<user, start>>
    row,        \* row[k]: events counted by the current aggregate row of k
    late,       \* ids in transactions.late
    dropped,    \* ids the window operator dropped (numLateRecordsDropped)
    counted,    \* ids some row ever counted
    checkpoint, \* positions and window state of the last completed checkpoint
    restarts    \* restarts so far

inVars == <<inWm, inIdle, inAligned, watermark>>
vars == <<next, maxTime, emitted, idle, channel, inVars, open, row, late, dropped,
          counted, checkpoint, restarts>>

\* Long.MIN_VALUE: below every event time by more than any lateness.
NoTime == -(OutOfOrderness + AllowedLateness + 2)

MaxOf(S) == CHOOSE x \in S : \A y \in S : y <= x
MinOf(S) == CHOOSE x \in S : \A y \in S : x <= y

WindowOf(id) == <<UserOf[id], EventTime[id] - (EventTime[id] % WindowSize)>>
Windows == {WindowOf(id) : id \in EventIds}
EndOf(k) == k[2] + WindowSize

NothingOpen == [k \in Windows |-> {}]
FromEarliest == [next |-> [p \in Partitions |-> [s \in Subtasks |-> 0]],
                 open |-> NothingOpen]

Init ==
    /\ next = FromEarliest.next
    /\ maxTime = [s \in Subtasks |-> NoTime]
    /\ emitted = [s \in Subtasks |-> NoTime]
    /\ idle = [s \in Subtasks |-> FALSE]
    /\ channel = [s \in Subtasks |-> <<>>]
    /\ inWm = [s \in Subtasks |-> NoTime]
    /\ inIdle = [s \in Subtasks |-> FALSE]
    /\ inAligned = [s \in Subtasks |-> TRUE]
    /\ watermark = NoTime
    /\ open = NothingOpen
    /\ row = NothingOpen
    /\ late = {}
    /\ dropped = {}
    /\ counted = {}
    /\ checkpoint = FromEarliest
    /\ restarts = 0

-----------------------------------------------------------------------------
(* A dedup subtask: assigner and router, chained *)

\* The offsets of p whose records go through subtask s, and those it has yet to see.
Stream(p, s) == {i \in DOMAIN Topic[p] : SubtaskOf[Topic[p][i]] = s}
Unread(p, s) == {i \in Stream(p, s) : i > next[p][s]}

Later(t, s) == IF t > maxTime[s] THEN t ELSE maxTime[s]

\* LatenessRouter: the lag behind this subtask's own watermark.
TooLate(s, id) == emitted[s] - EventTime[id] > AllowedLateness

BugNoReturn(s, id) == TRUE

\* The router returns behind the yield to the side output.
PassedOn(s, id) == ~TooLate(s, id)

Route(p, s) ==
    /\ \E i \in Unread(p, s) :
        LET id == Topic[p][i] IN
        /\ \A j \in Unread(p, s) : i <= j
        /\ next' = [next EXCEPT ![p][s] = i]
        /\ maxTime' = [maxTime EXCEPT ![s] = Later(EventTime[id], s)]
        /\ late' = IF TooLate(s, id) THEN late \cup {id} ELSE late
        /\ channel' = IF PassedOn(s, id)
                      THEN [channel EXCEPT ![s] = Append(@, [type |-> "event", id |-> id])]
                      ELSE channel
    /\ UNCHANGED <<emitted, idle, inVars, open, row, dropped, counted, checkpoint, restarts>>

BugNoBound(s) == maxTime[s]

\* BoundedOutOfOrdernessWatermarks.onPeriodicEmit.
BoundedWatermark(s) == maxTime[s] - OutOfOrderness - 1

\* The periodic emit (every 200 ms).  Only a watermark that advances makes an
\* idle subtask active again.
EmitWatermark(s) ==
    /\ maxTime[s] # NoTime
    /\ BoundedWatermark(s) > emitted[s]
    /\ emitted' = [emitted EXCEPT ![s] = BoundedWatermark(s)]
    /\ idle' = [idle EXCEPT ![s] = FALSE]
    /\ channel' = [channel EXCEPT ![s] =
                      @ \o (IF idle[s] THEN <<[type |-> "active"]>> ELSE <<>>)
                        \o <<[type |-> "watermark", time |-> BoundedWatermark(s)]>>]
    /\ UNCHANGED <<next, maxTime, inVars, open, row, late, dropped, counted, checkpoint,
                   restarts>>

BugNeverIdle(s) == FALSE /\ UNCHANGED vars

\* with_idleness(30 s): no record for that long, however long a record may be
\* waiting upstream; the last watermark went out long before.
MarkIdle(s) ==
    /\ ~idle[s]
    /\ maxTime[s] = NoTime \/ emitted[s] >= BoundedWatermark(s)
    /\ idle' = [idle EXCEPT ![s] = TRUE]
    /\ channel' = [channel EXCEPT ![s] = Append(@, [type |-> "idle"])]
    /\ UNCHANGED <<next, maxTime, emitted, inVars, open, row, late, dropped, counted,
                   checkpoint, restarts>>

-----------------------------------------------------------------------------
(* The window operator and the aggregates sink chained to it *)

\* Event-time trigger and cleanup at the last millisecond of the window: no
\* allowed_lateness() is set, so both happen at once.
Closed(k, time) == EndOf(k) - 1 <= time

\* PostgresAggregatesSink: a row is what its window held when it last fired.
Upserted(fired) == [k \in Windows |-> IF k \in fired THEN open[k] ELSE row[k]]

\* The operator's watermark becomes time: windows fire, their rows are upserted,
\* their state is cleared.
Advance(time) ==
    LET fired == {k \in Windows : open[k] # {} /\ Closed(k, time)} IN
    /\ watermark' = time
    /\ row' = Upserted(fired)
    /\ open' = [k \in Windows |-> IF k \in fired THEN {} ELSE open[k]]
    /\ counted' = counted \cup UNION {open[k] : k \in fired}

Stay == UNCHANGED <<watermark, row, open, counted>>

BugLateAccepted(id) == FALSE

\* WindowOperator.isWindowLate.
WindowLate(id) == Closed(WindowOf(id), watermark)

\* An element of a window that is closed is dropped without a trace.
ReceiveEvent(s, id) ==
    /\ IF WindowLate(id)
       THEN dropped' = dropped \cup {id} /\ UNCHANGED open
       ELSE open' = [open EXCEPT ![WindowOf(id)] = @ \cup {id}] /\ UNCHANGED dropped
    /\ UNCHANGED <<inVars, row, counted>>

\* The new minimum over the aligned channels, if it advances.
AdvanceToMin(wm, aligned) ==
    LET time == MinOf({wm[t] : t \in {u \in Subtasks : aligned[u]}}) IN
    IF (\E t \in Subtasks : aligned[t]) /\ time > watermark THEN Advance(time) ELSE Stay

ReceiveWatermark(s, time) ==
    /\ UNCHANGED <<inIdle, dropped>>
    /\ IF inIdle[s] \/ time <= inWm[s]
       THEN UNCHANGED <<inWm, inAligned>> /\ Stay
       ELSE /\ inWm' = [inWm EXCEPT ![s] = time]
            /\ inAligned' = [inAligned EXCEPT ![s] = @ \/ time >= watermark]
            /\ AdvanceToMin(inWm', inAligned')

\* A channel that held the minimum back stops doing so; when the last one goes
\* idle, the largest watermark of all is flushed.
ReceiveIdle(s) ==
    /\ UNCHANGED <<inWm, dropped>>
    /\ inIdle' = [inIdle EXCEPT ![s] = TRUE]
    /\ inAligned' = [inAligned EXCEPT ![s] = FALSE]
    /\ IF inWm[s] # watermark
       THEN Stay
       ELSE IF \A t \in Subtasks : inIdle'[t]
            THEN LET time == MaxOf({inWm[t] : t \in Subtasks}) IN
                 IF time > watermark THEN Advance(time) ELSE Stay
            ELSE AdvanceToMin(inWm, inAligned')

ReceiveActive(s) ==
    /\ inIdle' = [inIdle EXCEPT ![s] = FALSE]
    /\ inAligned' = [inAligned EXCEPT ![s] = inWm[s] >= watermark]
    /\ UNCHANGED <<inWm, dropped>>
    /\ Stay

Receive(s) ==
    /\ channel[s] # <<>>
    /\ channel' = [channel EXCEPT ![s] = Tail(@)]
    /\ LET element == Head(channel[s]) IN
       \/ element.type = "event" /\ ReceiveEvent(s, element.id)
       \/ element.type = "watermark" /\ ReceiveWatermark(s, element.time)
       \/ element.type = "idle" /\ ReceiveIdle(s)
       \/ element.type = "active" /\ ReceiveActive(s)
    /\ UNCHANGED <<next, maxTime, emitted, idle, late, checkpoint, restarts>>

-----------------------------------------------------------------------------
(* Checkpoints and recovery *)

\* The state of the operators at a cut: every subtask has processed the same
\* prefix of each partition and the window operator all they sent.  Aligned
\* barriers make every checkpoint the state of such a moment.
AtCut ==
    /\ \A s \in Subtasks : channel[s] = <<>>
    /\ \A p \in Partitions : \E n \in 0..Len(Topic[p]) :
            \A s \in Subtasks : next[p][s] <= n /\ \A i \in Unread(p, s) : i > n

BugWindowsNotSnapshotted == NothingOpen

SnapshotOfWindows == open

\* Bound: none is taken that no restart would read.
TakeCheckpoint ==
    /\ restarts < MaxRestarts
    /\ AtCut
    /\ checkpoint' = [next |-> next, open |-> SnapshotOfWindows]
    /\ checkpoint' # checkpoint
    /\ UNCHANGED <<next, maxTime, emitted, idle, channel, inVars, open, row, late, dropped,
                   counted, restarts>>

BugReplayFromEarliest == FromEarliest.next
BugOneRecordFurther ==
    [p \in Partitions |-> [s \in Subtasks |-> checkpoint.next[p][s] + 1]]

RestoredNext == checkpoint.next

\* A task dies and the job restarts: rows and late records stay where they are,
\* everything else is read back, watermarks start over.
Restart ==
    /\ restarts < MaxRestarts
    /\ restarts' = restarts + 1
    /\ next' = RestoredNext
    /\ open' = checkpoint.open
    /\ maxTime' = [s \in Subtasks |-> NoTime]
    /\ emitted' = [s \in Subtasks |-> NoTime]
    /\ idle' = [s \in Subtasks |-> FALSE]
    /\ channel' = [s \in Subtasks |-> <<>>]
    /\ inWm' = [s \in Subtasks |-> NoTime]
    /\ inIdle' = [s \in Subtasks |-> FALSE]
    /\ inAligned' = [s \in Subtasks |-> TRUE]
    /\ watermark' = NoTime
    /\ UNCHANGED <<row, late, dropped, counted, checkpoint>>

Next ==
    \/ \E p \in Partitions, s \in Subtasks : Route(p, s)
    \/ \E s \in Subtasks : EmitWatermark(s) \/ MarkIdle(s) \/ Receive(s)
    \/ TakeCheckpoint
    \/ Restart

Spec == Init /\ [][Next]_vars

\* Tasks run, the periodic emit fires, and a subtask without records is marked
\* idle.  Checkpoints and crashes are owed to nobody.
Fairness ==
    /\ \A p \in Partitions, s \in Subtasks : WF_vars(Route(p, s))
    /\ \A s \in Subtasks : WF_vars(EmitWatermark(s)) /\ WF_vars(MarkIdle(s))
                           /\ WF_vars(Receive(s))

FairSpec == Spec /\ Fairness

-----------------------------------------------------------------------------
(* Properties *)

Elements ==
    [type : {"event"}, id : EventIds] \cup [type : {"watermark"}, time : Int]
        \cup [type : {"idle", "active"}]

Positions ==
    {f \in [Partitions -> [Subtasks -> Nat]] :
        \A p \in Partitions, s \in Subtasks : f[p][s] <= Len(Topic[p])}

\* Type invariant.
TypeOK ==
    /\ next \in Positions
    /\ checkpoint \in [next : Positions, open : [Windows -> SUBSET EventIds]]
    /\ maxTime \in [Subtasks -> Int] /\ emitted \in [Subtasks -> Int]
    /\ idle \in [Subtasks -> BOOLEAN] /\ inIdle \in [Subtasks -> BOOLEAN]
    /\ inAligned \in [Subtasks -> BOOLEAN]
    /\ channel \in [Subtasks -> Seq(Elements)]
    /\ inWm \in [Subtasks -> Int] /\ watermark \in Int
    /\ open \in [Windows -> SUBSET EventIds] /\ row \in [Windows -> SUBSET EventIds]
    /\ late \subseteq EventIds /\ dropped \subseteq EventIds /\ counted \subseteq EventIds
    /\ restarts \in 0..MaxRestarts

EventsIn(elements) ==
    {elements[i].id : i \in {j \in DOMAIN elements : elements[j].type = "event"}}

InChannel(s) == EventsIn(channel[s])

\* The offsets of p whose records subtask s has processed.
Processed(p, s) == {i \in Stream(p, s) : i <= next[p][s]}

\* An event that dedup let through has exactly the fates the job gives it, even
\* when a crash falls between a window's firing and the next checkpoint: on its
\* way, in an open window, counted by a row, late, or dropped.
EventsConserved ==
    \A p \in Partitions, s \in Subtasks : \A i \in Processed(p, s) :
        LET id == Topic[p][i] IN
        \/ id \in InChannel(s) \/ id \in open[WindowOf(id)]
        \/ id \in counted \cup late \cup dropped

\* Until a restart an event has one of those fates only: what is in
\* transactions.late or was dropped is in no aggregate row, so the three account
\* for the stream without overlap.
FatesExclusive ==
    restarts = 0 =>
        /\ late \cap dropped = {} /\ counted \cap (late \cup dropped) = {}
        /\ \A s \in Subtasks : InChannel(s) \cap (late \cup dropped \cup counted) = {}
        /\ \A k \in Windows : open[k] \cap (late \cup dropped \cup counted) = {}

\* A record that is still to be read, or on its way, is not already part of an
\* open window: state and offsets are restored together, so a replay does not
\* count an event twice into one average_transaction_value.
NoDoubleCount ==
    \A p \in Partitions, s \in Subtasks :
        /\ \A i \in Unread(p, s) : Topic[p][i] \notin open[WindowOf(Topic[p][i])]
        /\ \A id \in InChannel(s) : id \notin open[WindowOf(id)]

\* No window closes on ordering jitter: an event is dropped only when some
\* subtask has processed an event at least the out-of-orderness bound beyond
\* the end of its window.
DropsAreJustified ==
    [][\A id \in dropped' \ dropped :
        \E p \in Partitions, s \in Subtasks : \E i \in Processed(p, s) :
            EventTime[Topic[p][i]] >= EndOf(WindowOf(id)) + OutOfOrderness]_vars

\* The job keeps the promise of AggregateLedger: until a failure an event has one
\* fate for good and a row is written once, with nothing in it that is late or was
\* dropped; after one, rows still hold events of their own window only and stay.
Promise == INSTANCE AggregateLedger
    WITH Home <- [id \in EventIds |-> WindowOf(id)], aggregates <- row, recovered <- restarts > 0
AggregateSpec == Promise!Spec

\* docs/step8-exactly-once-kill-test.md:71, "The Postgres event and aggregate
\* upserts make replayed writes idempotent": a recovery should not take out of
\* a row what it counted either.
RowsKeepCounted == [][\A k \in Windows : row[k] \subseteq row'[k]]_vars

\* A subtask that gets no records does not hold the windows of the others back
\* for good: unless the job fails, in the end only windows that no watermark
\* can reach stay open.
QuietSubtaskDoesNotBlock ==
    <>[](\/ restarts > 0
         \/ \A k \in Windows : open[k] # {} =>
                \A id \in EventIds : EventTime[id] < EndOf(k) + OutOfOrderness)

\* flink/README.md:13: "Late arrivals within the 45-second allowance update
\* their original window and can produce a revised aggregate output."
AllowedLateIsCounted == dropped = {}
=============================================================================
