---------------------------- MODULE AnomalyRules ----------------------------
(***************************************************************************)
(* UserAnomalyDetection and PostgresAnomaliesSink of                       *)
(* flink/jobs/validation_dedup_job.py for one user (the operator is keyed  *)
(* by user_id): the velocity rule over the event times it keeps, the       *)
(* amount rule over its bounded history, and the rows appended for their   *)
(* alerts.  The user's events arrive in any order: dedup, keyed by         *)
(* event_id, has spread them over subtasks.  A failure restarts the state  *)
(* of a checkpoint and the events after it arrive again; a submission has  *)
(* no state and reads everything again (make flink-job-submit gives no     *)
(* savepoint); the rows of the first time stay.  A copy of an event passes *)
(* dedup when the ten minutes of its state are over: it has an offset of   *)
(* its own.  An event that comes again and that dedup drops this time is   *)
(* one that stays in replay.  The ghost variable arrived lists the events  *)
(* the state stands for, each with the tags the rules gave it.             *)
(*                                                                         *)
(* The rules only filter the kept event times and count them, so the list  *)
(* is kept as the set of its elements, each with the place in arrived of   *)
(* the event that appended it: equal times stay apart.                     *)
(*                                                                         *)
(* Operators named Bug... are plausible mistakes, as in ValidationDedup.   *)
(***************************************************************************)
EXTENDS Integers, Sequences, FiniteSets

CONSTANTS
    Payloads,            \* <<event time, amount>> of the events the user may send
    VelocityWindow,      \* VELOCITY_WINDOW_MS
    VelocityThreshold,   \* VELOCITY_THRESHOLD
    Percent,             \* 99, as in percentile_99
    MinHistory,          \* PERCENTILE_MIN_HISTORY
    HistoryLimit,        \* PERCENTILE_HISTORY_LIMIT
    MaxEvents,           \* bound: events and copies of events that pass dedup
    MaxRestarts          \* bound: recoveries and submissions after the first

ASSUME RulesAssumption ==
    /\ Payloads \subseteq Nat \X Nat
    /\ VelocityWindow \in Nat /\ VelocityThreshold \in Nat
    /\ Percent \in 0..100
    /\ MinHistory \in Nat \ {0} /\ HistoryLimit \in Nat \ {0}
    /\ MaxEvents \in Nat /\ MaxRestarts \in Nat

Tags == {"ANOMALY_VELOCITY", "ANOMALY_AMOUNT"}

VARIABLES
    timestamps,   \* "velocity-event-times": <<place of its event, event time>>
    amounts,      \* "amount-history"
    arrived,      \* ghost: events processed since the user's state was empty, tagged
    replay,       \* events that were processed before a restart and may come again
    unwritten,    \* alerts <<event_id, tag>> in front of the sink, oldest first
    rows,         \* rows[alert]: rows of transactions.anomalies for it
    saved,        \* timestamps, amounts and arrived of the submission's latest checkpoint
    restarts      \* recoveries and later submissions so far

vars == <<timestamps, amounts, arrived, replay, unwritten, rows, saved, restarts>>

\* An event is a record of transactions.raw; a copy has the id of another one.
Events == [offset : 1..MaxEvents, id : 1..MaxEvents, payload : Payloads]
Tagged == [offset : 1..MaxEvents, id : 1..MaxEvents, payload : Payloads, tags : SUBSET Tags]
Alerts == (1..MaxEvents) \X Tags

TimeOf(event)   == event.payload[1]
AmountOf(event) == event.payload[2]
Times == {p[1] : p \in Payloads}

NoState == [timestamps |-> {}, amounts |-> <<>>, arrived |-> <<>>]

Init ==
    /\ timestamps = {}
    /\ amounts = <<>>
    /\ arrived = <<>>
    /\ replay = {}
    /\ unwritten = <<>>
    /\ rows = [alert \in Alerts |-> 0]
    /\ saved = NoState
    /\ restarts = 0

-----------------------------------------------------------------------------
(* The velocity rule *)

BugBoundaryExcluded(t) == {entry \in timestamps : entry[2] + VelocityWindow > t}

\* The event times kept when an event of time t arrives.  Nothing bounds them
\* from above: times later than t stay and count.
Recent(t) == {entry \in timestamps : entry[2] + VelocityWindow >= t}

OverThreshold(times) == Cardinality(times) > VelocityThreshold

-----------------------------------------------------------------------------
(* The amount rule; a percentile is kept as its hundredfold, an integer *)

AtMost(values, v) == {i \in DOMAIN values : values[i] <= v}
Under(values, v)  == {i \in DOMAIN values : values[i] < v}

\* sorted(values): in place k is the value that fewer than k are under, and
\* that at least k do not exceed.
Ordered(values) ==
    [k \in DOMAIN values |->
        CHOOSE v \in {values[i] : i \in DOMAIN values} :
            Cardinality(Under(values, v)) < k /\ k <= Cardinality(AtMost(values, v))]

\* percentile_99: linear interpolation between the two nearest ranks.
Percentile(values) ==
    LET ordered == Ordered(values)
        n == Len(values)
        position == (n - 1) * Percent
        lower == position \div 100
        upper == IF lower + 1 < n - 1 THEN lower + 1 ELSE n - 1
        fraction == position % 100
    IN 100 * ordered[lower + 1] + (ordered[upper + 1] - ordered[lower + 1]) * fraction

WarmedUp == Len(amounts) >= MinHistory

OverPercentile(amount) == WarmedUp /\ 100 * amount > Percentile(amounts)

BugUnbounded(values) == values
BugOldestKept(values) ==
    IF Len(values) <= HistoryLimit THEN values ELSE SubSeq(values, 1, HistoryLimit)

\* amounts[-PERCENTILE_HISTORY_LIMIT:]
Bounded(values) ==
    IF Len(values) <= HistoryLimit THEN values
    ELSE SubSeq(values, Len(values) - HistoryLimit + 1, Len(values))

-----------------------------------------------------------------------------
(* The operator, its sink, checkpoints and recovery *)

\* The tags process_element yields for an event, in order; times are the event
\* times kept with it.
TagsFor(event, times) ==
    (IF OverThreshold(times) THEN <<"ANOMALY_VELOCITY">> ELSE <<>>)
      \o (IF OverPercentile(AmountOf(event)) THEN <<"ANOMALY_AMOUNT">> ELSE <<>>)

\* UserAnomalyDetection.process_element.
Process(event) ==
    LET times == Recent(TimeOf(event)) \cup {<<Len(arrived) + 1, TimeOf(event)>>}
        tags  == TagsFor(event, times)
    IN /\ timestamps' = times
       /\ amounts' = Bounded(Append(amounts, AmountOf(event)))
       /\ arrived' = Append(arrived, [offset |-> event.offset, id |-> event.id,
                                      payload |-> event.payload,
                                      tags |-> {tags[k] : k \in DOMAIN tags}])
       /\ replay' = replay \ {event}
       /\ unwritten' = unwritten \o [k \in DOMAIN tags |-> <<event.id, tags[k]>>]
       /\ UNCHANGED <<rows, saved, restarts>>

EventsFrom(n) ==
    {[offset |-> arrived[i].offset, id |-> arrived[i].id, payload |-> arrived[i].payload] :
        i \in n..Len(arrived)}

\* Events the topic holds for the user.
Known == Len(arrived) + Cardinality(replay)

\* The next event is one the user has not sent before,
ArriveFirst ==
    /\ Known < MaxEvents
    /\ \E payload \in Payloads :
          Process([offset |-> Known + 1, id |-> Known + 1, payload |-> payload])

\* or a copy of one, sent when dedup has forgotten its id,
ArriveCopy ==
    /\ Known < MaxEvents
    /\ \E event \in EventsFrom(1) \cup replay :
          Process([event EXCEPT !.offset = Known + 1])

\* or one that the job read before it was restarted.
ArriveAgain == \E event \in replay : Process(event)

\* PostgresAnomaliesSink.process_element: a plain INSERT, committed by itself.
InsertAnomaly ==
    /\ unwritten # <<>>
    /\ rows' = [rows EXCEPT ![Head(unwritten)] = @ + 1]
    /\ unwritten' = Tail(unwritten)
    /\ UNCHANGED <<timestamps, amounts, arrived, replay, saved, restarts>>

BugSinkNotWaitedFor == TRUE

\* The barrier reaches the sink behind the alerts yielded before it.
BarrierThroughSink == unwritten = <<>>

Checkpoint ==
    /\ restarts < MaxRestarts
    /\ BarrierThroughSink
    /\ saved' = [timestamps |-> timestamps, amounts |-> amounts, arrived |-> arrived]
    /\ UNCHANGED <<timestamps, amounts, arrived, replay, unwritten, rows, restarts>>

BugVelocityNotRestored == [saved EXCEPT !.timestamps = {}]
BugReplayFromEarliest(state) == EventsFrom(1)

\* The source goes back to the offsets that belong to a state.
RolledBack(state) == EventsFrom(Len(state.arrived) + 1)

\* The job runs again with a state; the alerts in its channels are gone.
Restart(state) ==
    /\ restarts < MaxRestarts
    /\ restarts' = restarts + 1
    /\ timestamps' = state.timestamps
    /\ amounts' = state.amounts
    /\ arrived' = state.arrived
    /\ replay' = replay \cup RolledBack(state)
    /\ unwritten' = <<>>
    /\ saved' = state
    /\ UNCHANGED rows

\* After a failure: the latest checkpoint of this submission.
RestoredState == saved
Restore == Restart(RestoredState)

\* A submission: no state, and earliest() as the source's position.
Submit == Restart(NoState)

Next ==
    \/ ArriveFirst \/ ArriveCopy \/ ArriveAgain
    \/ InsertAnomaly
    \/ Checkpoint \/ Restore \/ Submit

Spec == Init /\ [][Next]_vars

-----------------------------------------------------------------------------
(* Properties *)

\* Type invariant.
TypeOK ==
    /\ timestamps \subseteq (1..MaxEvents) \X Times
    /\ amounts \in Seq({p[2] : p \in Payloads}) /\ Len(amounts) <= HistoryLimit
    /\ arrived \in Seq(Tagged) /\ Len(arrived) <= MaxEvents
    /\ replay \subseteq Events
    /\ unwritten \in Seq(Alerts)
    /\ rows \in [Alerts -> Nat]
    /\ saved.timestamps \subseteq (1..MaxEvents) \X Times /\ saved.arrived \in Seq(Tagged)
    /\ restarts \in 0..MaxRestarts

\* The places no later arrival has pushed out of the window.
Surviving(events) ==
    {i \in DOMAIN events :
        \A j \in DOMAIN events : j > i => TimeOf(events[j]) <= TimeOf(events[i]) + VelocityWindow}

ExactTimes(events) == {<<i, TimeOf(events[i])>> : i \in Surviving(events)}

\* Pruning on every arrival keeps exactly the events that no later arrival
\* outran by more than the window, through any disorder and any restart.
VelocityStateIsExact == timestamps = ExactTimes(arrived)

InOrder == \A i, j \in DOMAIN arrived : i < j => TimeOf(arrived[i]) <= TimeOf(arrived[j])

\* Events of arrived whose time is within the window that ends at time t.
WindowUpTo(t) ==
    {i \in DOMAIN arrived : TimeOf(arrived[i]) <= t /\ t <= TimeOf(arrived[i]) + VelocityWindow}

\* The latest event is the last of more than VelocityThreshold in a window.
BurstCompleted ==
    Cardinality(WindowUpTo(TimeOf(arrived[Len(arrived)]))) > VelocityThreshold

LatestTags == arrived[Len(arrived)].tags

\* For a user whose events arrive in event-time order the rule is exact: it
\* fires on an event if and only if that event completes a burst.  A copy that
\* passes dedup counts as an event, for the rule and here.
BurstsFoundInOrder ==
    [][Len(arrived') > Len(arrived) /\ InOrder' =>
          ("ANOMALY_VELOCITY" \in LatestTags' <=> BurstCompleted')]_vars

\* The amounts of the last HistoryLimit events of arrived before the latest.
RecentAmounts ==
    {i \in 1..(Len(arrived) - 1) : i >= Len(arrived) - HistoryLimit}

\* The interpolated percentile means what its name says: a flagged amount is
\* exceeded or equalled by at most (100 - Percent) in a hundred of the other
\* ranks of the history, and an unflagged one is not above all of it.
AmountAlertsAreExtreme ==
    [][Len(arrived') > Len(arrived) =>
        LET amount == AmountOf(arrived'[Len(arrived')])
            history == RecentAmounts'
            n == Cardinality(history)
            atLeast == {i \in history : AmountOf(arrived'[i]) >= amount}
        IN IF "ANOMALY_AMOUNT" \in LatestTags'
           THEN /\ n >= MinHistory
                /\ 100 * Cardinality(atLeast) < (n - 1) * (100 - Percent) + 100
           ELSE n < MinHistory \/ atLeast # {}]_vars

\* At least once: an alert the rules gave for an event their state still counts
\* has a row, or is on its way to one.  A checkpoint that did not wait for the
\* sink would lose the alert of an event it covers.
AlertsHaveRows ==
    \A i \in DOMAIN arrived : \A tag \in arrived[i].tags :
        LET alert == <<arrived[i].id, tag>> IN
        rows[alert] > 0 \/ \E k \in DOMAIN unwritten : unwritten[k] = alert

Covered == {saved.arrived[i].offset : i \in DOMAIN saved.arrived}

\* Rows are repeated (docs/step8-exactly-once-kill-test.md:75 accepts it) only
\* by what arrives after the latest checkpoint: a row that is added is the alert
\* of an event no checkpoint of this submission covers.  Rows of covered ids do
\* repeat, but only through a copy that passed dedup after the checkpoint or
\* through a submission, which has no checkpoint yet.
RowsFinalAfterCheckpoint ==
    [][\A alert \in Alerts : rows'[alert] # rows[alert] =>
          \E i \in DOMAIN arrived :
             /\ arrived[i].id = alert[1] /\ alert[2] \in arrived[i].tags
             /\ arrived[i].offset \notin Covered]_vars

\* flink/README.md:70: "a user's event-time transaction count exceeded 10 within
\* 60 seconds" - some stretch of that length holds more events than the
\* threshold.
VelocityAlertIsABurst ==
    arrived # <<>> /\ "ANOMALY_VELOCITY" \in LatestTags =>
        \E t \in Times : Cardinality(WindowUpTo(t)) > VelocityThreshold
=============================================================================
