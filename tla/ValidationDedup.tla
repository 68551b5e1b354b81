-------------------------- MODULE ValidationDedup --------------------------
(***************************************************************************)
(* The exactly-once path of flink/jobs/validation_dedup_job.py:            *)
(*                                                                         *)
(*   transactions.raw --> validation --> dedup by event_id --> events sink *)
(*                            |                                            *)
(*                            +--> transactions.deadletter                 *)
(*                                                                         *)
(* with the aligned checkpoints that main() turns on, the restart strategy *)
(* of docker-compose.yml, a Postgres that can go away, and an operator who *)
(* cancels and resubmits the job.  Channels are indices into the topic: a  *)
(* dedup subtask has a record of partition p in flight when the source has *)
(* read it (i <= pos[p]) and the subtask has not yet processed it.  One    *)
(* source subtask reads one partition; batching, serialisation and the     *)
(* printed diagnostics are left out.                                       *)
(*                                                                         *)
(* An operator named Bug... is what a plausible mistake would make of the  *)
(* definition after it.  No action uses one: each is substituted for that  *)
(* definition to show that a property notices.                             *)
(***************************************************************************)
EXTENDS Naturals, Sequences

CONSTANTS
    Partitions,        \* of transactions.raw
    Subtasks,          \* of the dedup operator (parallelism 2 in the job)
    EventIds,          \* event_id values the producer draws from
    Valid,             \* the ids whose payload passes structural validation
    Unstorable,        \* those of them whose values a cast of the events sink rejects
    PartitionOf,       \* partition of an id's records: the Kafka key is user_id
    SubtaskOf,         \* subtask of an id: key_by(event_id)
    RestartAttempts,   \* restart-strategy.fixed-delay.attempts
    MaxLen             \* bound: records per partition

ASSUME ConstantsAssumption ==
    /\ Valid \subseteq EventIds /\ Unstorable \subseteq Valid
    /\ PartitionOf \in [EventIds -> Partitions]
    /\ SubtaskOf \in [EventIds -> Subtasks]
    /\ RestartAttempts \in Nat
    /\ MaxLen \in Nat

VARIABLES
    \* Kafka
    raw,           \* raw[p]: the records of a partition, oldest first
    deadletters,   \* ids with a record in transactions.deadletter
    groupOffset,   \* groupOffset[p]: offset committed for the consumer group
    \* Postgres
    pg,            \* the server accepts connections
    conn,          \* the sinks' connections, opened once in open(), still work
    events,        \* primary keys of transactions.events
    \* the job, as the JobManager sees it
    job,           \* DEPLOYING, RUNNING, FAILED or CANCELED
    attempts,      \* restarts used since the job was submitted
    completed,     \* latest completed checkpoint: source positions, dedup state
    \* state of the running tasks
    pos,           \* pos[p]: records of p read by the source
    delivered,     \* delivered[p][s]: last record of p processed by subtask s
    seen,          \* seen[s]: live entries of the "seen-event-id" state
    inflight,      \* inflight[s]: passed by dedup, not yet written by the sink
    dlq,           \* dlq[p]: dead letters buffered in the Kafka sink
    \* the checkpoint being taken
    injected,      \* partitions whose source has emitted the barrier
    ckPos,         \* ckPos[p]: position snapshotted with the barrier
    snapped,       \* dedup subtasks that aligned and snapshotted
    ckSeen,        \* ckSeen[s]: the dedup state they snapshotted
    ahead,         \* ahead[s]: records the sink gets before the barrier
    dlAhead        \* dlAhead[p]: dead letters buffered before the barrier

kafkaVars   == <<raw, deadletters, groupOffset>>
pgVars      == <<pg, conn, events>>
jobVars     == <<job, attempts, completed>>
taskVars    == <<pos, delivered, seen, inflight, dlq>>
pendingVars == <<injected, ckPos, snapped, ckSeen, ahead, dlAhead>>
vars == <<kafkaVars, pgVars, jobVars, taskVars, pendingVars>>

JobStates == {"DEPLOYING", "RUNNING", "FAILED", "CANCELED"}

PerPartition(v) == [p \in Partitions |-> v]
PerSubtask(v)   == [s \in Subtasks |-> v]

\* What earliest() stands for: every record is still to be read, and no
\* event_id has been seen.
NoCheckpoint == [pos |-> PerPartition(0), seen |-> PerSubtask({})]

Init ==
    /\ raw = PerPartition(<<>>)
    /\ deadletters = {}
    /\ groupOffset = PerPartition(0)
    /\ pg = TRUE
    /\ conn = FALSE
    /\ events = {}
    /\ job = "DEPLOYING"
    /\ attempts = 0
    /\ completed = NoCheckpoint
    /\ pos = PerPartition(0)
    /\ delivered = PerPartition(PerSubtask(0))
    /\ seen = PerSubtask({})
    /\ inflight = PerSubtask({})
    /\ dlq = PerPartition({})
    /\ injected = {}
    /\ ckPos = PerPartition(0)
    /\ snapped = {}
    /\ ckSeen = PerSubtask({})
    /\ ahead = PerSubtask({})
    /\ dlAhead = PerPartition({})

-----------------------------------------------------------------------------
(* The producer *)

\* send_and_wait of a new or of a repeated event: same id, same partition.
Produce(id) ==
    LET p == PartitionOf[id] IN
    /\ Len(raw[p]) < MaxLen
    /\ raw' = [raw EXCEPT ![p] = Append(@, id)]
    /\ UNCHANGED <<deadletters, groupOffset, pgVars, jobVars, taskVars, pendingVars>>

-----------------------------------------------------------------------------
(* The tasks of a running job *)

BugValidationSkipped(id) == TRUE

\* structural_validation_error(raw) returned no reason.
PassesValidation(id) == id \in Valid

\* Records of p that the source has sent to subtask s and s has not processed.
Waiting(p, s) ==
    {i \in (delivered[p][s] + 1)..pos[p] :
        PassesValidation(raw[p][i]) /\ SubtaskOf[raw[p][i]] = s}

\* The source hands the next record to the validation function chained to it;
\* a record with a reason goes to the dead-letter sink's buffer.
Read(p) ==
    /\ job = "RUNNING"
    /\ pos[p] < Len(raw[p])
    /\ pos' = [pos EXCEPT ![p] = @ + 1]
    /\ LET id == raw[p][pos[p] + 1] IN
       dlq' = IF PassesValidation(id) THEN dlq ELSE [dlq EXCEPT ![p] = @ \cup {id}]
    /\ UNCHANGED <<kafkaVars, pgVars, jobVars, delivered, seen, inflight, pendingVars>>

\* CheckpointingMode.AT_LEAST_ONCE: channels are not aligned.
BugUnaligned(p, i) == FALSE

\* Record i of p is behind the barrier of the checkpoint being taken.
BehindBarrier(p, i) == p \in injected /\ i > ckPos[p]

\* DeduplicateByEventId.process_element on the next record of channel p -> s.
\* Alignment: a channel whose barrier has arrived waits until s has snapshotted.
Deduplicate(p, s) ==
    /\ job = "RUNNING"
    /\ \E i \in Waiting(p, s) :
        /\ \A j \in Waiting(p, s) : i <= j
        /\ BehindBarrier(p, i) => s \in snapped
        /\ delivered' = [delivered EXCEPT ![p][s] = i]
        /\ IF raw[p][i] \in seen[s]
           THEN UNCHANGED <<seen, inflight>>
           ELSE /\ seen' = [seen EXCEPT ![s] = @ \cup {raw[p][i]}]
                /\ inflight' = [inflight EXCEPT ![s] = @ \cup {raw[p][i]}]
    /\ UNCHANGED <<kafkaVars, pgVars, jobVars, pos, dlq, pendingVars>>

\* %s::uuid, %s::timestamptz and BIGINT accept the values, of which validation
\* has only looked at the types.
Storable(id) == id \notin Unstorable

\* PostgresEventsSink.process_element: the upsert commits by itself (autocommit).
SinkWrite(s, id) ==
    /\ job = "RUNNING" /\ conn
    /\ id \in inflight[s] /\ Storable(id)
    /\ events' = events \cup {id}
    /\ inflight' = [inflight EXCEPT ![s] = @ \ {id}]
    /\ ahead' = [ahead EXCEPT ![s] = @ \ {id}]
    /\ UNCHANGED <<kafkaVars, pg, conn, jobVars, pos, delivered, seen, dlq,
                   injected, ckPos, snapped, ckSeen, dlAhead>>

\* The dead-letter KafkaSink delivers a buffered record.
DeliverDeadletter(p, id) ==
    /\ job = "RUNNING"
    /\ id \in dlq[p]
    /\ deadletters' = deadletters \cup {id}
    /\ dlq' = [dlq EXCEPT ![p] = @ \ {id}]
    /\ dlAhead' = [dlAhead EXCEPT ![p] = @ \ {id}]
    /\ UNCHANGED <<raw, groupOffset, pgVars, jobVars, pos, delivered, seen, inflight,
                   injected, ckPos, snapped, ckSeen, ahead>>

\* StateTtlConfig of ten minutes of processing time from the write that created
\* the entry (OnCreateAndWrite).  A snapshot keeps the timestamps, so the copies
\* of that entry expire with it (NeverReturnExpired).
Expire(s, id) ==
    /\ id \in seen[s] \cup ckSeen[s] \cup completed.seen[s]
    /\ seen' = [seen EXCEPT ![s] = @ \ {id}]
    /\ ckSeen' = [ckSeen EXCEPT ![s] = @ \ {id}]
    /\ completed' = [completed EXCEPT !.seen[s] = @ \ {id}]
    /\ UNCHANGED <<kafkaVars, pgVars, job, attempts, pos, delivered, inflight, dlq,
                   injected, ckPos, snapped, ahead, dlAhead>>

-----------------------------------------------------------------------------
(* Checkpoints: Flink's aligned barriers, as enable_checkpointing asks for *)

InjectBarrier(p) ==
    /\ job = "RUNNING"
    /\ p \notin injected
    /\ injected' = injected \cup {p}
    /\ ckPos' = [ckPos EXCEPT ![p] = pos[p]]
    /\ dlAhead' = [dlAhead EXCEPT ![p] = dlq[p]]
    /\ UNCHANGED <<kafkaVars, pgVars, jobVars, taskVars, snapped, ckSeen, ahead>>

\* s has received the barrier on every channel and everything before it.
Snapshot(s) ==
    /\ job = "RUNNING"
    /\ s \notin snapped
    /\ injected = Partitions
    /\ \A p \in Partitions : \A i \in Waiting(p, s) : BehindBarrier(p, i)
    /\ snapped' = snapped \cup {s}
    /\ ckSeen' = [ckSeen EXCEPT ![s] = seen[s]]
    /\ ahead' = [ahead EXCEPT ![s] = inflight[s]]
    /\ UNCHANGED <<kafkaVars, pgVars, jobVars, taskVars, injected, ckPos, dlAhead>>

BugSinksNotFlushed == TRUE
BugDeadletterSinkNotFlushed == \A s \in Subtasks : ahead[s] = {}

\* The barrier has passed the sinks: the events sink has executed every
\* statement before it, the Kafka sink has flushed (AT_LEAST_ONCE).
BarrierThroughSinks ==
    /\ \A s \in Subtasks : ahead[s] = {}
    /\ \A p \in Partitions : dlAhead[p] = {}

\* No checkpoint is being taken.
ResetPending ==
    /\ injected' = {}
    /\ ckPos' = PerPartition(0)
    /\ snapped' = {}
    /\ ckSeen' = PerSubtask({})
    /\ ahead' = PerSubtask({})
    /\ dlAhead' = PerPartition({})

\* Every task has acknowledged.  The source commits its offsets to the group
\* when it is told, which a failure may prevent (committed = FALSE).
CompleteCheckpoint(committed) ==
    /\ job = "RUNNING"
    /\ injected = Partitions /\ snapped = Subtasks
    /\ BarrierThroughSinks
    /\ completed' = [pos |-> ckPos, seen |-> ckSeen]
    /\ groupOffset' = IF committed THEN ckPos ELSE groupOffset
    /\ ResetPending
    /\ UNCHANGED <<raw, deadletters, pgVars, job, attempts, taskVars>>

-----------------------------------------------------------------------------
(* Failures, restarts, and the operator *)

BugOneRestartTooMany == attempts <= RestartAttempts

\* FixedDelayRestartBackoffTimeStrategy: the count is never reset while the
\* submission lives.
RestartAllowed == attempts < RestartAttempts

\* The tasks' memory and the unfinished checkpoint are gone.
DropTasks ==
    /\ pos' = PerPartition(0)
    /\ delivered' = PerPartition(PerSubtask(0))
    /\ seen' = PerSubtask({})
    /\ inflight' = PerSubtask({})
    /\ dlq' = PerPartition({})
    /\ ResetPending

\* A task failed: the JobManager restarts the whole job, or gives up.
Fail ==
    /\ DropTasks
    /\ IF RestartAllowed
       THEN job' = "DEPLOYING" /\ attempts' = attempts + 1
       ELSE job' = "FAILED" /\ attempts' = attempts

\* A TaskManager is killed.
TaskLost ==
    /\ job = "RUNNING"
    /\ Fail
    /\ conn' = FALSE
    /\ UNCHANGED <<kafkaVars, pg, events, completed>>

\* The sink logs the exception and goes on with the next element.
BugErrorSwallowed ==
    /\ job = "RUNNING" /\ ~conn
    /\ \E s \in Subtasks : inflight[s] # {}
    /\ inflight' = PerSubtask({})
    /\ ahead' = PerSubtask({})
    /\ UNCHANGED <<kafkaVars, pgVars, jobVars, pos, delivered, seen, dlq,
                   injected, ckPos, snapped, ckSeen, dlAhead>>

\* A record raises behind dedup: on the connection that was lost, which nothing
\* reconnects, or, on every replay, because of its own values.
SinkError ==
    /\ job = "RUNNING"
    /\ \E s \in Subtasks : \E id \in inflight[s] : conn => ~Storable(id)
    /\ Fail
    /\ UNCHANGED <<kafkaVars, pgVars, completed>>

BugLatestOffsets == [p \in Partitions |-> Len(raw[p])]
BugStateNotRestored == PerSubtask({})

\* Source position and dedup state a deployment starts from.
RestoredPos  == completed.pos
RestoredSeen == completed.seen

\* open() of every task; records in flight at the checkpoint are before the
\* barrier, so the channels restart empty.
Deploy ==
    /\ job = "DEPLOYING" /\ pg
    /\ job' = "RUNNING"
    /\ conn' = TRUE
    /\ pos' = RestoredPos
    /\ delivered' = [p \in Partitions |-> PerSubtask(RestoredPos[p])]
    /\ seen' = RestoredSeen
    /\ UNCHANGED <<kafkaVars, pg, events, attempts, completed, inflight, dlq, pendingVars>>

\* psycopg2.connect in open() raises: a deployment spent for nothing.
DeployError ==
    /\ job = "DEPLOYING" /\ ~pg
    /\ Fail
    /\ UNCHANGED <<kafkaVars, pgVars, completed>>

Cancel ==
    /\ job \in {"DEPLOYING", "RUNNING"}
    /\ job' = "CANCELED"
    /\ conn' = FALSE
    /\ DropTasks
    /\ UNCHANGED <<kafkaVars, pg, events, attempts, completed>>

\* make flink-job-submit: a new job without a savepoint, the same consumer group.
Submit ==
    /\ job \in {"FAILED", "CANCELED"}
    /\ job' = "DEPLOYING"
    /\ attempts' = 0
    /\ completed' = NoCheckpoint
    /\ UNCHANGED <<kafkaVars, pgVars, taskVars, pendingVars>>

\* Postgres stops.  A statement it was executing may have committed without
\* the sink hearing of it.
PgStop ==
    /\ pg
    /\ pg' = FALSE
    /\ conn' = FALSE
    /\ \/ events' = events
       \/ \E s \in Subtasks : \E id \in inflight[s] :
              conn /\ Storable(id) /\ events' = events \cup {id}
    /\ UNCHANGED <<kafkaVars, jobVars, taskVars, pendingVars>>

PgStart ==
    /\ ~pg
    /\ pg' = TRUE
    /\ UNCHANGED <<kafkaVars, conn, events, jobVars, taskVars, pendingVars>>

-----------------------------------------------------------------------------
Tasks ==
    \/ \E p \in Partitions : Read(p) \/ InjectBarrier(p)
    \/ \E p \in Partitions, s \in Subtasks : Deduplicate(p, s)
    \/ \E s \in Subtasks, id \in EventIds : SinkWrite(s, id)
    \/ \E p \in Partitions, id \in EventIds : DeliverDeadletter(p, id)
    \/ \E s \in Subtasks : Snapshot(s)
    \/ \E committed \in BOOLEAN : CompleteCheckpoint(committed)
    \/ SinkError

\* What strikes the pipeline from outside and is never owed to anyone.
Disruption == TaskLost \/ Cancel \/ PgStop

Next ==
    \/ \E id \in EventIds : Produce(id)
    \/ Tasks
    \/ \E s \in Subtasks, id \in EventIds : Expire(s, id)
    \/ Deploy \/ DeployError \/ Submit \/ PgStart
    \/ Disruption

Spec == Init /\ [][Next]_vars

\* A running job keeps working, a checkpoint triggered at one source reaches
\* them all, and Flink deploys a job it has accepted.  No fairness for the
\* producer, for triggering or completing checkpoints, for the TTL or faults.
Fairness ==
    /\ \A p \in Partitions : WF_vars(Read(p))
    /\ \A p \in Partitions, s \in Subtasks : WF_vars(Deduplicate(p, s))
    /\ \A s \in Subtasks, id \in EventIds : WF_vars(SinkWrite(s, id))
    /\ \A p \in Partitions, id \in EventIds : WF_vars(DeliverDeadletter(p, id))
    /\ \A p \in Partitions : WF_vars(injected # {} /\ InjectBarrier(p))
    /\ \A s \in Subtasks : WF_vars(Snapshot(s))
    /\ WF_vars(SinkError)
    /\ WF_vars(Deploy \/ DeployError)

FairSpec == Spec /\ Fairness

-----------------------------------------------------------------------------
(* Properties *)

\* Type invariant.
TypeOK ==
    /\ raw \in [Partitions -> Seq(EventIds)]
    /\ deadletters \subseteq EventIds
    /\ groupOffset \in [Partitions -> Nat]
    /\ pg \in BOOLEAN /\ conn \in BOOLEAN
    /\ events \subseteq EventIds
    /\ job \in JobStates
    /\ attempts \in 0..RestartAttempts
    /\ completed \in [pos : [Partitions -> Nat], seen : [Subtasks -> SUBSET EventIds]]
    /\ pos \in [Partitions -> Nat]
    /\ delivered \in [Partitions -> [Subtasks -> Nat]]
    /\ seen \in [Subtasks -> SUBSET EventIds]
    /\ inflight \in [Subtasks -> SUBSET EventIds]
    /\ dlq \in [Partitions -> SUBSET EventIds]
    /\ injected \subseteq Partitions
    /\ ckPos \in [Partitions -> Nat]
    /\ snapped \subseteq Subtasks
    /\ ckSeen \in [Subtasks -> SUBSET EventIds]
    /\ ahead \in [Subtasks -> SUBSET EventIds]
    /\ dlAhead \in [Partitions -> SUBSET EventIds]

\* id has left the pipeline on the side where it belongs.
Accounted(id) == IF id \in Valid THEN id \in events ELSE id \in deadletters

\* Every record before position offset[p] of every partition is accounted for.
AccountedUpTo(offset) ==
    \A p \in Partitions : \A i \in 1..offset[p] : Accounted(raw[p][i])

\* A checkpoint may only be restored if what it skips has left the pipeline:
\* the sinks are autocommitting and at-least-once, not transactional, so the
\* barrier passing them is all that makes a completed checkpoint, and the
\* consumer-group offset committed after it, safe to resume from.
CheckpointCovered ==
    AccountedUpTo(completed.pos) /\ AccountedUpTo(groupOffset)

\* No record that the source has read is lost inside the job, through any
\* sequence of restarts: it waits in a channel, sits in front of a sink, or
\* is accounted for.  In particular "seen" never swallows the only copy.
RecordsConserved ==
    \A p \in Partitions : \A i \in 1..pos[p] :
        LET id == raw[p][i] IN
        IF id \in Valid
        THEN \/ i \in Waiting(p, SubtaskOf[id])
             \/ id \in inflight[SubtaskOf[id]]
             \/ Accounted(id)
        ELSE id \in dlq[p] \/ Accounted(id)

\* The dedup state of a completed checkpoint is a cut consistent with its
\* offsets: an id it calls seen has a record before the position restored with
\* it.  Otherwise the replay would drop that record as its own duplicate, and
\* the windows downstream of dedup would never count it.
CheckpointConsistent ==
    \A s \in Subtasks : \A id \in completed.seen[s] :
        \E i \in 1..completed.pos[PartitionOf[id]] : raw[PartitionOf[id]][i] = id

\* An id that a completed checkpoint calls seen does not reach the sinks again:
\* within a submission only the TTL or work newer than the checkpoint lets
\* dedup pass an event twice.
NoRewriteAfterCheckpoint ==
    \A s \in Subtasks : inflight[s] \cap completed.seen[s] = {}

\* Ids with a record in transactions.raw.
Produced == UNION {{raw[p][i] : i \in 1..Len(raw[p])} : p \in Partitions}

\* The job implements the promise of EventLedger: only produced events settle,
\* each on its own side, and what has settled never disappears.
Ledger == INSTANCE EventLedger WITH produced <- Produced
LedgerSpec == Ledger!Spec

\* Every record produced is eventually accounted for unless the submission
\* ends: neither a crash between two steps, nor a barrier everyone waits for,
\* nor a Postgres connection lost for good leaves the job running and stuck.
EventuallyAccounted ==
    \A id \in EventIds :
        (id \in Produced) ~> (Accounted(id) \/ job \in {"FAILED", "CANCELED"})

\* Someone resubmits a stopped job, Postgres comes back, and disruptions cease.
Supervision == WF_vars(Submit) /\ WF_vars(PgStart) /\ <>[][~Disruption]_vars

\* Under supervision every produced record settles, however many submissions
\* failed before: a cold start from earliest() is what makes this true, and one
\* record that no attempt can store is enough to make it false.
SettlesUnderSupervision ==
    Supervision /\ [](Produced \cap Unstorable = {}) => Ledger!Liveness

\* docs/step9-failure-injection-matrix.md:129 expects of a job cancelled and
\* submitted again with its consumer group that "the same-group run should
\* resume": no deployment starts before the group's committed offsets.
ResumesFromGroupOffset ==
    [][Deploy => \A p \in Partitions : pos'[p] >= groupOffset[p]]_vars
=============================================================================
