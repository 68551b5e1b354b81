# A verification project for the real-time event-processing pipeline

The pipeline takes synthetic payment transactions from a generator, through
Kafka and a PyFlink job, into PostgreSQL, and serves them through a read-only
FastAPI service. This directory holds TLA+ models of the parts of it that have
behaviour worth checking, the TLC configurations that check them, and proofs
that TLAPS checks. Paths below are relative to the repository.

Run inside this directory:

    tlc -config MCJoin.cfg MCValidationDedup.tla      # one model-checking run
    tlapm ValidationDedupProofs.tla                   # one proof module

Every file `MCx.cfg` belongs to the `MC` module named in the table of runs.
`PROJECT.json` has the same information for tools: components, runs, mutants,
the source lines each definition stands for, findings, hazards, theorems.

## 1. Inventory

```
 transaction_generator --> transactions.raw (Kafka) --> Flink job
                                                         |  validation ---------> transactions.deadletter
                                                         |  dedup by event_id --> transactions.events
                                                         |     watermarks
                                                         |     lateness router -> transactions.late
                                                         |     10 s windows ----> transactions.window_aggregates
                                                         |     anomaly rules ---> transactions.anomalies
                                                         v
                                     PostgreSQL --> asyncpg pool --> FastAPI (keyset pages)
```

| Component | State | Operations | What is hard about it | What makes it correct |
|---|---|---|---|---|
| Transaction generator, `producers/transaction_generator/main.py` | per worker: buffered event, send in progress; shared: counters, deque of the last 10 000 events | make, buffer, send, duplicate, send ahead; deadline, report, interrupt | coroutines interleave at every await; a send may fail after the broker stored the record; `gather` raises with the others in flight | the final line accounts for the topic after a clean end; it never runs ahead of it; the generator ends |
| Exactly-once path, `flink/jobs/validation_dedup_job.py` 91-157, 337-388, 455-517 | topic position, `seen-event-id` with a ten-minute TTL, channels, dead-letter buffer, the pending and the last checkpoint; one autocommitting connection per sink | validate, dedup, upsert, dead-letter; barrier, snapshot, complete; fail, restart, deploy, cancel, submit | crash between any two steps, sinks outside the checkpoint, alignment of channels, a connection that is never reopened, a finite restart budget, submission without savepoint | nothing produced is lost, nothing else appears, checkpoints may be restored safely |
| Event time, same file 160-234, 391-417, 519-556 | per subtask: largest time, watermark, idleness; at the windows: watermark per channel, open windows; rows | route, emit, go idle, receive, fire, upsert; checkpoint, restore | one watermark per subtask but one minimum for the windows; idleness; no watermark in a checkpoint | an event is counted once or its drop is justified; quiet subtasks do not block |
| Anomaly rules, same file 237-303 | per user: timestamps of 60 s, last 256 amounts | process an event | events of a user arrive out of order; interpolation and bounds | state is exact; alerts are exact for ordered arrivals; amounts flagged are extreme |
| Anomalies sink, same file 420-441 | rows appended, without a key | insert | replays insert again, in another order | at least one row per alert; more only through what arrives after the latest checkpoint |
| Structural validation, same file 55-132 | none | verdict on a record | bool is an int, a string is no amount; the generator must mean the same | the structurally damaged records are rejected, no others |
| Postgres, `infrastructure/postgres` | events (key event_id), window_aggregates (key user_id, window_start), anomalies (serial) | upsert, insert, stop, start | outage with a statement whose commit the client never hears of | keys make replays harmless |
| Kafka topics, `infrastructure/kafka/topics.yml`, `scripts/apply-topics.sh` | partitions per topic | create, extend | extending moves keys to other partitions | not modelled (section 6) |
| API, pool, `api/db.py`, `api/main.py` 22-78 | slots of a bounded pool, requests | acquire in 2 s, connect, query, release, status | timeout against a slot that comes free, failure at each await, Postgres that hangs | no slot is leaked or shared; exhaustion fails fast |
| API, pages, `api/main.py` 65-157, `api/db.py` 57-163, `api/cursors.py` | the client's cursor, the table | first page, next page | rows inserted between pages, ties, an exactly full last page, cursors of another endpoint | no overlap, no skip, an end |
| API settings, `api/config.py` | none after startup | read the environment | nothing concurrent | not modelled |
| Harnesses, `scripts/step8-kill-test.sh`, `step11-benchmark.sh`, `step12-integration-test.sh`, `reconcile_event_ids.py` | counts of two polls, offsets, timestamps, copies of topics, the list of unaccounted ids | poll, stamp, copy, reconcile, judge | everything is read at another moment; equal polls pass for a drained pipeline; copies may be cut short | an id listed is missing, an empty list means nothing is |
| Containers, `docker-compose.yml`, `Makefile` | restart strategy | submit | attempts are cumulative | in ValidationDedup |

The components interact through Kafka records (generator to job), through
channels and barriers inside the job, through rows (job to API), and through
the operator, who cancels and resubmits.

## 2. Modules

| Module | Models |
|---|---|
| `EventLedger` | the promise: every produced id settles on its side, nothing else appears, nothing disappears |
| `ValidationDedup` | the exactly-once path; the core of the project |
| `AggregateLedger` | the promise behind dedup: one fate per event and one write per row, until a restore |
| `EventTimeWindows` | watermarks, lateness, windows, aggregate rows |
| `AnomalyRules` | both rules for one user, and the rows of their alerts |
| `TransactionGenerator` | the generator |
| `KeysetPagination` | walks over the pages of the API |
| `ConnectionPool` | the API's pool and the status of every outcome |
| `StructuralValidation` | the validator's verdict and the generator's records, as operators |
| `IntegrationRun` | the three harnesses beside the pipeline, of which they see `EventLedger` |
| `MC...` | finite instances of the module after MC |
| `ValidationDedupProofs` | every safety property of the exactly-once path; it implements EventLedger |
| `EventTimeWindowsProofs` | every safety property of the windows; they implement AggregateLedger |
| `AnomalyRulesProofs` | every safety property of the rules and of their rows |
| `TransactionGeneratorProofs` | every safety property of the generator |
| `KeysetPaginationProofs` | every safety property of the walks |
| `ConnectionPoolProofs` | TypeOK, SlotsConserved |
| `IntegrationRunProofs` | every property of the harnesses |
| `OrderLemmas` | least and minimal elements of sets, the first n of a finite order, images of finite sets |

Each module with behaviour has operators named `Bug...`: what a plausible
mistake would make of the definition that follows. No action uses them; they
are substituted, one at a time, to see that a property notices.

### ValidationDedup

The state is what Kafka, Postgres, the JobManager and the tasks each hold, so
that a failure can take the tasks' part away and leave the rest. A channel
from the source to a dedup subtask is a pair of indices into the topic
(`delivered[p][s]` and `pos[p]`): its contents follow from the topic, as they
do after a replay. The order of the steps is the code's: `seen` is updated
before the record is passed on (`Deduplicate`), the row is written later by the
sink (`SinkWrite`), the checkpoint only waits for the statements before the
barrier (`BarrierThroughSinks`). Every checkpoint step is separate, so a crash
can fall between the barrier at one source and at the next, between a subtask's
snapshot and the sink's acknowledgment, and between completion and the offset
commit. A failed task brings down the whole job (one region) and uses up an
attempt; an attempt to deploy during a Postgres outage is spent as well.
`Submit` is the Makefile's target: no savepoint, the same consumer group.

`Unstorable` are valid ids whose values a cast of the insert rejects
(`validation_dedup_job.py:371`): `SinkWrite` is not enabled for them and
`SinkError` always is, so their task fails on every attempt until none is left.
A record that only the event-time parser rejects fails its task in the same way;
its row may have been written before, which the model leaves out.

Modelled with it, external to `src/`: Flink's aligned barriers, its fixed-delay
strategy whose count lasts as long as the submission, KafkaSource's offset
commit on completion, which a failure may prevent. An interval between two
checkpoints, the retries inside Kafka clients, and the parallelism of the sinks
are abstracted: any step may come at any time.

### EventTimeWindows

The strategy is attached behind dedup (`validation_dedup_job.py:523`), so
watermark and idleness are per dedup subtask and fed by every partition. The
router reads that watermark; the windows take the minimum over the subtasks'
channels by the rules of Flink's StatusWatermarkValve, including the flush when
the last channel goes idle and the alignment of one that comes back. A subtask
keeps an offset into each partition's records; what it has yet to see, or has
processed, are sets of offsets (`Unread`, `Processed`), which is what the job
restores and what can be reasoned about. `TopicAssumption` says what dedup in
front of it guarantees: an id has one offset in one partition. No
`allowed_lateness` is set, so firing and purging coincide. A checkpoint is taken
at a consistent cut, to which every aligned checkpoint is equivalent; it holds
positions and windows, not watermarks. `counted` and `dropped` are history.

### AnomalyRules

The module keeps the list of arrivals the state stands for as a ghost variable
and rolls it back on a restore, so that the rules can be compared with what they
would say of that list. The operator's state is given by what it is of that list:
the timestamps as a set of times with the place of their event, since the rule
only filters and counts them, the amounts as a sequence, the last 256. Percentiles
are kept a hundredfold, so the interpolation stays in integers, and the sorted
list is defined by its order statistics: its i-th value is the one that fewer
than i amounts are under and at least i are at or under.

An alert goes from the operator to the sink's channel (`unwritten`) and from
there to a row; `rows` counts, since the insert has no key. A checkpoint waits
for the channel to be empty. The job starts again in two ways, both `Restart`
with a state: `Restore` with that of the submission's latest checkpoint, and
`Submit` with none, since `make flink-job-submit` names no savepoint and the
source starts at `earliest()`. Either empties the channel, keeps the rows, and
lets the events behind the state come again (`replay`) in any order: the user's
events meet from several dedup subtasks.

An event is a record, with an offset of its own and an event_id. Once the ten
minutes of the dedup state are over a copy of an event passes (`ArriveCopy`): it
has the id and payload of the first and another offset, counts for both rules,
and its alert appends a row for an id that may have one. An event that dedup
drops when it comes again is one that stays in `replay`.

`RowsFinalAfterCheckpoint` is about records, not ids, and about one submission: a
row is only added for the alert of an arrival whose offset no checkpoint of the
running submission covers. Rows of an id that a checkpoint covers do repeat, by
a copy that arrives later and by a resubmission, which
docs/step9-failure-injection-matrix.md:131 expects to be counted as "diagnostic
append duplicates"; the property says that there is no third way.

### IntegrationRun and StructuralValidation

The scripts run beside the pipeline and only read it, so the pipeline here is
what it promises, the actions of `EventLedger`, at any pace: that the detailed
job implements them is the theorem `ImplementsLedger`. `harness` chooses the
script; all three take the same way through `phase` and differ in what they
start behind (the integration test resets the topics, a benchmark level finds
the records of the one before), whether they poll or sleep, what ends them, and
which rows they count. Every read is a step of its own: the raw offsets of a poll
and its count of rows, the instants, the copies of the topics, the
reconciliation. An instant is the set of rows present then, because
`received_at` is written once per row. A copy is any part of its range: the
console consumer may time out, and `|| true` hides it. The raw range of a run is
what the producer sent after `raw-before.offsets`; the ids it draws are not
those of another level.

`StructuralValidation` gives a record as a function from the fields present to
the Python type of their values. The verdict runs through the required fields in
their order; the generator's `_make_malformed` supplies the records.
`DamageOf` says in `IntegrationRun` what the generator did to each event, and
`Valid` of the ledger is what the validator makes of it.

### TransactionGenerator, KeysetPagination, ConnectionPool

`TransactionGenerator` has one action for each stretch between awaits. The
broker's append is an action of its own: a failure can fall on either side.
`gather` raising cancels no worker: the others go on
through the awaits of `finally`, until the final line.

`KeysetPagination` has one action per SELECT and all four endpoints. Cursors are
sequences of values with the text form each part is written in, and decoding is
by form. A cursor of another table is refused; `/users/{id}/anomalies` and
`/anomalies` decode the same types and take each other's (`NextPage(e, f)`: the
walk begun at `e` asks `f`). A walk is therefore judged by what every endpoint
it has asked selects (`base`): those rows it returns, each once, and it never
returns a row of another table (TypeOK). `KeysAssumption` is what the primary
keys give: the rows an endpoint selects have different keys in its order.

`ConnectionPool` follows one request per process through acquire, connect and
query; asyncpg's queue is a set, because nothing in the code depends on its order.
Asyncpg resets a connection when it is released; that round trip counts as the
end of the query, which can hang or be cut short in the same ways.

## 3. Runs

| Run (cfg) | Module | Result | Shows |
|---|---|---|---|
| MCJoin | MCValidationDedup | pass | two channels into one subtask: TypeOK, CheckpointCovered, RecordsConserved, CheckpointConsistent, NoRewriteAfterCheckpoint |
| MCSplit | MCValidationDedup | pass | two subtasks, an invalid record and one that cannot be stored: CheckpointCovered, refinement of EventLedger (LedgerSpec), EventuallyAccounted: a submission settles everything or ends, SettlesUnderSupervision: with resubmission, everything settles |
| MCResume | MCValidationDedup | violation | a resubmission does not resume from the group's offsets |
| MCWindows | MCEventTimeWindows | pass | through a crash: EventsConserved, NoDoubleCount, DropsAreJustified, refinement of AggregateLedger (AggregateSpec); until a crash: FatesExclusive, QuietSubtaskDoesNotBlock |
| MCWindowsRows | MCEventTimeWindows | violation | a restored job may overwrite a row with a smaller count (RowsKeepCounted) |
| MCWindowsAllowance | MCEventTimeWindows | violation | an event within the 45 s allowance may be dropped (AllowedLateIsCounted) |
| MCRules | MCAnomalyRules | pass | through disorder, copies, recoveries and submissions: VelocityStateIsExact, BurstsFoundInOrder, AmountAlertsAreExtreme; of the rows: AlertsHaveRows, RowsFinalAfterCheckpoint |
| MCVelocityDisorder | MCAnomalyRules | violation | an alert without a burst, after disorder (VelocityAlertIsABurst) |
| MCGenerator | MCTransactionGenerator | pass | CleanReportReconciles, CounterTracksTopic, DeadlineEnds |
| MCPages | MCKeysetPagination | pass | TypeOK, WalkIsComplete, PagesDoNotOverlap, WalkEnds, also for walks between the anomaly endpoints |
| MCPool | MCConnectionPool | pass | SlotsConserved, NobodyQueues, AnswersUnlessHung |
| MCDrain | MCIntegrationRun | pass | UnaccountedIsReal, NothingListedMeansSettled, SteadyMeansQuiet, DamageDecidesFate |

The four violations are disagreements between the repository's own words and
its code. Each is listed with the sentence it contradicts under `findings`.
`earliest()` means that a cancelled and resubmitted job replays the whole topic
where a document expects it to resume. The aggregates upsert is idempotent for
one firing, but a restored job can fire the same window with less in it. The
45-second allowance exists in the router only. The velocity rule counts events
on both sides of a late one.

Read from the code on the way, without a run: the router measures lateness from
the event and not from the end of its window; after an unacknowledged send the
generator's final `sent` can be short of the topic (CounterTracksTopic bounds
the gap by one record per worker, CleanReportReconciles speaks of a clean end);
`out_of_order` counts every send ahead of the buffered event, also one whose
drawn lateness makes it the older of the two; the integration test logs that its
correctness run passed (`step12-integration-test.sh:39`) without looking at the
reconciliation, which exits with 0 whatever it finds; a copy of a topic can be
shorter than "precisely that offset range" (docs/step8-exactly-once-kill-test.md:29); an
id listed as unaccounted may still be on its way, since equal polls do not tell a
drained pipeline from one that is restarting; a replay in another order can leave
an anomaly row for an event that the replayed rules no longer flag.

### Bounds, and why they are enough

* **ValidationDedup.** `MaxLen` bounds the records of a partition, so every
  run is finite; `RestartAttempts = 1` reaches both outcomes of a failure.
  MCJoin: two partitions with up to two records each give a barrier that has
  arrived on one channel and not on the other, with records behind it, a
  duplicate on each channel, and a dead letter on one of them that a barrier
  overtakes unless the sink is flushed. MCSplit: one partition of two records for
  two subtasks gives two snapshots of one checkpoint; its ids are two valid ones,
  one invalid and one unstorable, so either record may meet any fate.
  Submissions are unbounded: attempts start over.
* **EventTimeWindows.** `WindowSize` 2, `OutOfOrderness` 1 and
  `AllowedLateness` 3 keep the order of 10 s, 50 ms and 45 s: allowance longer
  than a window, bound shorter. Four events of two users are early, in order,
  late for their window and late for the router; one user's events go through
  both subtasks. `MaxRestarts = 1`: the state a restart leaves is that of an
  older position, from which a second one meets nothing new. A checkpoint is
  taken only while a restart may still follow, since only a restart reads it.
* **AnomalyRules.** Window 1, threshold 2, warm-up 2 and history 2 are small
  enough that four events cross each of them, over three times (within, at, and
  beyond the window of each other) and three amounts, in three payloads;
  Percent = 60 makes the interpolation fall between ranks. Two restarts
  (`MaxRestarts`), each a restore or a submission, after any number of
  checkpoints: a recovery before and after a submission, and a checkpoint taken
  during a replay. Four records (`MaxEvents`) include copies of any of them. The
  run about disorder needs neither restart nor copy.
* **TransactionGenerator.** Two workers, three events, three records, a deque of
  two: a duplicate of the other worker's event and one pushed out of the deque.
* **KeysetPagination.** Limit 2 with two and three selected rows: a full last
  page, a short one, ties across a page border. The anomalies of two users, of
  which one endpoint selects one and the other both, with the other user's row
  between the two: a walk that changes meets rows it must and rows it may return.
* **ConnectionPool.** Three requests at a time for two slots.
* **IntegrationRun.** `StableRounds` is the scripts' 3 and `MaxPolls` 5, so the
  loop ends by rounds, by its deadline after any number of polls, and after a
  restart of the count. Three records (`MaxRecords`) of an event as built, one
  with a value changed and one damaged, behind a topic that is empty or holds two
  records of an earlier level.

The runs of the generator, of the windows, of the anomaly rules, of the pages and
of the harnesses end (deadline, a finite topic, a finite table, the end of a
script), so they set `CHECK_DEADLOCK FALSE`; in the others
TLC checks that the system can always go on.

### Fairness

* `ValidationDedup!Fairness`: tasks of a running job process what they have, a
  barrier that one source emitted is emitted by all (the coordinator triggers
  every source), Flink deploys a job it has accepted, and an exception takes
  effect. Nothing is assumed of the producer, the triggering or completion of
  checkpoints, the TTL, or faults. EventuallyAccounted therefore allows that the
  submission ends.
* `Supervision`, the hypothesis of SettlesUnderSupervision: someone resubmits,
  Postgres returns, and disruptions cease. The code does not do this; docs/step9
  says an operator has to. The property says what they get for it, as long as
  no record is one that no attempt can store.
* `EventTimeWindows`: tasks run, the periodic emit fires, idleness is detected.
* `TransactionGenerator`: time passes, and aiokafka answers a send with an
  acknowledgment or an error (it has a delivery timeout).
* `KeysetPagination`: a client that began a walk goes on.
* `ConnectionPool`: the event loop runs what is ready, timers included. Not that
  Postgres comes back: AnswersUnlessHung only excludes one that hangs for good.
* `IntegrationRun` has no fairness: its properties are about safety, for a
  pipeline that may stop at any moment.

## 4. Proofs

All theorems hold for every value of the constants that satisfies the `ASSUME`
of the module, and all of them are about `Spec`, without fairness. Every state
and action property that a passing run checks is stated by a theorem, and so are
the two refinements.

The assumptions say what the constants are (finite sets of workers or subtasks,
sizes that are numbers) and, where a proof rests on it, what the code guarantees
of its input: `ConstantsAssumption` gives an id one partition (the producer's
key), `TopicAssumption` gives what passes dedup one offset, `KeysAssumption`
gives the rows of an endpoint different keys (primary keys). TLC evaluates each
on the instances of the runs.

### Exactly-once path (`ValidationDedupProofs`)

**TypeCorrect** (`Spec => []TypeOK`) is inductive by itself. Its only
arithmetical content is the restart budget.

**CheckpointsCovered** and **NothingLost**. Neither property is inductive. A
checkpoint becomes complete long after its position was chosen, so one has to
know of the pending checkpoint what must be true when it completes. `IInv`
says, besides the type invariant:

* `AllKept`: a record read and not yet accounted for is on its channel or in
  front of its sink, for each partition on its own;
* `InBounds`: positions are within the topic, `delivered` is behind `pos`;
* `QuietWhenStopped`: a job that is not running has no tasks' state;
* `SeenCarried`: an id in the dedup state is in front of the sink or has its
  row. This is what makes it safe that `seen` is updated first, and it must be
  said of the restored state as well, of `ckSeen` and of `completed.seen`;
* `DeadlettersAhead`, `EventsAhead`: of a pending checkpoint, what is before the
  barrier and not accounted for is in `dlAhead` or `ahead`, the sets that
  `BarrierThroughSinks` waits for;
* `CheckpointCovered` itself, which a restart needs: what it skips is done.

`RawGrows` and `SinksGrow` (nothing is taken out of the topic, the table, or the
dead letters) are the lemmas every step rests on. The step is proved action by
action.

**SeenIsNotRewritten** adds that, from the completion of a checkpoint on, an id
in its dedup state is in the current state too or the state has been dropped,
so dedup stops it (`Fresh`, per subtask); expiry removes it from both.
**CheckpointsAreCuts** is the theorem about alignment: until a subtask has
snapshotted, what it has seen from a partition whose barrier was emitted lies
before that barrier, because the channel waits (`Cut`, per subtask). It uses
that an id has one partition (`Placed`).

**ImplementsLedger** (`Spec => LedgerSpec`): under the mapping
`produced <- Produced`, Produce is a Publish or a stutter, SinkWrite and an
outage that commits a statement are Land, DeliverDeadletter is DeadLetter, and
everything else stutters. The invariant `Sound` supplies what the
mapping needs: only produced ids are in front of a sink, valid ones of the
events sink and the others of the dead-letter sink.

### Event time (`EventTimeWindowsProofs`)

One invariant carries **NothingDisappears**, **NothingCountedTwice**,
**OneFate**, **NoDropOnJitter** and **KeepsPromise**. Its parts:

* `Carried`: a channel carries events its subtask has read, each once. So an
  event taken off a channel is on no other, and in no window (`Apart`);
* `HoldsRead`, of the job and of the checkpoint: a window holds its own events,
  and none that is still to be read. This is what "offsets and windows are
  restored together" means, and why a replay counts nothing twice;
* `Kept` and `SavedKept`: EventsConserved, of the job and of what a restart would
  make of it;
* `OpenAhead`, `RowsClosed`: the watermark separates the windows that are open
  from those that have a row (the latter only until a restart, since
  watermarks start over);
* `SettledRead`: until a restart what has a fate is not read again;
* `Earned`, `Reached`: every watermark, at a subtask, on a channel, at the
  windows, goes back to an event some subtask processed. A window that is closed
  was therefore passed by an event, by more than the bound.

The steps are first sorted into five kinds by what they do to the events
(`StepKinds`: routed, taken off a channel, windows moved, saved, restored), so
the rules of the valve are looked at once (`Received`): whatever it does, the
operator's watermark stays or advances to that of some channel. That the minimum
of the watermarks is one of them is `LeastInt` of `OrderLemmas`.

**KeepsPromise** (`Spec => AggregateSpec`): under `aggregates <- row`,
`recovered <- restarts > 0`, routing to the side output is a Divert, dropping a
Drop, an advance of the watermark a Fire, a restart a Recover, and the rest
stutters. That a window fires only once before a restart is `OpenAhead` with
`RowsClosed`; that an event in front of its fate is undecided is `SettledRead`
with `FatesExclusive`. `RowsCounted` (what a row holds has been counted) is the
one fact added.

### Anomaly rules (`AnomalyRulesProofs`)

* **VelocityExact**: the kept times are those of the events that no later
  arrival has outrun by more than the window, in whatever order they came. The
  invariant says the same of the saved state, and that the amounts are the last
  `HistoryLimit` of the arrivals. The empty state of a submission satisfies it
  too (`NothingExact`), so `RestartStep` covers both ways to start.
* **AlertsKept**, **RowsFinal**: the invariant adds that records have offsets of
  their own, also across a replay (`Numbered`), that a checkpoint covers a prefix
  of the arrivals whose alerts all have rows (`SavedIsPrefix`, `SavedHaveRows`),
  and that what is in front of the sink belongs to arrivals behind it
  (`UnwrittenAreNew`): whatever happens to be replayed or copied, the row that is
  added next has such an arrival.
* **BurstsFound**: in event-time order the surviving times are those of the last
  window, so their number is that of the events in it.
* **AmountsExtreme**: about the interpolated percentile. `SortedList` shows that
  the order statistics define a sorted list, `PercentileBetween` that the
  percentile lies between the values of its two nearest ranks, and `RankOfAmount`
  turns a comparison with it into a count of amounts.

### Transaction generator (`TransactionGeneratorProofs`)

**CounterIsClose**, for finitely many workers: the topic is ahead of the counter
by exactly the records that are in it without having been acknowledged
(`Balanced`), of which every worker has at most one, because it awaits each send.

**CleanReport** is about a run that ends well, and none of its four equations is
inductive. Until a worker fails, `Accounted` says where every event is: in the
topic, or owed to it by one worker, once (`HeldOnce`), as the event it is sending
or the one that is buffered or will be. The events made have the ids 1 to `made`
(`Identified`), `madeLate` counts the late ones among them, and a record of the
topic is a first copy, a counted duplicate, or a duplicate about to be counted
(`CopiesCounted`). When every worker is done none owes anything, so the topic
holds what was made. `ReportIsFinal` adds that nothing runs after the final line.
With a failure the account is lost, because the event in the failed send may be
nowhere: that is why the property speaks of a clean end.

### Pages (`KeysetPaginationProofs`)

**NothingSkipped**, **NothingTwice**. The keys of a table's rows
are in a strict total order (`LowerIsStrict`, `LowerIsTotal`, from
`KeysAssumption`), so a page is its top segment (`FirstOnes` of `OrderLemmas`) and
the last row of a page is the lowest in it. `WalkWellFormed` says that the cursor
of a walk is that of a row of its table and that nothing returned is below
it; with it every row the walk owes has been returned or is
below the cursor, whatever is inserted in between and whichever endpoint
answers. That a cursor leads back to its key (`CursorFacts`) is proved of the
encoding, per form of its parts; that an endpoint which takes it reads the same
table (`AcceptedInTable`) is what keeps a walk where it is. **WalkGoesOn** is the
other half: the endpoint a walk began at never refuses its cursor, so `NextPage`
is possible as long as the client asks.

### Pool (`ConnectionPoolProofs`)

**PoolConserved**: SlotsConserved with TypeOK is inductive; every exit from a
request goes through `Respond`.

### Harnesses (`IntegrationRunProofs`)

**NoFalseAlarm**, **NoFalseComfort**, **EqualPollsAreQuiet**, for
any events, backlog, number of rounds and length of run; the constant assumption
is that the ids are finitely many, so that rows can be counted. None of the
three is inductive, as each speaks of the end of a run about its middle. `IInv`
adds to the type invariant:

* `PollsInOrder`: while a poll is under way the offsets it read are still those
  of the topic, and the last count is of no more rows than there are. Rows are
  never taken away, so an equal count means an equal set; if nothing has come
  since the count, the equal polls in a row were quiet;
* `SentBefore`: what has settled was sent, and the ids of this run are not those
  of the records before it. Without it a row of an earlier level could hide a
  missing one;
* `EvidenceKept`: rows received by `start` are of earlier records, those settled
  when the loop was left are dead letters or in `drain_end`, and a reconciliation
  lists exactly what neither copy accounts for.

**DamageAloneDecides** rests on `GeneratorAndValidatorAgree`, a lemma about the
operators alone: over all damages, the validator accepts a record of the
generator if and only if it was not damaged structurally.

### Left to TLC

* Everything under fairness: EventuallyAccounted, SettlesUnderSupervision,
  QuietSubtaskDoesNotBlock, DeadlineEnds, WalkEnds, NobodyQueues,
  AnswersUnlessHung. The prover reasons neither about liveness under fairness nor
  about ENABLED.
* The four violations, which are counterexamples.
* Nothing here needs induction over data. Least elements of sets, first segments
  of orders and finite images are proved in `OrderLemmas` from the well-foundedness
  of the natural numbers, with the size of a set or the number of elements in front
  of another as the measure. Operators that tlapm knows nothing about (SelectSeq,
  SortSeq) do not occur in the modules with proofs: a filtered stream is a set
  of offsets, a sorted list is given by its order statistics.

## 5. Hazards

`PROJECT.json` lists each at its line with the properties that would catch it.
Those without a property, and why: the counter of inversions of
the generator (nothing reads it), the 500 for errors that are not PostgresErrors
(modelled, nothing claims otherwise), a partition count that grows (below), and
the verdict of the integration test, which looks at no result a property could
speak of.

## 6. Not modelled, and why

* The contents of payloads, JSON, base64, response models, logging: no property
  is about them. Text that is not JSON, or no object, is an id outside `Valid`.
* `api/config.py`, the DDL, container images: executed once, sequentially.
* A growing partition count (`apply-topics.sh:65`): what it does depends on the
  partitioner of the producer and on partition discovery in the source, which
  the repository leaves to defaults. The partition of an id is a constant, and
  the proofs of the core rest on it.
* Of `scripts/`: latency percentiles and checkpoint metrics (`step11_metrics.py`),
  the report (`step12-analyze.py`) and the single assertions of
  `step12-validate-api.py` compute figures from what the harnesses collected and
  change nothing. The recovery scenario of the benchmark kills a TaskManager,
  which is `TaskLost` of ValidationDedup, and then drains by the modelled rule.
* Kafka outages: their effect on the job is the task failure in which they end
  (`TaskLost`), on the generator the failed send.
* Several windows that one watermark closes fire in one step of
  `EventTimeWindows` (`Advance`), and one window subtask stands for the two of
  the job, each of which would take its own minimum over the same channels. In
  between nothing else happens to the windows concerned; a crash between two
  upserts leaves one that the replay repeats.
* `EventTimeWindows` is about one submission, and an event_id is one event there
  (`TopicAssumption`): a copy that passes dedup after its TTL counts as an event
  of its own, with another id. What copies and submissions do to tables is in
  ValidationDedup and AnomalyRules.
* A backlog in `IntegrationRun` is one of a few logs (`Backlog`), empty or of two
  records in the run and any in the proofs.
* Clocks: TTL, idleness, timeouts and restart delay may happen at any moment the
  code allows, which includes every timing.

## 7. Plan

Written in this order, most important first: ValidationDedup with EventLedger,
EventTimeWindows, AnomalyRules, TransactionGenerator, KeysetPagination,
ConnectionPool; proofs of the core and of the pool; then records that cannot be
stored, the anomalies sink under replay, StructuralValidation, IntegrationRun
over EventLedger, and the proofs about it; then the proofs of every other safety
property, and AggregateLedger. Next:

1. Abstract specifications of a walk (the rows of its start, in order, each once)
   and of the pool (a counting semaphore with a deadline), and their refinements.
2. Several users in AnomalyRules and the path of an alert to the API's pages.
