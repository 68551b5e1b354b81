--------------------------- MODULE IntegrationRun ---------------------------
(***************************************************************************)
(* A measured run of the whole pipeline: scripts/step12-integration-test.sh *)
(* and one level of scripts/step11-benchmark.sh, which share the drain      *)
(* rule and the reconciliation, or scripts/step8-kill-test.sh, which sleeps *)
(* instead of polling.  The script runs beside the pipeline and only sees   *)
(* it through counts, offsets, timestamps and copies read one after the     *)
(* other.                                                                   *)
(*                                                                          *)
(* The pipeline is EventLedger, which ValidationDedup implements: whatever  *)
(* the job does, ids land or are dead-lettered in any order, at any time    *)
(* or, while it is down or out of restarts, never.  A set of rows stands    *)
(* for a timestamp: received_at is given to a row once, when it is          *)
(* inserted, so the rows received by an instant are those present then.     *)
(*                                                                          *)
(* Operators named Bug... are plausible mistakes, as in ValidationDedup.    *)
(***************************************************************************)
EXTENDS Integers, Sequences, FiniteSets, StructuralValidation

CONSTANTS
    EventIds,       \* event_id values
    DamageOf,       \* DamageOf[id]: what the generator does to the event
    Backlog,        \* logs an earlier level may have left in transactions.raw
    StableRounds,   \* 3, as in stable >= 3
    MaxPolls,       \* most polls before the deadline: TIMEOUT / POLL
    MaxRecords      \* bound: records the producer sends, repeats included

Damaged == {id \in EventIds : DamageOf[id] \in StructuralDamage}

ASSUME RunAssumption ==
    /\ IsFiniteSet(EventIds)
    /\ DamageOf \in [EventIds -> Damages]
    /\ Backlog \subseteq Seq(EventIds)
    /\ StableRounds \in Nat \ {0} /\ MaxPolls \in Nat \ {0} /\ MaxRecords \in Nat

VARIABLES
    harness,       \* which script runs
    phase,         \* how far it is
    raw,           \* transactions.raw, all partitions as one log
    events,        \* primary keys of transactions.events
    deadletters,   \* ids in transactions.deadletter
    rawBefore,     \* raw-before.offsets
    rowsAt,        \* rows received by start, end and drain_end
    nowRaw,        \* raw total of the poll under way, -1 between polls
    previous,      \* <<raw, pg>> of the poll before
    stable, polls, \* equal polls in a row; polls so far
    copied,        \* ids in raw-events.jsonl and deadletters.jsonl
    unaccounted,   \* unaccounted_ids of reconciliation.json
    quiet,         \* ghost: polls ended since a record was appended or a row landed
    settledBy      \* ghost: ids settled when the drain loop was left

pipeline == <<raw, events, deadletters>>
drain    == <<nowRaw, previous, stable, polls>>
evidence == <<rawBefore, rowsAt, copied, unaccounted>>
vars == <<harness, phase, pipeline, drain, evidence, quiet, settledBy>>

IdsFrom(offset) == {raw[i] : i \in (offset + 1)..Len(raw)}

ValidIds == {id \in EventIds : Accepted(Generated(DamageOf[id]))}

Ledger == INSTANCE EventLedger WITH produced <- IdsFrom(0), Valid <- ValidIds

Harnesses == {"integration", "benchmark", "kill_test"}
Phases == {"prepared", "live", "drain", "left", "ended", "copied", "reconciled",
           "passed", "reported", "failed"}
Instants == {"start", "end", "drain_end"}

\* The integration test starts behind step12-reset-kafka-backlog.sh, with empty
\* topics; the others start behind whatever a level before left.
Init ==
    /\ harness \in Harnesses
    /\ phase = "prepared"
    /\ raw \in {<<>>} \cup IF harness # "integration" THEN Backlog ELSE {}
    /\ events = {} /\ deadletters = {}
    /\ rawBefore = 0
    /\ rowsAt = [instant \in Instants |-> {}]
    /\ nowRaw = -1 /\ previous = <<-1, -1>> /\ stable = 0 /\ polls = 0
    /\ copied = [raw |-> {}, dead |-> {}]
    /\ unaccounted = {}
    /\ quiet = 0
    /\ settledBy = {}

-----------------------------------------------------------------------------
(* The pipeline *)

\* The generator sends an event, or one it sent before once more.
Send(id) ==
    /\ phase = "live"
    /\ id \notin IdsFrom(0) \ IdsFrom(rawBefore)
    /\ Len(raw) < rawBefore + MaxRecords
    /\ raw' = Append(raw, id)
    /\ Ledger!Publish(id)
    /\ quiet' = 0

\* A row or a dead letter appears; the drain rule does not look at the latter.
Settle(id) ==
    /\ UNCHANGED raw
    /\ \/ id \notin events /\ Ledger!Land(id) /\ quiet' = 0
       \/ id \notin deadletters /\ Ledger!DeadLetter(id) /\ UNCHANGED quiet

Pipeline ==
    /\ \E id \in EventIds : Send(id) \/ Settle(id)
    /\ UNCHANGED <<harness, phase, drain, evidence, settledBy>>

-----------------------------------------------------------------------------
(* The script *)

Stamp(instant) == rowsAt' = [rowsAt EXCEPT ![instant] = events]

\* raw-before.offsets and start, then the producer is started.
RecordStart ==
    /\ phase = "prepared"
    /\ phase' = "live"
    /\ rawBefore' = Len(raw)
    /\ Stamp("start")
    /\ UNCHANGED <<harness, pipeline, drain, copied, unaccounted, quiet, settledBy>>

\* wait "$producer": the benchmark goes on although the producer failed.
ProducerExits ==
    /\ phase = "live"
    /\ phase' \in {"drain"} \cup IF harness # "benchmark" THEN {"failed"} ELSE {}
    /\ Stamp("end")
    /\ UNCHANGED <<harness, pipeline, drain, rawBefore, copied, unaccounted, quiet, settledBy>>

BugSteadyOffByOne == stable > StableRounds

Steady == stable >= StableRounds

\* One poll reads the raw offsets first ...
PollRaw ==
    /\ phase = "drain" /\ harness # "kill_test"
    /\ nowRaw = -1 /\ ~Steady /\ polls < MaxPolls
    /\ nowRaw' = Len(raw)
    /\ UNCHANGED <<harness, phase, pipeline, previous, stable, polls, evidence, quiet, settledBy>>

BugOnlyRawCompared(pg) == nowRaw = previous[1]

SameAsBefore(pg) == previous = <<nowRaw, pg>>

\* ... and counts the rows of transactions.events later.
PollPg ==
    LET pg == Cardinality(events) IN
    /\ phase = "drain" /\ nowRaw # -1
    /\ stable' = IF SameAsBefore(pg) THEN stable + 1 ELSE 0
    /\ previous' = <<nowRaw, pg>>
    /\ nowRaw' = -1
    /\ polls' = polls + 1
    /\ quiet' = quiet + 1
    /\ UNCHANGED <<harness, phase, pipeline, evidence, settledBy>>

\* The loop is left when the counts are steady or the deadline has passed, after
\* any number of polls since a poll takes its time; the kill test has slept 45
\* seconds, during which anything may have happened.
LeaveDrain ==
    /\ phase = "drain" /\ nowRaw = -1
    /\ polls > 0 \/ harness = "kill_test"
    /\ phase' = "left"
    /\ settledBy' = events \cup deadletters
    /\ UNCHANGED <<harness, pipeline, drain, evidence, quiet>>

\* drain_end, "end" in the integration test, which gives up unless steady.
RecordDrainEnd ==
    /\ phase = "left"
    /\ phase' = IF harness = "integration" /\ ~Steady THEN "failed" ELSE "ended"
    /\ Stamp("drain_end")
    /\ UNCHANGED <<harness, pipeline, drain, rawBefore, copied, unaccounted, quiet, settledBy>>

BugRangeOffByOne == IdsFrom(rawBefore + 1)

RawRange == IdsFrom(rawBefore)

\* The after offsets and copy_raw: a console consumer that times out leaves a
\* shorter copy, and "|| true" lets it pass.
CopyTopics ==
    /\ phase = "ended"
    /\ phase' = "copied"
    /\ \E rawIds \in SUBSET RawRange, deadIds \in SUBSET deadletters :
          copied' = [raw |-> rawIds, dead |-> deadIds]
    /\ UNCHANGED <<harness, pipeline, drain, rawBefore, rowsAt, unaccounted, quiet, settledBy>>

BugReceivedUntilEnd == rowsAt["end"] \ rowsAt["start"]

\* events.ids: received_at between start and drain_end.  The kill test takes all
\* rows there are when it asks.
Received ==
    IF harness = "kill_test" THEN events ELSE rowsAt["drain_end"] \ rowsAt["start"]

\* reconcile_event_ids.py writes its result and exits with 0 whatever it is.
Reconcile ==
    /\ phase = "copied"
    /\ phase' = "reconciled"
    /\ unaccounted' = (copied.raw \ Received) \ copied.dead
    /\ UNCHANGED <<harness, pipeline, drain, rawBefore, rowsAt, copied, quiet, settledBy>>

\* step12-validate-api.py needs a row and an anomaly received during the run and
\* compares the API's answers with the database; its other outcomes are open.
ValidateApi ==
    /\ phase = "reconciled" /\ harness = "integration"
    /\ phase' \in {"failed"} \cup IF Received # {} THEN {"passed"} ELSE {}
    /\ UNCHANGED <<harness, pipeline, drain, evidence, quiet, settledBy>>

\* step11_metrics.py reports the level with its steady_state flag, the kill test
\* its ids; neither decides anything.
Report ==
    /\ phase = "reconciled" /\ harness # "integration"
    /\ phase' = "reported"
    /\ UNCHANGED <<harness, pipeline, drain, evidence, quiet, settledBy>>

\* set -e: a poll, a copy, a query or a report that fails ends the script, except
\* in the arguments of the printf that logs the integration test's live polls.
CommandFails ==
    /\ \/ phase \in {"drain", "ended", "copied"}
       \/ phase \in {"live", "reconciled"} /\ harness # "integration"
    /\ phase' = "failed"
    /\ UNCHANGED <<harness, pipeline, drain, evidence, quiet, settledBy>>

Script ==
    \/ RecordStart \/ ProducerExits
    \/ PollRaw \/ PollPg \/ LeaveDrain \/ RecordDrainEnd
    \/ CopyTopics \/ Reconcile \/ ValidateApi \/ Report
    \/ CommandFails

Next == Pipeline \/ Script

Spec == Init /\ [][Next]_vars

-----------------------------------------------------------------------------
(* Properties *)

\* Type invariant.
TypeOK ==
    /\ harness \in Harnesses /\ phase \in Phases
    /\ raw \in Seq(EventIds)
    /\ phase # "prepared" => Len(raw) <= rawBefore + MaxRecords
    /\ events \subseteq EventIds /\ deadletters \subseteq EventIds
    /\ rawBefore \in Nat
    /\ rowsAt \in [Instants -> SUBSET EventIds]
    /\ nowRaw \in Int /\ previous \in Int \X Int
    /\ stable \in 0..StableRounds /\ polls \in 0..MaxPolls
    /\ copied \in [raw : SUBSET EventIds, dead : SUBSET EventIds]
    /\ unaccounted \subseteq EventIds /\ settledBy \subseteq EventIds
    /\ quiet \in 0..MaxPolls

\* What the drain rule does establish (docs/step11-benchmark-results.md:27): the
\* two counts are read apart, but n equal polls in a row mean that through n
\* polls no record was appended and no row landed.
SteadyMeansQuiet == [][stable' > stable => stable' <= quiet']_vars

Reconciled == phase \in {"reconciled", "passed", "reported"}

\* No false alarm: with a complete copy of the dead letters, an id listed as
\* unaccounted was neither a row nor a dead letter when the drain loop was left.
UnaccountedIsReal ==
    Reconciled /\ settledBy \cap deadletters \subseteq copied.dead =>
        unaccounted \cap settledBy = {}

\* No false comfort: with a complete copy of the raw range, a run that lists
\* nothing as unaccounted has settled every id its producer sent.
NothingListedMeansSettled ==
    Reconciled /\ unaccounted = {} /\ RawRange \subseteq copied.raw =>
        IdsFrom(rawBefore) \subseteq events \cup deadletters

\* The generator and the validator agree on what malformed is: exactly the
\* structurally damaged events are dead-lettered, the others become rows.
DamageDecidesFate == events \cap Damaged = {} /\ deadletters \subseteq Damaged
=============================================================================
