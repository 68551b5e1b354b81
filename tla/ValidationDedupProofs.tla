----------------------- MODULE ValidationDedupProofs -----------------------
(***************************************************************************)
(* Proofs about ValidationDedup, for every number of partitions, subtasks, *)
(* event ids, restarts and records: its inductive invariant, with what     *)
(* MCJoin and MCSplit check of checkpoints and of lost records; that an id *)
(* a checkpoint calls seen is not written again; that a checkpoint is a    *)
(* consistent cut of topic and dedup state; and that the job implements    *)
(* EventLedger.                                                            *)
(***************************************************************************)
EXTENDS ValidationDedup, TLAPS

-----------------------------------------------------------------------------
(* Type correctness *)

\* The initial state is well typed.
LEMMA TypeInit == Init => TypeOK
  <1> SUFFICES ASSUME Init PROVE TypeOK
      OBVIOUS
  <1>1. raw \in [Partitions -> Seq(EventIds)]
      BY DEF Init, PerPartition
  <1>2. completed \in [pos : [Partitions -> Nat], seen : [Subtasks -> SUBSET EventIds]]
      BY DEF Init, NoCheckpoint, PerPartition, PerSubtask
  <1>3. job \in JobStates /\ attempts \in 0..RestartAttempts
      BY ConstantsAssumption DEF Init, JobStates
  <1>4. pg \in BOOLEAN /\ conn \in BOOLEAN
      BY DEF Init
  <1>5. delivered \in [Partitions -> [Subtasks -> Nat]]
      BY DEF Init, PerPartition, PerSubtask
  <1>6. /\ groupOffset \in [Partitions -> Nat] /\ pos \in [Partitions -> Nat]
        /\ ckPos \in [Partitions -> Nat]
        /\ dlq \in [Partitions -> SUBSET EventIds]
        /\ dlAhead \in [Partitions -> SUBSET EventIds]
      BY DEF Init, PerPartition
  <1>7. /\ seen \in [Subtasks -> SUBSET EventIds]
        /\ inflight \in [Subtasks -> SUBSET EventIds]
        /\ ckSeen \in [Subtasks -> SUBSET EventIds]
        /\ ahead \in [Subtasks -> SUBSET EventIds]
      BY DEF Init, PerSubtask
  <1>8. /\ deadletters \subseteq EventIds /\ events \subseteq EventIds
        /\ injected \subseteq Partitions /\ snapped \subseteq Subtasks
      BY DEF Init
  <1> QED
      BY <1>1, <1>2, <1>3, <1>4, <1>5, <1>6, <1>7, <1>8 DEF TypeOK

\* Dropping the memory of the tasks leaves well-typed empty memory.
LEMMA TypeDropTasks ==
  ASSUME DropTasks
  PROVE  /\ pos' \in [Partitions -> Nat]
         /\ delivered' \in [Partitions -> [Subtasks -> Nat]]
         /\ seen' \in [Subtasks -> SUBSET EventIds]
         /\ inflight' \in [Subtasks -> SUBSET EventIds]
         /\ dlq' \in [Partitions -> SUBSET EventIds]
         /\ injected' \subseteq Partitions
         /\ ckPos' \in [Partitions -> Nat]
         /\ snapped' \subseteq Subtasks
         /\ ckSeen' \in [Subtasks -> SUBSET EventIds]
         /\ ahead' \in [Subtasks -> SUBSET EventIds]
         /\ dlAhead' \in [Partitions -> SUBSET EventIds]
  BY DEF DropTasks, ResetPending, PerPartition, PerSubtask

\* A failure keeps the job's state and its restart budget well typed.
LEMMA TypeFail ==
  ASSUME TypeOK, Fail
  PROVE  job' \in JobStates /\ attempts' \in 0..RestartAttempts
  BY ConstantsAssumption DEF TypeOK, Fail, RestartAllowed, JobStates

\* Every action keeps the state well typed; of the actions that compute with
\* values, restarts keep attempts within the budget.
LEMMA TypeStep == TypeOK /\ [Next]_vars => TypeOK'
  <1> SUFFICES ASSUME TypeOK, [Next]_vars PROVE TypeOK'
      OBVIOUS
  <1> USE ConstantsAssumption
  <1>1. ASSUME NEW id \in EventIds, Produce(id) PROVE TypeOK'
      <2>1. PartitionOf[id] \in Partitions
          OBVIOUS
      <2>2. raw' \in [Partitions -> Seq(EventIds)]
          BY <1>1, <2>1 DEF Produce, TypeOK
      <2> QED
          BY <1>1, <2>2 DEF Produce, TypeOK, kafkaVars, pgVars, jobVars, taskVars, pendingVars
  <1>2. ASSUME NEW p \in Partitions, Read(p) PROVE TypeOK'
      <2>1. raw[p][pos[p] + 1] \in EventIds
          BY <1>2 DEF Read, TypeOK
      <2>2. \E buffered \in SUBSET EventIds : dlq' = dlq \/ dlq' = [dlq EXCEPT ![p] = buffered]
          <3>1. dlq[p] \cup {raw[p][pos[p] + 1]} \in SUBSET EventIds
              BY <2>1 DEF TypeOK
          <3> QED
              BY <1>2, <3>1 DEF Read
      <2>3. dlq' \in [Partitions -> SUBSET EventIds]
          BY <2>2 DEF TypeOK
      <2>4. pos' \in [Partitions -> Nat]
          <3>1. pos' = [pos EXCEPT ![p] = pos[p] + 1]
              BY <1>2 DEF Read
          <3> QED
              BY <3>1 DEF TypeOK
      <2>5. UNCHANGED <<raw, deadletters, groupOffset, pg, conn, events, job, attempts,
                        completed, delivered, seen, inflight,
                        injected, ckPos, snapped, ckSeen, ahead, dlAhead>>
          BY <1>2 DEF Read, kafkaVars, pgVars, jobVars, pendingVars
      <2> QED
          BY <2>3, <2>4, <2>5 DEF TypeOK
  <1>3. ASSUME NEW p \in Partitions, InjectBarrier(p) PROVE TypeOK'
      BY <1>3 DEF InjectBarrier, TypeOK, kafkaVars, pgVars, jobVars, taskVars
  <1>4. ASSUME NEW p \in Partitions, NEW s \in Subtasks, Deduplicate(p, s) PROVE TypeOK'
      <2>1. PICK i \in Waiting(p, s) :
               /\ delivered' = [delivered EXCEPT ![p][s] = i]
               /\ \/ UNCHANGED <<seen, inflight>>
                  \/ /\ seen' = [seen EXCEPT ![s] = @ \cup {raw[p][i]}]
                     /\ inflight' = [inflight EXCEPT ![s] = @ \cup {raw[p][i]}]
          BY <1>4 DEF Deduplicate
      <2>2. i \in Nat /\ raw[p][i] \in EventIds
          BY <2>1 DEF Waiting, TypeOK, PassesValidation
      <2>3. delivered' \in [Partitions -> [Subtasks -> Nat]]
          BY <2>1, <2>2 DEF TypeOK
      <2>4. seen' \in [Subtasks -> SUBSET EventIds] /\ inflight' \in [Subtasks -> SUBSET EventIds]
          <3>1. /\ seen[s] \cup {raw[p][i]} \in SUBSET EventIds
                /\ inflight[s] \cup {raw[p][i]} \in SUBSET EventIds
              BY <2>2 DEF TypeOK
          <3>2. CASE UNCHANGED <<seen, inflight>>
              BY <3>2 DEF TypeOK
          <3>3. CASE /\ seen' = [seen EXCEPT ![s] = @ \cup {raw[p][i]}]
                     /\ inflight' = [inflight EXCEPT ![s] = @ \cup {raw[p][i]}]
              BY <3>1, <3>3 DEF TypeOK
          <3> QED
              BY <2>1, <3>2, <3>3
      <2>5. UNCHANGED <<raw, deadletters, groupOffset, pg, conn, events, job, attempts,
                        completed, pos, dlq,
                        injected, ckPos, snapped, ckSeen, ahead, dlAhead>>
          BY <1>4 DEF Deduplicate, kafkaVars, pgVars, jobVars, pendingVars
      <2> QED
          BY <2>3, <2>4, <2>5 DEF TypeOK
  <1>5. ASSUME NEW s \in Subtasks, NEW id \in EventIds, SinkWrite(s, id) PROVE TypeOK'
      BY <1>5 DEF SinkWrite, TypeOK, kafkaVars, jobVars
  <1>6. ASSUME NEW p \in Partitions, NEW id \in EventIds, DeliverDeadletter(p, id) PROVE TypeOK'
      BY <1>6 DEF DeliverDeadletter, TypeOK, pgVars, jobVars
  <1>7. ASSUME NEW s \in Subtasks, Snapshot(s) PROVE TypeOK'
      BY <1>7 DEF Snapshot, TypeOK, kafkaVars, pgVars, jobVars, taskVars
  <1>8. ASSUME NEW committed \in BOOLEAN, CompleteCheckpoint(committed) PROVE TypeOK'
      BY <1>8 DEF CompleteCheckpoint, ResetPending, PerPartition, PerSubtask,
                  TypeOK, pgVars, taskVars
  <1>9. CASE SinkError
      BY <1>9, TypeDropTasks, TypeFail DEF SinkError, Fail, TypeOK, kafkaVars, pgVars
  <1>10. ASSUME NEW s \in Subtasks, NEW id \in EventIds, Expire(s, id) PROVE TypeOK'
      <2>1. completed' \in [pos : [Partitions -> Nat], seen : [Subtasks -> SUBSET EventIds]]
          BY <1>10 DEF Expire, TypeOK
      <2> QED
          BY <1>10, <2>1 DEF Expire, TypeOK, kafkaVars, pgVars
  <1>11. CASE Deploy
      BY <1>11 DEF Deploy, RestoredPos, RestoredSeen, PerSubtask, TypeOK, JobStates,
                   kafkaVars, pendingVars
  <1>12. CASE DeployError
      BY <1>12, TypeDropTasks, TypeFail DEF DeployError, Fail, TypeOK, kafkaVars, pgVars
  <1>13. CASE Submit
      BY <1>13 DEF Submit, NoCheckpoint, PerPartition, PerSubtask, TypeOK, JobStates,
                   kafkaVars, pgVars, taskVars, pendingVars
  <1>14. CASE PgStart
      BY <1>14 DEF PgStart, TypeOK, kafkaVars, jobVars, taskVars, pendingVars
  <1>15. CASE TaskLost
      BY <1>15, TypeDropTasks, TypeFail DEF TaskLost, Fail, TypeOK, kafkaVars
  <1>16. CASE Cancel
      BY <1>16, TypeDropTasks DEF Cancel, TypeOK, JobStates, kafkaVars
  <1>17. CASE PgStop
      <2>1. events' \subseteq EventIds
          BY <1>17 DEF PgStop, TypeOK
      <2> QED
          BY <1>17, <2>1 DEF PgStop, TypeOK, kafkaVars, jobVars, taskVars, pendingVars
  <1>18. CASE UNCHANGED vars
      BY <1>18 DEF vars, kafkaVars, pgVars, jobVars, taskVars, pendingVars, TypeOK
  <1> QED
      BY <1>1, <1>2, <1>3, <1>4, <1>5, <1>6, <1>7, <1>8, <1>9, <1>10, <1>11, <1>12,
         <1>13, <1>14, <1>15, <1>16, <1>17, <1>18
      DEF Next, Tasks, Disruption

\* Every variable keeps its type in every reachable state; in particular a
\* submission never uses more restarts than docker-compose.yml configures.
THEOREM TypeCorrect == Spec => []TypeOK
  BY TypeInit, TypeStep, PTL DEF Spec

-----------------------------------------------------------------------------
(* The inductive invariant behind RecordsConserved and CheckpointCovered.    *)
(* RecordsConserved alone is not inductive: a deployment makes records       *)
(* "read" by moving pos to the checkpoint, and dedup drops a record on the   *)
(* word of its state, so what the checkpoints and the state may claim has to *)
(* be part of the invariant.                                                 *)

\* What a record i <= pos[p] may have become, without the set Waiting.
Kept(p, i) ==
    IF raw[p][i] \in Valid
    THEN \/ delivered[p][SubtaskOf[raw[p][i]]] < i
         \/ raw[p][i] \in inflight[SubtaskOf[raw[p][i]]] \cup events
    ELSE raw[p][i] \in dlq[p] \cup deadletters

AllKept == \A p \in Partitions : \A i \in 1..pos[p] : Kept(p, i)

\* Positions point into the topic.
InBounds ==
    \A p \in Partitions :
        /\ pos[p] <= Len(raw[p])
        /\ completed.pos[p] <= Len(raw[p])
        /\ groupOffset[p] <= Len(raw[p])
        /\ p \in injected => ckPos[p] <= pos[p]
        /\ \A s \in Subtasks : delivered[p][s] <= pos[p]

\* Only a running job has a checkpoint in progress or records in flight.
QuietWhenStopped ==
    job # "RUNNING" => injected = {} /\ inflight = PerSubtask({})

\* "seen" is only ever said of an event that is on its way or written.
SeenCarried ==
    \A s \in Subtasks :
        /\ seen[s] \subseteq inflight[s] \cup events
        /\ completed.seen[s] \subseteq events

\* What precedes the barrier is written, or will be before the barrier passes.
DeadlettersAhead ==
    \A p \in injected : \A i \in 1..ckPos[p] :
        raw[p][i] \notin Valid => raw[p][i] \in dlAhead[p] \cup deadletters

EventsAhead ==
    /\ snapped # {} => injected = Partitions
    /\ \A s \in snapped :
        /\ ckSeen[s] \subseteq ahead[s] \cup events
        /\ \A p \in Partitions : \A i \in 1..ckPos[p] :
            raw[p][i] \in Valid /\ SubtaskOf[raw[p][i]] = s
                => raw[p][i] \in ahead[s] \cup events

IInv ==
    /\ TypeOK
    /\ AllKept
    /\ InBounds
    /\ QuietWhenStopped
    /\ SeenCarried
    /\ DeadlettersAhead
    /\ EventsAhead
    /\ CheckpointCovered

\* All the variables, one by one.
LEMMA Unchanged ==
  ASSUME UNCHANGED vars
  PROVE  UNCHANGED <<raw, deadletters, groupOffset, pg, conn, events, job, attempts,
                     completed, pos, delivered, seen, inflight, dlq, injected, ckPos,
                     snapped, ckSeen, ahead, dlAhead>>
  BY DEF vars, kafkaVars, pgVars, jobVars, taskVars, pendingVars

\* No step takes back an event row or a dead letter.
LEMMA SinksGrow ==
  ASSUME [Next]_vars
  PROVE  events \subseteq events' /\ deadletters \subseteq deadletters'
  <1>1. ASSUME NEW id \in EventIds, Produce(id)
        PROVE  events \subseteq events' /\ deadletters \subseteq deadletters'
      BY <1>1 DEF Produce, pgVars
  <1>2. CASE Tasks
      BY <1>2 DEF Tasks, Read, InjectBarrier, Deduplicate, SinkWrite, DeliverDeadletter,
                  Snapshot, CompleteCheckpoint, SinkError, kafkaVars, pgVars
  <1>3. ASSUME NEW s \in Subtasks, NEW id \in EventIds, Expire(s, id)
        PROVE  events \subseteq events' /\ deadletters \subseteq deadletters'
      BY <1>3 DEF Expire, kafkaVars, pgVars
  <1>4. CASE Deploy \/ DeployError \/ Submit \/ PgStart \/ Disruption
      BY <1>4 DEF Deploy, DeployError, Submit, PgStart, Disruption, TaskLost, Cancel, PgStop,
                  kafkaVars, pgVars
  <1>5. CASE UNCHANGED vars
      BY <1>5, Unchanged
  <1> QED
      BY <1>1, <1>2, <1>3, <1>4, <1>5 DEF Next

\* The producer appends; nothing else writes to transactions.raw.
LEMMA RawGrows ==
  ASSUME TypeOK, [Next]_vars, NEW p \in Partitions
  PROVE  /\ Len(raw[p]) \in Nat /\ Len(raw[p]) <= Len(raw'[p])
         /\ \A i \in 1..Len(raw[p]) : raw'[p][i] = raw[p][i]
  <1>0. raw[p] \in Seq(EventIds)
      BY DEF TypeOK
  <1>1. ASSUME NEW id \in EventIds, Produce(id)
        PROVE  raw'[p] = raw[p] \/ raw'[p] = Append(raw[p], id)
      BY <1>1 DEF Produce, TypeOK
  <1>2. (\E id \in EventIds : Produce(id)) \/ raw' = raw
      <2>1. CASE Tasks
          BY <2>1 DEF Tasks, Read, InjectBarrier, Deduplicate, SinkWrite, DeliverDeadletter,
                      Snapshot, CompleteCheckpoint, SinkError, kafkaVars
      <2>2. ASSUME NEW s \in Subtasks, NEW id \in EventIds, Expire(s, id)
            PROVE  raw' = raw
          BY <2>2 DEF Expire, kafkaVars
      <2>3. CASE Deploy \/ DeployError \/ Submit \/ PgStart \/ Disruption
          BY <2>3 DEF Deploy, DeployError, Submit, PgStart, Disruption, TaskLost, Cancel,
                      PgStop, kafkaVars
      <2>4. CASE UNCHANGED vars
          BY <2>4, Unchanged
      <2> QED
          BY <2>1, <2>2, <2>3, <2>4 DEF Next
  <1> QED
      BY <1>0, <1>1, <1>2

\* What is accounted for stays accounted for.
LEMMA AccountedStable ==
  ASSUME TypeOK, [Next]_vars,
         NEW offset \in [Partitions -> Nat],
         \A p \in Partitions : offset[p] <= Len(raw[p]),
         AccountedUpTo(offset)
  PROVE  \A p \in Partitions : \A i \in 1..offset[p] : Accounted(raw[p][i])'
  <1> SUFFICES ASSUME NEW p \in Partitions, NEW i \in 1..offset[p]
               PROVE  Accounted(raw[p][i])'
      OBVIOUS
  <1>1. raw'[p][i] = raw[p][i]
      BY RawGrows
  <1>2. Accounted(raw[p][i])
      BY DEF AccountedUpTo
  <1> QED
      BY <1>1, <1>2, SinksGrow DEF Accounted

\* A job that stops running drops its half-taken checkpoint and what was on its
\* way to the sinks, and nothing fills them before the next deployment.
LEMMA QuietStep == QuietWhenStopped /\ [Next]_vars => QuietWhenStopped'
  <1> SUFFICES ASSUME QuietWhenStopped, [Next]_vars, job' # "RUNNING"
               PROVE  injected' = {} /\ inflight' = PerSubtask({})
      BY DEF QuietWhenStopped
  <1>1. CASE DropTasks
      BY <1>1 DEF DropTasks, ResetPending
  <1>2. CASE UNCHANGED <<job, injected, inflight>>
      BY <1>2 DEF QuietWhenStopped
  <1>3. CASE \E id \in EventIds : Produce(id)
      BY <1>2, <1>3 DEF Produce, jobVars, taskVars, pendingVars
  <1>4. CASE Tasks
      <2>1. job' = job \/ DropTasks
          BY <1>4 DEF Tasks, Read, InjectBarrier, Deduplicate, SinkWrite, DeliverDeadletter,
                      Snapshot, CompleteCheckpoint, SinkError, Fail, jobVars
      <2>2. job = "RUNNING"
          BY <1>4 DEF Tasks, Read, InjectBarrier, Deduplicate, SinkWrite, DeliverDeadletter,
                      Snapshot, CompleteCheckpoint, SinkError
      <2> QED
          BY <1>1, <2>1, <2>2
  <1>5. CASE \E s \in Subtasks, id \in EventIds : Expire(s, id)
      BY <1>2, <1>5 DEF Expire
  <1>6. CASE Deploy
      BY <1>6 DEF Deploy
  <1>7. CASE Submit
      BY <1>7 DEF Submit, QuietWhenStopped, taskVars, pendingVars
  <1>8. CASE DeployError \/ TaskLost \/ Cancel
      BY <1>1, <1>8 DEF DeployError, TaskLost, Cancel, Fail
  <1>9. CASE PgStart \/ PgStop
      BY <1>2, <1>9 DEF PgStart, PgStop, jobVars, taskVars, pendingVars
  <1>10. CASE UNCHANGED vars
      BY <1>2, <1>10, Unchanged
  <1> QED
      BY <1>3, <1>4, <1>5, <1>6, <1>7, <1>8, <1>9, <1>10 DEF Next, Disruption

\* Positions and offsets never run past the end of their partition, and no
\* subtask runs ahead of the source.
LEMMA BoundsStep == TypeOK /\ InBounds /\ QuietWhenStopped /\ [Next]_vars => InBounds'
  <1> SUFFICES ASSUME TypeOK, InBounds, QuietWhenStopped, [Next]_vars, NEW p \in Partitions
               PROVE  /\ pos'[p] <= Len(raw'[p])
                      /\ completed'.pos[p] <= Len(raw'[p])
                      /\ groupOffset'[p] <= Len(raw'[p])
                      /\ p \in injected' => ckPos'[p] <= pos'[p]
                      /\ \A s \in Subtasks : delivered'[p][s] <= pos'[p]
      BY DEF InBounds
  <1> DEFINE Goal == /\ pos'[p] <= Len(raw'[p])
                     /\ completed'.pos[p] <= Len(raw'[p])
                     /\ groupOffset'[p] <= Len(raw'[p])
                     /\ p \in injected' => ckPos'[p] <= pos'[p]
                     /\ \A s \in Subtasks : delivered'[p][s] <= pos'[p]
  <1>1. /\ Len(raw[p]) \in Nat /\ Len(raw[p]) <= Len(raw'[p]) /\ Len(raw'[p]) \in Nat
        /\ pos[p] \in Nat /\ completed.pos[p] \in Nat /\ groupOffset[p] \in Nat
        /\ ckPos[p] \in Nat /\ \A s \in Subtasks : delivered[p][s] \in Nat
      <2>1. TypeOK'
          BY TypeStep
      <2>2. Len(raw'[p]) \in Nat
          BY <2>1 DEF TypeOK
      <2> QED
          BY <2>2, RawGrows DEF TypeOK
  <1>2. /\ pos[p] <= Len(raw[p])
        /\ completed.pos[p] <= Len(raw[p])
        /\ groupOffset[p] <= Len(raw[p])
        /\ p \in injected => ckPos[p] <= pos[p]
        /\ \A s \in Subtasks : delivered[p][s] <= pos[p]
      BY DEF InBounds
  <1>3. CASE UNCHANGED <<pos, delivered, injected, ckPos, completed, groupOffset>>
      BY <1>1, <1>2, <1>3
  <1>4. ASSUME DropTasks, UNCHANGED <<completed, groupOffset>> PROVE Goal
      BY <1>1, <1>2, <1>4 DEF DropTasks, ResetPending, PerPartition, PerSubtask
  <1>5. ASSUME NEW q \in Partitions, Read(q) PROVE Goal
      <2>1. /\ pos[q] < Len(raw[q]) /\ pos' = [pos EXCEPT ![q] = @ + 1] /\ raw' = raw
            /\ UNCHANGED <<delivered, injected, ckPos, completed, groupOffset>>
          BY <1>5 DEF Read, kafkaVars, pendingVars, jobVars
      <2>2. pos'[p] = pos[p] \/ (p = q /\ pos'[p] = pos[p] + 1)
          BY <2>1 DEF TypeOK
      <2> QED
          BY <1>1, <1>2, <2>1, <2>2
  <1>6. ASSUME NEW q \in Partitions, InjectBarrier(q) PROVE Goal
      BY <1>1, <1>2, <1>6 DEF InjectBarrier, TypeOK, taskVars, jobVars, kafkaVars
  <1>7. ASSUME NEW q \in Partitions, NEW t \in Subtasks, Deduplicate(q, t) PROVE Goal
      <2>1. PICK i \in Waiting(q, t) : delivered' = [delivered EXCEPT ![q][t] = i]
          BY <1>7 DEF Deduplicate
      <2>2. i \in Nat /\ i <= pos[q]
          BY <2>1 DEF Waiting, TypeOK
      <2>3. UNCHANGED <<pos, injected, ckPos, completed, groupOffset>>
          BY <1>7 DEF Deduplicate, kafkaVars, pendingVars, jobVars
      <2>4. ASSUME NEW s \in Subtasks PROVE delivered'[p][s] <= pos'[p]
          BY <1>2, <2>1, <2>2, <2>3 DEF TypeOK
      <2> QED
          BY <1>1, <1>2, <2>3, <2>4
  <1>8. ASSUME NEW committed \in BOOLEAN, CompleteCheckpoint(committed) PROVE Goal
      <2>1. /\ injected = Partitions /\ completed'.pos = ckPos /\ injected' = {}
            /\ groupOffset' = ckPos \/ groupOffset' = groupOffset
            /\ UNCHANGED <<pos, delivered>>
          BY <1>8 DEF CompleteCheckpoint, ResetPending, taskVars
      <2> QED
          BY <1>1, <1>2, <2>1
  <1>9. CASE Deploy
      <2>1. /\ pos' = completed.pos
            /\ delivered' = [q \in Partitions |-> [s \in Subtasks |-> completed.pos[q]]]
            /\ UNCHANGED <<injected, ckPos, completed, groupOffset>>
            /\ injected = {}
          BY <1>9 DEF Deploy, RestoredPos, PerSubtask, kafkaVars, pendingVars, QuietWhenStopped
      <2> QED
          BY <1>1, <1>2, <2>1
  <1>10. CASE Submit
      <2>1. completed'.pos[p] = 0 /\ UNCHANGED <<pos, delivered, injected, ckPos, groupOffset>>
          BY <1>10 DEF Submit, NoCheckpoint, PerPartition, kafkaVars, taskVars, pendingVars
      <2> QED
          BY <1>1, <1>2, <2>1
  <1>11. ASSUME NEW s \in Subtasks, NEW id \in EventIds, Expire(s, id) PROVE Goal
      <2>1. completed'.pos = completed.pos /\ UNCHANGED <<pos, delivered, injected, ckPos, groupOffset>>
          BY <1>11 DEF Expire, TypeOK, kafkaVars
      <2> QED
          BY <1>1, <1>2, <2>1
  <1>12. ASSUME NEW id \in EventIds, Produce(id) PROVE Goal
      BY <1>3, <1>12 DEF Produce, jobVars, taskVars, pendingVars
  <1>13. ASSUME NEW s \in Subtasks, NEW id \in EventIds, SinkWrite(s, id) PROVE Goal
      BY <1>3, <1>13 DEF SinkWrite, kafkaVars, jobVars
  <1>14. ASSUME NEW q \in Partitions, NEW id \in EventIds, DeliverDeadletter(q, id) PROVE Goal
      BY <1>3, <1>14 DEF DeliverDeadletter, jobVars
  <1>15. ASSUME NEW s \in Subtasks, Snapshot(s) PROVE Goal
      BY <1>3, <1>15 DEF Snapshot, kafkaVars, jobVars, taskVars
  <1>16. CASE SinkError \/ DeployError \/ TaskLost \/ Cancel
      BY <1>4, <1>16 DEF SinkError, DeployError, TaskLost, Cancel, Fail, kafkaVars
  <1>17. CASE PgStart \/ PgStop
      BY <1>3, <1>17 DEF PgStart, PgStop, kafkaVars, jobVars, taskVars, pendingVars
  <1>18. CASE UNCHANGED vars
      BY <1>3, <1>18, Unchanged
  <1> QED
      BY <1>5, <1>6, <1>7, <1>8, <1>9, <1>10, <1>11, <1>12, <1>13, <1>14, <1>15, <1>16,
         <1>17, <1>18 DEF Next, Tasks, Disruption

\* Completing a checkpoint covers it: the barrier has pushed everything before
\* it through the sinks.  Every other step only adds to what is accounted for.
LEMMA CoveredStep ==
  TypeOK /\ InBounds /\ DeadlettersAhead /\ EventsAhead /\ CheckpointCovered /\ [Next]_vars
    => CheckpointCovered'
  <1> SUFFICES ASSUME TypeOK, InBounds, DeadlettersAhead, EventsAhead, CheckpointCovered,
                      [Next]_vars
               PROVE  CheckpointCovered'
      OBVIOUS
  <1>0. completed'.pos \in [Partitions -> Nat] /\ groupOffset' \in [Partitions -> Nat]
      BY TypeStep DEF TypeOK
  <1> SUFFICES ASSUME NEW p \in Partitions, NEW i \in Nat, i >= 1,
                      i <= completed'.pos[p] \/ i <= groupOffset'[p]
               PROVE  Accounted(raw[p][i])'
      BY <1>0 DEF CheckpointCovered, AccountedUpTo
  <1>1. /\ completed.pos \in [Partitions -> Nat] /\ groupOffset \in [Partitions -> Nat]
        /\ ckPos \in [Partitions -> Nat]
      BY DEF TypeOK
  <1>2. ASSUME i <= completed.pos[p] \/ i <= groupOffset[p] PROVE Accounted(raw[p][i])'
      <2>1. \A q \in Partitions : \A j \in 1..completed.pos[q] : Accounted(raw[q][j])'
          BY <1>1, AccountedStable DEF InBounds, CheckpointCovered
      <2>2. \A q \in Partitions : \A j \in 1..groupOffset[q] : Accounted(raw[q][j])'
          BY <1>1, AccountedStable DEF InBounds, CheckpointCovered
      <2> QED
          BY <1>1, <1>2, <2>1, <2>2
  <1>3. CASE completed'.pos = completed.pos /\ groupOffset' = groupOffset
      BY <1>2, <1>3
  <1>4. ASSUME NEW committed \in BOOLEAN, CompleteCheckpoint(committed)
        PROVE  Accounted(raw[p][i])'
      <2>1. /\ injected = Partitions /\ snapped = Subtasks /\ BarrierThroughSinks
            /\ completed'.pos = ckPos
            /\ groupOffset' = ckPos \/ groupOffset' = groupOffset
            /\ UNCHANGED <<raw, events, deadletters>>
          BY <1>4 DEF CompleteCheckpoint, pgVars
      <2>2. CASE i <= ckPos[p]
          <3>1. i \in 1..ckPos[p] /\ i \in 1..Len(raw[p]) /\ raw[p][i] \in EventIds
              BY <1>1, <2>1, <2>2 DEF InBounds, TypeOK
          <3>2. CASE raw[p][i] \in Valid
              <4>1. SubtaskOf[raw[p][i]] \in Subtasks
                  BY <3>1, ConstantsAssumption
              <4>2. raw[p][i] \in ahead[SubtaskOf[raw[p][i]]] \cup events
                  BY <2>1, <3>1, <3>2, <4>1 DEF EventsAhead
              <4> QED
                  BY <2>1, <3>2, <4>1, <4>2 DEF BarrierThroughSinks, Accounted
          <3>3. CASE raw[p][i] \notin Valid
              BY <2>1, <3>1, <3>3 DEF DeadlettersAhead, BarrierThroughSinks, Accounted
          <3> QED
              BY <3>2, <3>3
      <2> QED
          BY <1>2, <2>1, <2>2
  <1>5. CASE Submit
      BY <1>1, <1>2, <1>5 DEF Submit, NoCheckpoint, PerPartition, kafkaVars
  <1>6. ASSUME NEW s \in Subtasks, NEW id \in EventIds, Expire(s, id) PROVE Accounted(raw[p][i])'
      BY <1>3, <1>6 DEF Expire, TypeOK, kafkaVars
  <1>7. CASE \E id \in EventIds : Produce(id)
      BY <1>3, <1>7 DEF Produce, jobVars
  <1>8. CASE Tasks
      <2>1. (\E committed \in BOOLEAN : CompleteCheckpoint(committed))
               \/ UNCHANGED <<completed, groupOffset>>
          BY <1>8 DEF Tasks, Read, InjectBarrier, Deduplicate, SinkWrite, DeliverDeadletter,
                      Snapshot, SinkError, kafkaVars, jobVars
      <2> QED
          BY <1>3, <1>4, <2>1
  <1>9. CASE Deploy \/ DeployError \/ PgStart \/ Disruption
      BY <1>3, <1>9 DEF Deploy, DeployError, PgStart, Disruption, TaskLost, Cancel, PgStop,
                        kafkaVars, jobVars
  <1>10. CASE UNCHANGED vars
      BY <1>3, <1>10, Unchanged
  <1> QED
      BY <1>5, <1>6, <1>7, <1>8, <1>9, <1>10 DEF Next

\* What dedup has seen stays in front of the sink or in Postgres, also when the
\* state is restored.
LEMMA SeenStep == TypeOK /\ QuietWhenStopped /\ SeenCarried /\ EventsAhead /\ [Next]_vars => SeenCarried'
  <1> SUFFICES ASSUME TypeOK, QuietWhenStopped, SeenCarried, EventsAhead, [Next]_vars,
                      NEW s \in Subtasks
               PROVE  /\ seen'[s] \subseteq inflight'[s] \cup events'
                      /\ completed'.seen[s] \subseteq events'
      BY DEF SeenCarried
  <1> DEFINE Goal == /\ seen'[s] \subseteq inflight'[s] \cup events'
                     /\ completed'.seen[s] \subseteq events'
  <1>1. /\ seen[s] \subseteq inflight[s] \cup events
        /\ completed.seen[s] \subseteq events
        /\ events \subseteq events'
      BY SinksGrow DEF SeenCarried
  <1>2. CASE UNCHANGED <<seen, inflight, completed>>
      BY <1>1, <1>2
  <1>3. ASSUME DropTasks, completed' = completed PROVE Goal
      BY <1>1, <1>3 DEF DropTasks, PerSubtask
  <1>4. ASSUME NEW q \in Partitions, NEW t \in Subtasks, Deduplicate(q, t) PROVE Goal
      <2>1. PICK i \in Waiting(q, t) :
               \/ UNCHANGED <<seen, inflight>>
               \/ /\ seen' = [seen EXCEPT ![t] = @ \cup {raw[q][i]}]
                  /\ inflight' = [inflight EXCEPT ![t] = @ \cup {raw[q][i]}]
          BY <1>4 DEF Deduplicate
      <2>2. completed' = completed
          BY <1>4 DEF Deduplicate, jobVars
      <2>3. seen \in [Subtasks -> SUBSET EventIds] /\ inflight \in [Subtasks -> SUBSET EventIds]
          BY DEF TypeOK
      <2>4. \/ seen'[s] = seen[s] /\ inflight'[s] = inflight[s]
            \/ seen'[s] = seen[s] \cup {raw[q][i]} /\ inflight'[s] = inflight[s] \cup {raw[q][i]}
          BY <2>1, <2>3
      <2> QED
          BY <1>1, <2>2, <2>4
  <1>5. ASSUME NEW t \in Subtasks, NEW id \in EventIds, SinkWrite(t, id) PROVE Goal
      BY <1>1, <1>5 DEF SinkWrite, TypeOK, jobVars
  <1>6. ASSUME NEW t \in Subtasks, NEW id \in EventIds, Expire(t, id) PROVE Goal
      BY <1>1, <1>6 DEF Expire, TypeOK, pgVars
  <1>7. ASSUME NEW committed \in BOOLEAN, CompleteCheckpoint(committed) PROVE Goal
      <2>1. /\ s \in snapped /\ ahead[s] = {} /\ completed'.seen = ckSeen
            /\ UNCHANGED <<seen, inflight, events>>
          BY <1>7 DEF CompleteCheckpoint, BarrierThroughSinks, taskVars, pgVars
      <2> QED
          BY <1>1, <2>1 DEF EventsAhead
  <1>8. CASE Deploy
      BY <1>1, <1>8 DEF Deploy, RestoredSeen
  <1>9. CASE Submit
      BY <1>1, <1>9 DEF Submit, NoCheckpoint, PerSubtask, taskVars
  <1>10. CASE SinkError \/ DeployError \/ TaskLost \/ Cancel
      BY <1>3, <1>10 DEF SinkError, DeployError, TaskLost, Cancel, Fail
  <1>11. CASE PgStart \/ PgStop
      BY <1>2, <1>11 DEF PgStart, PgStop, jobVars, taskVars
  <1>12. CASE \E id \in EventIds : Produce(id)
      BY <1>2, <1>12 DEF Produce, jobVars, taskVars
  <1>13. CASE \E p \in Partitions : Read(p) \/ InjectBarrier(p)
      BY <1>2, <1>13 DEF Read, InjectBarrier, jobVars, taskVars
  <1>14. CASE \E p \in Partitions, id \in EventIds : DeliverDeadletter(p, id)
      BY <1>2, <1>14 DEF DeliverDeadletter, jobVars
  <1>15. CASE \E t \in Subtasks : Snapshot(t)
      BY <1>2, <1>15 DEF Snapshot, jobVars, taskVars
  <1>16. CASE UNCHANGED vars
      BY <1>2, <1>16, Unchanged
  <1> QED
      BY <1>4, <1>5, <1>6, <1>7, <1>8, <1>9, <1>10, <1>11, <1>12, <1>13, <1>14, <1>15, <1>16
      DEF Next, Tasks, Disruption

\* Dead letters read before a barrier stay in the flush set or in the topic.
LEMMA DeadlettersAheadStep ==
  TypeOK /\ AllKept /\ InBounds /\ DeadlettersAhead /\ [Next]_vars => DeadlettersAhead'
  <1> SUFFICES ASSUME TypeOK, AllKept, InBounds, DeadlettersAhead, [Next]_vars,
                      NEW p \in injected', NEW i \in 1..ckPos'[p], raw'[p][i] \notin Valid
               PROVE  raw'[p][i] \in dlAhead'[p] \cup deadletters'
      BY DEF DeadlettersAhead
  <1> DEFINE Goal == raw'[p][i] \in dlAhead'[p] \cup deadletters'
  <1>1. p \in Partitions /\ ckPos'[p] \in Nat /\ i \in Nat /\ i >= 1 /\ i <= ckPos'[p]
      BY TypeStep DEF TypeOK
  <1>2. i \in 1..Len(raw[p]) => raw'[p][i] = raw[p][i]
      BY <1>1, RawGrows
  <1>3. ASSUME p \in injected, ckPos'[p] = ckPos[p]
        PROVE  raw'[p][i] = raw[p][i] /\ raw[p][i] \in dlAhead[p] \cup deadletters
      <2>1. i \in 1..Len(raw[p])
          <3>1. ckPos[p] <= pos[p] /\ pos[p] <= Len(raw[p])
              BY <1>1, <1>3 DEF InBounds
          <3>2. pos[p] \in Nat /\ Len(raw[p]) \in Nat
              BY <1>1 DEF TypeOK
          <3> QED
              BY <1>1, <1>3, <3>1, <3>2
      <2> QED
          BY <1>2, <1>3, <2>1 DEF DeadlettersAhead
  <1>4. CASE UNCHANGED <<injected, ckPos, dlAhead>>
      BY <1>3, <1>4, SinksGrow
  <1>5. CASE injected' = {}
      BY <1>5
  <1>6. ASSUME NEW q \in Partitions, InjectBarrier(q) PROVE Goal
      <2>1. /\ q \notin injected /\ injected' = injected \cup {q}
            /\ ckPos' = [ckPos EXCEPT ![q] = pos[q]]
            /\ dlAhead' = [dlAhead EXCEPT ![q] = dlq[q]]
            /\ UNCHANGED <<raw, deadletters>>
          BY <1>6 DEF InjectBarrier, kafkaVars
      <2>2. CASE p = q
          <3>1. ckPos'[p] = pos[p] /\ dlAhead'[p] = dlq[p]
              BY <1>1, <2>1, <2>2 DEF TypeOK
          <3>2. i \in 1..pos[p]
              BY <1>1, <3>1
          <3>3. Kept(p, i) /\ raw[p][i] \notin Valid
              BY <1>1, <2>1, <3>2 DEF AllKept
          <3> QED
              BY <2>1, <3>1, <3>3 DEF Kept
      <2>3. CASE p # q
          <3>1. p \in injected /\ ckPos'[p] = ckPos[p] /\ dlAhead'[p] = dlAhead[p]
              BY <1>1, <2>1, <2>3 DEF TypeOK
          <3> QED
              BY <1>3, <2>1, <3>1
      <2> QED
          BY <2>2, <2>3
  <1>7. ASSUME NEW q \in Partitions, NEW id \in EventIds, DeliverDeadletter(q, id) PROVE Goal
      <2>1. /\ UNCHANGED <<injected, ckPos, raw>>
            /\ deadletters' = deadletters \cup {id}
            /\ dlAhead' = [dlAhead EXCEPT ![q] = @ \ {id}]
          BY <1>7 DEF DeliverDeadletter
      <2>2. dlAhead[p] \subseteq dlAhead'[p] \cup {id}
          BY <1>1, <2>1 DEF TypeOK
      <2> QED
          BY <1>3, <2>1, <2>2
  <1>8. CASE \E id \in EventIds : Produce(id)
      BY <1>4, <1>8 DEF Produce, pendingVars
  <1>9. CASE \E q \in Partitions : Read(q)
      BY <1>4, <1>9 DEF Read, pendingVars
  <1>10. CASE \E q \in Partitions, s \in Subtasks : Deduplicate(q, s)
      BY <1>4, <1>10 DEF Deduplicate, pendingVars
  <1>11. CASE \E s \in Subtasks, id \in EventIds : SinkWrite(s, id) \/ Expire(s, id)
      BY <1>4, <1>11 DEF SinkWrite, Expire
  <1>12. CASE \E s \in Subtasks : Snapshot(s)
      BY <1>4, <1>12 DEF Snapshot
  <1>13. CASE \E committed \in BOOLEAN : CompleteCheckpoint(committed)
      BY <1>5, <1>13 DEF CompleteCheckpoint, ResetPending
  <1>14. CASE SinkError \/ DeployError \/ TaskLost \/ Cancel
      BY <1>5, <1>14 DEF SinkError, DeployError, TaskLost, Cancel, Fail, DropTasks, ResetPending
  <1>15. CASE Deploy \/ Submit \/ PgStart \/ PgStop
      BY <1>4, <1>15 DEF Deploy, Submit, PgStart, PgStop, pendingVars
  <1>16. CASE UNCHANGED vars
      BY <1>4, <1>16, Unchanged
  <1> QED
      BY <1>6, <1>7, <1>8, <1>9, <1>10, <1>11, <1>12, <1>13, <1>14, <1>15, <1>16
      DEF Next, Tasks, Disruption

\* A subtask that has snapshotted has, of the records before the barrier, nothing
\* but what is ahead of it in front of the sink or in Postgres.
LEMMA EventsAheadStep ==
  TypeOK /\ AllKept /\ InBounds /\ SeenCarried /\ EventsAhead /\ [Next]_vars => EventsAhead'
  <1> SUFFICES ASSUME TypeOK, AllKept, InBounds, SeenCarried, EventsAhead, [Next]_vars,
                      NEW s \in snapped'
               PROVE  /\ injected' = Partitions
                      /\ ckSeen'[s] \subseteq ahead'[s] \cup events'
                      /\ \A p \in Partitions : \A i \in 1..ckPos'[p] :
                           raw'[p][i] \in Valid /\ SubtaskOf[raw'[p][i]] = s
                             => raw'[p][i] \in ahead'[s] \cup events'
      BY DEF EventsAhead
  <1> DEFINE Goal == /\ injected' = Partitions
                     /\ ckSeen'[s] \subseteq ahead'[s] \cup events'
                     /\ \A p \in Partitions : \A i \in 1..ckPos'[p] :
                          raw'[p][i] \in Valid /\ SubtaskOf[raw'[p][i]] = s
                            => raw'[p][i] \in ahead'[s] \cup events'
  <1>1. s \in Subtasks /\ events \subseteq events'
      BY TypeStep, SinksGrow DEF TypeOK
  <1>2. ASSUME s \in snapped, ckPos' = ckPos,
               ahead[s] \subseteq ahead'[s] \cup events',
               ckSeen'[s] \subseteq ckSeen[s], injected' = injected
        PROVE  Goal
      <2>1. injected = Partitions /\ ckSeen[s] \subseteq ahead[s] \cup events
          BY <1>2 DEF EventsAhead
      <2>2. ASSUME NEW p \in Partitions, NEW i \in 1..ckPos'[p],
                   raw'[p][i] \in Valid, SubtaskOf[raw'[p][i]] = s
            PROVE  raw'[p][i] \in ahead'[s] \cup events'
          <3>1. ckPos[p] <= pos[p] /\ pos[p] <= Len(raw[p])
              BY <2>1 DEF InBounds
          <3>2. ckPos[p] \in Nat /\ pos[p] \in Nat /\ Len(raw[p]) \in Nat
              BY DEF TypeOK
          <3>3. i \in 1..ckPos[p] /\ i \in 1..Len(raw[p])
              BY <1>2, <3>1, <3>2
          <3>4. raw'[p][i] = raw[p][i]
              BY <3>3, RawGrows
          <3> QED
              BY <1>1, <1>2, <2>2, <3>3, <3>4 DEF EventsAhead
      <2> QED
          BY <1>1, <1>2, <2>1, <2>2
  <1>3. CASE UNCHANGED <<injected, ckPos, snapped, ckSeen, ahead>>
      BY <1>2, <1>3
  <1>4. CASE snapped' = {}
      BY <1>4
  <1>5. CASE \E q \in Partitions : InjectBarrier(q)
      <2>1. PICK q \in Partitions : q \notin injected
          BY <1>5 DEF InjectBarrier
      <2>2. snapped' = snapped
          BY <1>5 DEF InjectBarrier
      <2> QED
          BY <2>1, <2>2 DEF EventsAhead
  <1>6. ASSUME NEW t \in Subtasks, NEW id \in EventIds, SinkWrite(t, id) PROVE Goal
      <2>1. /\ UNCHANGED <<injected, ckPos, snapped, ckSeen>>
            /\ events' = events \cup {id}
            /\ ahead' = [ahead EXCEPT ![t] = @ \ {id}]
          BY <1>6 DEF SinkWrite
      <2>2. ahead[s] \subseteq ahead'[s] \cup {id}
          BY <1>1, <2>1 DEF TypeOK
      <2> QED
          BY <1>2, <2>1, <2>2
  <1>7. ASSUME NEW t \in Subtasks, NEW id \in EventIds, Expire(t, id) PROVE Goal
      <2>1. /\ UNCHANGED <<injected, ckPos, snapped, ahead>>
            /\ ckSeen' = [ckSeen EXCEPT ![t] = @ \ {id}]
          BY <1>7 DEF Expire
      <2>2. ckSeen'[s] \subseteq ckSeen[s]
          BY <1>1, <2>1 DEF TypeOK
      <2> QED
          BY <1>2, <2>1, <2>2
  <1>8. ASSUME NEW t \in Subtasks, Snapshot(t) PROVE Goal
      <2>1. /\ injected = Partitions /\ snapped' = snapped \cup {t}
            /\ \A p \in Partitions : \A i \in Waiting(p, t) : BehindBarrier(p, i)
            /\ ckSeen' = [ckSeen EXCEPT ![t] = seen[t]]
            /\ ahead' = [ahead EXCEPT ![t] = inflight[t]]
            /\ UNCHANGED <<raw, events, inflight, injected, ckPos>>
          BY <1>8 DEF Snapshot, kafkaVars, pgVars, taskVars
      <2>2. CASE s = t
          <3>1. ckSeen'[s] = seen[s] /\ ahead'[s] = inflight[s]
              BY <1>1, <2>1, <2>2 DEF TypeOK
          <3>2. ASSUME NEW p \in Partitions, NEW i \in 1..ckPos'[p],
                       raw'[p][i] \in Valid, SubtaskOf[raw'[p][i]] = s
                PROVE  raw'[p][i] \in ahead'[s] \cup events'
              <4>1. ckPos[p] \in Nat /\ pos[p] \in Nat /\ delivered[p][s] \in Nat
                  BY <1>1 DEF TypeOK
              <4>2. i \in 1..pos[p] /\ i <= ckPos[p]
                  BY <2>1, <4>1 DEF InBounds
              <4>3. i \notin Waiting(p, s)
                  BY <2>1, <2>2, <4>1, <4>2 DEF BehindBarrier
              <4>4. ~ (delivered[p][s] < i)
                  BY <2>1, <3>2, <4>1, <4>2, <4>3 DEF Waiting, PassesValidation
              <4>5. Kept(p, i) /\ raw'[p][i] = raw[p][i]
                  BY <2>1, <4>2 DEF AllKept
              <4> QED
                  BY <2>1, <3>1, <3>2, <4>4, <4>5 DEF Kept
          <3> QED
              BY <1>1, <2>1, <3>1, <3>2 DEF SeenCarried
      <2>3. CASE s # t
          <3>1. s \in snapped /\ ckSeen'[s] = ckSeen[s] /\ ahead'[s] = ahead[s]
              BY <1>1, <2>1, <2>3 DEF TypeOK
          <3> QED
              BY <1>2, <2>1, <3>1
      <2> QED
          BY <2>2, <2>3
  <1>9. CASE \E id \in EventIds : Produce(id)
      BY <1>3, <1>9 DEF Produce, pendingVars
  <1>10. CASE \E q \in Partitions : Read(q)
      BY <1>3, <1>10 DEF Read, pendingVars
  <1>11. CASE \E q \in Partitions, t \in Subtasks : Deduplicate(q, t)
      BY <1>3, <1>11 DEF Deduplicate, pendingVars
  <1>12. CASE \E q \in Partitions, id \in EventIds : DeliverDeadletter(q, id)
      BY <1>3, <1>12 DEF DeliverDeadletter
  <1>13. CASE \E committed \in BOOLEAN : CompleteCheckpoint(committed)
      BY <1>4, <1>13 DEF CompleteCheckpoint, ResetPending
  <1>14. CASE SinkError \/ DeployError \/ TaskLost \/ Cancel
      BY <1>4, <1>14 DEF SinkError, DeployError, TaskLost, Cancel, Fail, DropTasks, ResetPending
  <1>15. CASE Deploy \/ Submit \/ PgStart \/ PgStop
      BY <1>3, <1>15 DEF Deploy, Submit, PgStart, PgStop, pendingVars
  <1>16. CASE UNCHANGED vars
      BY <1>3, <1>16, Unchanged
  <1> QED
      BY <1>5, <1>6, <1>7, <1>8, <1>9, <1>10, <1>11, <1>12, <1>13, <1>14, <1>15, <1>16
      DEF Next, Tasks, Disruption

\* No step loses a record that has been read.
LEMMA KeptStep ==
  TypeOK /\ AllKept /\ InBounds /\ SeenCarried /\ CheckpointCovered /\ [Next]_vars => AllKept'
  <1> SUFFICES ASSUME TypeOK, AllKept, InBounds, SeenCarried, CheckpointCovered, [Next]_vars,
                      NEW p \in Partitions, NEW i \in 1..pos'[p]
               PROVE  Kept(p, i)'
      BY DEF AllKept
  <1>1. /\ pos[p] \in Nat /\ pos'[p] \in Nat /\ i \in Nat /\ i >= 1 /\ i <= pos'[p]
        /\ pos[p] <= Len(raw[p]) /\ Len(raw[p]) \in Nat
      BY TypeStep DEF TypeOK, InBounds
  <1>2. /\ i \in 1..Len(raw[p]) => raw[p][i] \in EventIds /\ raw'[p][i] = raw[p][i]
        /\ \A id \in EventIds : SubtaskOf[id] \in Subtasks
      <2>1. raw[p] \in Seq(EventIds)
          BY DEF TypeOK
      <2>2. i \in 1..Len(raw[p]) => raw[p][i] \in EventIds
          BY <2>1
      <2>3. i \in 1..Len(raw[p]) => raw'[p][i] = raw[p][i]
          BY RawGrows
      <2> QED
          BY <2>2, <2>3, ConstantsAssumption
  \* A record read before the step that the step leaves where it was, or moves on.
  <1>3. ASSUME i <= pos[p], delivered'[p] = delivered[p],
               \A t \in Subtasks : inflight[t] \subseteq inflight'[t] \cup events',
               dlq[p] \subseteq dlq'[p] \cup deadletters'
        PROVE  Kept(p, i)'
      <2>1. i \in 1..pos[p] /\ i \in 1..Len(raw[p])
          BY <1>1, <1>3
      <2>2. Kept(p, i) /\ raw'[p][i] = raw[p][i] /\ SubtaskOf[raw[p][i]] \in Subtasks
          BY <1>2, <2>1 DEF AllKept
      <2> QED
          BY <1>3, <2>2, SinksGrow DEF Kept
  <1>4. CASE UNCHANGED <<pos, delivered, inflight, dlq>>
      BY <1>1, <1>3, <1>4
  <1>5. CASE DropTasks
      BY <1>1, <1>5 DEF DropTasks, PerPartition
  <1>6. ASSUME NEW q \in Partitions, Read(q) PROVE Kept(p, i)'
      <2>1. /\ pos[q] < Len(raw[q]) /\ pos' = [pos EXCEPT ![q] = @ + 1]
            /\ UNCHANGED <<raw, deadletters, events, delivered, inflight>>
          BY <1>6 DEF Read, kafkaVars, pgVars
      <2>2. LET id == raw[q][pos[q] + 1] IN
            dlq' = IF id \in Valid THEN dlq ELSE [dlq EXCEPT ![q] = @ \cup {id}]
          BY <1>6 DEF Read, PassesValidation
      <2>3. dlq[p] \subseteq dlq'[p]
          BY <2>2 DEF TypeOK
      <2>4. CASE i <= pos[p]
          BY <1>3, <2>1, <2>3, <2>4
      <2>5. CASE i > pos[p]
          <3>1. p = q /\ i = pos[p] + 1
              BY <1>1, <2>1, <2>5 DEF TypeOK
          <3>2. i \in 1..Len(raw[p])
              BY <1>1, <2>1, <3>1
          <3>3. raw[p][i] \in EventIds /\ SubtaskOf[raw[p][i]] \in Subtasks
              BY <1>2, <3>2
          <3>4. CASE raw[p][i] \in Valid
              <4>1. delivered[p][SubtaskOf[raw[p][i]]] \in Nat
                    /\ delivered[p][SubtaskOf[raw[p][i]]] <= pos[p]
                  BY <3>3 DEF TypeOK, InBounds
              <4> QED
                  BY <1>1, <2>1, <3>1, <3>4, <4>1 DEF Kept
          <3>5. CASE raw[p][i] \notin Valid
              <4>1. raw[p][i] \in dlq'[p]
                  BY <2>2, <3>1, <3>5 DEF TypeOK
              <4> QED
                  BY <2>1, <3>5, <4>1 DEF Kept
          <3> QED
              BY <3>4, <3>5
      <2> QED
          BY <1>1, <2>4, <2>5
  <1>7. ASSUME NEW q \in Partitions, NEW t \in Subtasks, Deduplicate(q, t) PROVE Kept(p, i)'
      <2>1. UNCHANGED <<raw, deadletters, events, pos, dlq>>
          BY <1>7 DEF Deduplicate, kafkaVars, pgVars
      <2>2. PICK k \in Waiting(q, t) :
               /\ \A j \in Waiting(q, t) : k <= j
               /\ delivered' = [delivered EXCEPT ![q][t] = k]
               /\ \/ raw[q][k] \in seen[t] /\ UNCHANGED <<seen, inflight>>
                  \/ inflight' = [inflight EXCEPT ![t] = @ \cup {raw[q][k]}]
          BY <1>7 DEF Deduplicate
      <2>3. inflight \in [Subtasks -> SUBSET EventIds] /\ delivered \in [Partitions -> [Subtasks -> Nat]]
          BY DEF TypeOK
      <2>4. \A u \in Subtasks : inflight[u] \subseteq inflight'[u]
          BY <2>2, <2>3
      <2>5. raw[q][k] \in inflight'[t] \cup events
          BY <2>2, <2>3 DEF SeenCarried
      <2>6. CASE p # q \/ raw[p][i] \notin Valid \/ SubtaskOf[raw[p][i]] # t
          <3>1. i \in 1..pos[p] /\ i \in 1..Len(raw[p])
              BY <1>1, <2>1
          <3>2. Kept(p, i) /\ SubtaskOf[raw[p][i]] \in Subtasks
              BY <1>2, <3>1 DEF AllKept
          <3>3. raw[p][i] \in Valid =>
                    delivered'[p][SubtaskOf[raw[p][i]]] = delivered[p][SubtaskOf[raw[p][i]]]
              BY <2>2, <2>3, <2>6, <3>2
          <3> QED
              BY <2>1, <2>4, <3>2, <3>3 DEF Kept
      <2>7. CASE p = q /\ raw[p][i] \in Valid /\ SubtaskOf[raw[p][i]] = t
          <3>1. k \in Nat /\ delivered'[p][t] = k
              BY <2>2, <2>3, <2>7 DEF Waiting, TypeOK
          <3>2. i \in 1..pos[p] /\ delivered[p][t] \in Nat
              BY <1>1, <2>1, <2>3
          <3>3. Kept(p, i)
              BY <3>2 DEF AllKept
          <3>4. CASE delivered[p][t] < i
              <4>1. i \in Waiting(q, t)
                  BY <1>1, <2>1, <2>7, <3>2, <3>4 DEF Waiting, PassesValidation
              <4>2. k < i \/ k = i
                  BY <1>1, <2>2, <3>1, <4>1
              <4> QED
                  BY <2>1, <2>5, <2>7, <3>1, <4>2 DEF Kept
          <3>5. CASE ~ (delivered[p][t] < i)
              BY <2>1, <2>4, <2>7, <3>3, <3>5 DEF Kept
          <3> QED
              BY <3>4, <3>5
      <2> QED
          BY <2>6, <2>7
  <1>8. ASSUME NEW t \in Subtasks, NEW id \in EventIds, SinkWrite(t, id) PROVE Kept(p, i)'
      <2>1. /\ UNCHANGED <<pos, delivered, dlq>> /\ events' = events \cup {id}
            /\ inflight' = [inflight EXCEPT ![t] = @ \ {id}]
          BY <1>8 DEF SinkWrite
      <2>2. \A u \in Subtasks : inflight[u] \subseteq inflight'[u] \cup {id}
          BY <2>1 DEF TypeOK
      <2> QED
          BY <1>1, <1>3, <2>1, <2>2
  <1>9. ASSUME NEW q \in Partitions, NEW id \in EventIds, DeliverDeadletter(q, id) PROVE Kept(p, i)'
      <2>1. /\ UNCHANGED <<pos, delivered, inflight>> /\ deadletters' = deadletters \cup {id}
            /\ dlq' = [dlq EXCEPT ![q] = @ \ {id}]
          BY <1>9 DEF DeliverDeadletter
      <2>2. dlq[p] \subseteq dlq'[p] \cup {id}
          BY <2>1 DEF TypeOK
      <2> QED
          BY <1>1, <1>3, <2>1, <2>2
  <1>10. CASE Deploy
      <2>1. pos' = completed.pos /\ UNCHANGED <<raw, events, deadletters>>
          BY <1>10 DEF Deploy, RestoredPos, kafkaVars
      <2>2. i \in 1..completed.pos[p]
          BY <1>1, <2>1
      <2>3. Accounted(raw[p][i])
          BY <2>2 DEF CheckpointCovered, AccountedUpTo
      <2> QED
          BY <2>1, <2>3 DEF Accounted, Kept
  <1>11. CASE \E id \in EventIds : Produce(id)
      BY <1>4, <1>11 DEF Produce, taskVars
  <1>12. CASE \E q \in Partitions : InjectBarrier(q)
      BY <1>4, <1>12 DEF InjectBarrier, taskVars
  <1>13. CASE \E t \in Subtasks : Snapshot(t)
      BY <1>4, <1>13 DEF Snapshot, taskVars
  <1>14. CASE \E committed \in BOOLEAN : CompleteCheckpoint(committed)
      BY <1>4, <1>14 DEF CompleteCheckpoint, taskVars
  <1>15. CASE \E t \in Subtasks, id \in EventIds : Expire(t, id)
      BY <1>4, <1>15 DEF Expire
  <1>16. CASE SinkError \/ DeployError \/ TaskLost \/ Cancel
      BY <1>5, <1>16 DEF SinkError, DeployError, TaskLost, Cancel, Fail
  <1>17. CASE Submit \/ PgStart \/ PgStop
      BY <1>4, <1>17 DEF Submit, PgStart, PgStop, taskVars
  <1>18. CASE UNCHANGED vars
      BY <1>4, <1>18, Unchanged
  <1> QED
      BY <1>6, <1>7, <1>8, <1>9, <1>10, <1>11, <1>12, <1>13, <1>14, <1>15, <1>16, <1>17, <1>18
      DEF Next, Tasks, Disruption

\* The initial state satisfies the inductive invariant.
LEMMA InvInit == Init => IInv
  <1> SUFFICES ASSUME Init PROVE IInv
      OBVIOUS
  <1>1. TypeOK
      BY TypeInit
  <1>2. AllKept /\ DeadlettersAhead /\ EventsAhead
      BY DEF Init, AllKept, DeadlettersAhead, EventsAhead, PerPartition, PerSubtask
  <1>3. InBounds /\ QuietWhenStopped
      BY DEF Init, InBounds, QuietWhenStopped, NoCheckpoint, PerPartition, PerSubtask
  <1>4. SeenCarried
      BY DEF Init, SeenCarried, NoCheckpoint, PerPartition, PerSubtask
  <1>5. CheckpointCovered
      BY DEF Init, CheckpointCovered, AccountedUpTo, NoCheckpoint, PerPartition
  <1> QED
      BY <1>1, <1>2, <1>3, <1>4, <1>5 DEF IInv

\* Every step keeps the inductive invariant: the lemmas above, one per conjunct.
LEMMA InvStep == IInv /\ [Next]_vars => IInv'
  BY TypeStep, BoundsStep, QuietStep, SeenStep, DeadlettersAheadStep, EventsAheadStep,
     CoveredStep, KeptStep DEF IInv

\* The inductive invariant holds in every reachable state, whatever the number of
\* partitions, subtasks, ids, restarts, crashes and resubmissions.
THEOREM Invariance == Spec => []IInv
  BY InvInit, InvStep, PTL DEF Spec

\* In every reachable state a restart from the latest completed checkpoint, or
\* a source started at the group's committed offsets, skips no record that has
\* not reached Postgres or the dead-letter topic.
THEOREM CheckpointsCovered == Spec => []CheckpointCovered
  <1>1. IInv => CheckpointCovered
      BY DEF IInv
  <1> QED
      BY <1>1, Invariance, PTL

\* The invariant's Kept is RecordsConserved.
LEMMA KeptConserved == TypeOK /\ AllKept => RecordsConserved
  <1> SUFFICES ASSUME TypeOK, AllKept, NEW p \in Partitions, NEW i \in 1..pos[p],
                      raw[p][i] \in Valid, delivered[p][SubtaskOf[raw[p][i]]] < i
               PROVE  i \in Waiting(p, SubtaskOf[raw[p][i]])
      BY DEF AllKept, Kept, RecordsConserved, Accounted
  <1>1. SubtaskOf[raw[p][i]] \in Subtasks
      BY ConstantsAssumption
  <1>2. pos[p] \in Nat /\ delivered[p][SubtaskOf[raw[p][i]]] \in Nat
      BY <1>1 DEF TypeOK
  <1> QED
      BY <1>2 DEF Waiting, PassesValidation

\* Between the source and the sinks no record is lost, whatever crashes,
\* replays, expiries and resubmissions happen.
THEOREM NothingLost == Spec => []RecordsConserved
  <1>1. IInv => RecordsConserved
      BY KeptConserved DEF IInv
  <1> QED
      BY <1>1, Invariance, PTL

-----------------------------------------------------------------------------
(* NoRewriteAfterCheckpoint *)

\* Dedup lets an id pass only if its state does not have it, so the argument is
\* that the state keeps containing the checkpoints taken from it: what has
\* expired from one has expired from all.
Fresh(s) ==
    /\ job = "RUNNING" => completed.seen[s] \subseteq seen[s]
    /\ job # "RUNNING" => s \notin snapped
    /\ s \in snapped => /\ ckSeen[s] \subseteq seen[s]
                        /\ inflight[s] \cap ckSeen[s] \subseteq ahead[s]
    /\ inflight[s] \cap completed.seen[s] = {}

AllFresh == \A s \in Subtasks : Fresh(s)

\* Initially no checkpoint claims anything.
LEMMA FreshInit == Init => AllFresh
  BY DEF Init, AllFresh, Fresh, NoCheckpoint, PerSubtask

\* Every step keeps the dedup state at least as large as the snapshots taken of
\* it, and the records in front of a sink out of them.
LEMMA FreshStep == TypeOK /\ QuietWhenStopped /\ AllFresh /\ [Next]_vars => AllFresh'
  <1> SUFFICES ASSUME TypeOK, QuietWhenStopped, AllFresh, [Next]_vars, NEW s \in Subtasks
               PROVE  Fresh(s)'
      BY DEF AllFresh
  <1>0. Fresh(s)
      BY DEF AllFresh
  <1>1. CASE UNCHANGED <<job, completed, seen, snapped, ckSeen, inflight, ahead>>
      BY <1>0, <1>1 DEF Fresh
  <1>2. CASE DropTasks /\ job' # "RUNNING"
      BY <1>2 DEF Fresh, DropTasks, ResetPending, PerSubtask
  <1>3. ASSUME NEW p \in Partitions, NEW t \in Subtasks, Deduplicate(p, t) PROVE Fresh(s)'
      <2>1. UNCHANGED <<job, completed, snapped, ckSeen, ahead>>
          BY <1>3 DEF Deduplicate, jobVars, pendingVars
      <2>2. PICK i \in Waiting(p, t) :
              \/ UNCHANGED <<seen, inflight>>
              \/ /\ raw[p][i] \notin seen[t]
                 /\ seen' = [seen EXCEPT ![t] = @ \cup {raw[p][i]}]
                 /\ inflight' = [inflight EXCEPT ![t] = @ \cup {raw[p][i]}]
          BY <1>3 DEF Deduplicate
      <2> DEFINE id == raw[p][i]
      <2> HIDE DEF id
      <2>3. CASE UNCHANGED <<seen, inflight>>
          BY <1>1, <2>1, <2>3
      <2>4. CASE /\ id \notin seen[t]
                 /\ seen' = [seen EXCEPT ![t] = @ \cup {id}]
                 /\ inflight' = [inflight EXCEPT ![t] = @ \cup {id}]
          <3>1. CASE s # t
              <4>1. seen'[s] = seen[s] /\ inflight'[s] = inflight[s]
                  BY <2>4, <3>1 DEF TypeOK
              <4> QED
                  BY <1>0, <2>1, <4>1 DEF Fresh
          <3>2. CASE s = t
              <4>1. seen'[s] = seen[s] \cup {id} /\ inflight'[s] = inflight[s] \cup {id}
                  BY <2>4, <3>2 DEF TypeOK
              <4>2. job = "RUNNING" /\ id \notin seen[s]
                  BY <1>3, <2>4, <3>2 DEF Deduplicate
              <4> QED
                  BY <1>0, <2>1, <4>1, <4>2 DEF Fresh
          <3> QED
              BY <3>1, <3>2
      <2> QED
          BY <2>2, <2>3, <2>4 DEF id
  <1>4. ASSUME NEW t \in Subtasks, NEW id \in EventIds, SinkWrite(t, id) PROVE Fresh(s)'
      <2>1. UNCHANGED <<job, completed, seen, snapped, ckSeen>>
          BY <1>4 DEF SinkWrite, jobVars
      <2>2. \/ inflight'[s] = inflight[s] /\ ahead'[s] = ahead[s]
            \/ inflight'[s] = inflight[s] \ {id} /\ ahead'[s] = ahead[s] \ {id}
          BY <1>4 DEF SinkWrite, TypeOK
      <2> QED
          BY <1>0, <2>1, <2>2 DEF Fresh
  <1>5. ASSUME NEW t \in Subtasks, NEW id \in EventIds, Expire(t, id) PROVE Fresh(s)'
      <2>1. UNCHANGED <<job, inflight, snapped, ahead>>
          BY <1>5 DEF Expire
      <2>2. \/ UNCHANGED <<seen[s], ckSeen[s], completed.seen[s]>>
            \/ /\ seen'[s] = seen[s] \ {id} /\ ckSeen'[s] = ckSeen[s] \ {id}
               /\ completed'.seen[s] = completed.seen[s] \ {id}
          BY <1>5 DEF Expire, TypeOK
      <2> QED
          BY <1>0, <2>1, <2>2 DEF Fresh
  <1>6. ASSUME NEW t \in Subtasks, Snapshot(t) PROVE Fresh(s)'
      <2>1. UNCHANGED <<job, completed, seen, inflight>> /\ job = "RUNNING"
          BY <1>6 DEF Snapshot, jobVars, taskVars
      <2>2. \/ /\ UNCHANGED <<ckSeen[s], ahead[s]>> /\ (s \in snapped' <=> s \in snapped)
            \/ ckSeen'[s] = seen[s] /\ ahead'[s] = inflight[s]
          BY <1>6 DEF Snapshot, TypeOK
      <2> QED
          BY <1>0, <2>1, <2>2 DEF Fresh
  <1>7. ASSUME NEW committed \in BOOLEAN, CompleteCheckpoint(committed) PROVE Fresh(s)'
      <2>1. /\ UNCHANGED <<job, seen, inflight>> /\ job = "RUNNING"
            /\ completed'.seen = ckSeen /\ snapped' = {}
          BY <1>7 DEF CompleteCheckpoint, ResetPending, taskVars
      <2>2. s \in snapped /\ ahead[s] = {}
          BY <1>7 DEF CompleteCheckpoint, BarrierThroughSinks
      <2> QED
          BY <1>0, <2>1, <2>2 DEF Fresh
  <1>8. CASE Deploy
      <2>1. /\ UNCHANGED <<completed, inflight, snapped>> /\ seen' = completed.seen
            /\ job' = "RUNNING" /\ job # "RUNNING"
          BY <1>8 DEF Deploy, RestoredSeen, pendingVars
      <2> QED
          BY <1>0, <2>1 DEF Fresh
  <1>9. CASE Submit
      <2>1. /\ UNCHANGED <<inflight, snapped>> /\ completed' = NoCheckpoint
            /\ job' # "RUNNING" /\ job # "RUNNING"
          BY <1>9 DEF Submit, taskVars, pendingVars
      <2> QED
          BY <1>0, <2>1 DEF Fresh, NoCheckpoint, PerSubtask
  <1>10. CASE SinkError \/ DeployError \/ TaskLost \/ Cancel
      BY <1>2, <1>10 DEF SinkError, DeployError, TaskLost, Cancel, Fail
  <1>11. CASE \E id \in EventIds : Produce(id)
      BY <1>1, <1>11 DEF Produce, jobVars, taskVars, pendingVars
  <1>12. CASE \E p \in Partitions : Read(p) \/ InjectBarrier(p)
      BY <1>1, <1>12 DEF Read, InjectBarrier, jobVars, taskVars, pendingVars
  <1>13. CASE \E p \in Partitions, id \in EventIds : DeliverDeadletter(p, id)
      BY <1>1, <1>13 DEF DeliverDeadletter, jobVars
  <1>14. CASE PgStart \/ PgStop
      BY <1>1, <1>14 DEF PgStart, PgStop, jobVars, taskVars, pendingVars
  <1>15. CASE UNCHANGED vars
      BY <1>1, <1>15, Unchanged
  <1> QED
      BY <1>3, <1>4, <1>5, <1>6, <1>7, <1>8, <1>9, <1>10, <1>11, <1>12, <1>13, <1>14, <1>15
      DEF Next, Tasks, Disruption

\* Within a submission, an id in the dedup state of a completed checkpoint never
\* reaches the sinks again unless its entry has expired, however often the job
\* is restored from that checkpoint and replays.
THEOREM SeenIsNotRewritten == Spec => []NoRewriteAfterCheckpoint
  <1>1. Init => AllFresh
      BY FreshInit
  <1>2. IInv /\ AllFresh /\ [Next]_vars => AllFresh'
      BY FreshStep DEF IInv
  <1>3. AllFresh => NoRewriteAfterCheckpoint
      BY DEF AllFresh, Fresh, NoRewriteAfterCheckpoint
  <1> QED
      BY <1>1, <1>2, <1>3, Invariance, PTL DEF Spec

-----------------------------------------------------------------------------
(* CheckpointConsistent *)

\* One of the first n records of its partition has this id.
FoundUpTo(id, n) == \E i \in 1..n : raw[PartitionOf[id]][i] = id

\* The producer keys records by user, so an id has one partition.
Placed == \A p \in Partitions : \A i \in 1..Len(raw[p]) : PartitionOf[raw[p][i]] = p

\* Dedup learns ids from records the source has read.  Until it snapshots, the
\* channels it reads on stop at the barrier, so all it knows is before it.
Cut(s) ==
    /\ \A id \in seen[s] :
        /\ FoundUpTo(id, pos[PartitionOf[id]])
        /\ s \notin snapped /\ PartitionOf[id] \in injected => FoundUpTo(id, ckPos[PartitionOf[id]])
    /\ s \in snapped => \A id \in ckSeen[s] : FoundUpTo(id, ckPos[PartitionOf[id]])
    /\ \A id \in completed.seen[s] : FoundUpTo(id, completed.pos[PartitionOf[id]])

AllCut == \A s \in Subtasks : Cut(s)

\* Initially dedup knows nothing and the topic is empty.
LEMMA CutInit == Init => Placed /\ AllCut
  BY DEF Init, Placed, AllCut, Cut, NoCheckpoint, PerPartition, PerSubtask

\* Records stay in the partition of their id.
LEMMA PlacedStep == TypeOK /\ Placed /\ [Next]_vars => Placed'
  <1> SUFFICES ASSUME TypeOK, Placed, [Next]_vars PROVE Placed'
      OBVIOUS
  <1>1. ASSUME NEW id \in EventIds, Produce(id) PROVE Placed'
      <2>1. raw' = [raw EXCEPT ![PartitionOf[id]] = Append(@, id)]
          BY <1>1 DEF Produce
      <2> SUFFICES ASSUME NEW p \in Partitions, NEW i \in 1..Len(raw'[p])
                   PROVE  PartitionOf[raw'[p][i]] = p
          BY DEF Placed
      <2>2. CASE p # PartitionOf[id]
          BY <2>1, <2>2 DEF TypeOK, Placed
      <2>3. CASE p = PartitionOf[id]
          <3>1. raw'[p] = Append(raw[p], id) /\ raw[p] \in Seq(EventIds)
              BY <2>1, <2>3 DEF TypeOK
          <3>2. i \in 1..Len(raw[p]) \/ raw'[p][i] = id
              BY <3>1
          <3>3. i \in 1..Len(raw[p]) => raw'[p][i] = raw[p][i]
              BY <3>1
          <3> QED
              BY <2>3, <3>2, <3>3 DEF Placed
      <2> QED
          BY <2>2, <2>3
  <1>2. CASE raw' = raw
      BY <1>2 DEF Placed
  <1>3. CASE Tasks
      BY <1>2, <1>3 DEF Tasks, Read, InjectBarrier, Deduplicate, SinkWrite, DeliverDeadletter,
                        Snapshot, CompleteCheckpoint, SinkError, kafkaVars
  <1>4. CASE \E s \in Subtasks, id \in EventIds : Expire(s, id)
      BY <1>2, <1>4 DEF Expire, kafkaVars
  <1>5. CASE Deploy \/ DeployError \/ Submit \/ PgStart \/ Disruption
      BY <1>2, <1>5 DEF Deploy, DeployError, Submit, PgStart, Disruption, TaskLost, Cancel,
                        PgStop, kafkaVars
  <1>6. CASE UNCHANGED vars
      BY <1>2, <1>6, Unchanged
  <1> QED
      BY <1>1, <1>3, <1>4, <1>5, <1>6 DEF Next

\* What is found up to a position stays found, there and further on.
LEMMA FoundStable ==
  ASSUME TypeOK, [Next]_vars, NEW id \in EventIds,
         NEW m \in Nat, NEW n \in Nat, m <= n, m <= Len(raw[PartitionOf[id]]), FoundUpTo(id, m)
  PROVE  \E i \in 1..n : raw'[PartitionOf[id]][i] = id
  <1>1. PartitionOf[id] \in Partitions
      BY ConstantsAssumption
  <1>2. PICK i \in 1..m : raw[PartitionOf[id]][i] = id
      BY DEF FoundUpTo
  <1>3. /\ Len(raw[PartitionOf[id]]) \in Nat
        /\ \A j \in 1..Len(raw[PartitionOf[id]]) :
              raw'[PartitionOf[id]][j] = raw[PartitionOf[id]][j]
      BY <1>1, RawGrows
  <1>4. i \in 1..n /\ i \in 1..Len(raw[PartitionOf[id]])
      BY <1>2, <1>3
  <1> QED
      BY <1>2, <1>3, <1>4

\* Every step keeps the dedup state, its snapshots and the completed checkpoint
\* within what was read before the barrier.
LEMMA CutStep ==
  TypeOK /\ InBounds /\ QuietWhenStopped /\ EventsAhead /\ Placed /\ AllCut /\ [Next]_vars
    => AllCut'
  <1> SUFFICES ASSUME TypeOK, InBounds, QuietWhenStopped, EventsAhead, Placed, AllCut,
                      [Next]_vars, NEW s \in Subtasks
               PROVE  Cut(s)'
      BY DEF AllCut
  <1>a. Cut(s)
      BY DEF AllCut
  <1>b. /\ seen[s] \subseteq EventIds /\ ckSeen[s] \subseteq EventIds
        /\ completed.seen[s] \subseteq EventIds
      BY DEF TypeOK
  \* Positions do not exceed the topic.
  <1>c. ASSUME NEW p \in Partitions
        PROVE  /\ pos[p] \in Nat /\ ckPos[p] \in Nat /\ completed.pos[p] \in Nat
               /\ Len(raw[p]) \in Nat
               /\ pos[p] <= Len(raw[p]) /\ completed.pos[p] <= Len(raw[p])
               /\ p \in injected \/ s \in snapped => ckPos[p] <= Len(raw[p])
      <2>1. raw[p] \in Seq(EventIds) /\ (s \in snapped => injected = Partitions)
          BY DEF TypeOK, EventsAhead
      <2> QED
          BY <2>1 DEF TypeOK, InBounds
  <1>d. \A id \in EventIds : PartitionOf[id] \in Partitions
      BY ConstantsAssumption
  \* The four conjuncts of Cut(s), with what they need of the new state.
  <1>1. ASSUME completed'.seen[s] \subseteq completed.seen[s], completed'.pos = completed.pos
        PROVE  (\A id \in completed.seen[s] : FoundUpTo(id, completed.pos[PartitionOf[id]]))'
      <2> SUFFICES ASSUME NEW id \in completed'.seen[s]
                   PROVE  \E i \in 1..completed'.pos[PartitionOf[id]] : raw'[PartitionOf[id]][i] = id
          BY DEF FoundUpTo
      <2> DEFINE n == completed.pos[PartitionOf[id]]
      <2>1. id \in EventIds /\ FoundUpTo(id, n)
          BY <1>1, <1>a, <1>b DEF Cut
      <2>2. n \in Nat /\ n <= Len(raw[PartitionOf[id]])
          BY <1>c, <1>d, <2>1
      <2>3. ASSUME NEW k \in Nat, k <= Len(raw[PartitionOf[id]]), FoundUpTo(id, k)
            PROVE  \E i \in 1..k : raw'[PartitionOf[id]][i] = id
          <3>1. id \in EventIds /\ k <= k
              BY <2>1, <2>3
          <3> QED
              BY <2>3, <3>1, FoundStable
      <2> HIDE DEF n
      <2>4. \E i \in 1..n : raw'[PartitionOf[id]][i] = id
          BY <2>1, <2>2, <2>3
      <2> QED
          BY <1>1, <2>4 DEF n
  <1>2. ASSUME s \in snapped, ckSeen'[s] \subseteq ckSeen[s], ckPos' = ckPos
        PROVE  (\A id \in ckSeen[s] : FoundUpTo(id, ckPos[PartitionOf[id]]))'
      <2> SUFFICES ASSUME NEW id \in ckSeen'[s]
                   PROVE  \E i \in 1..ckPos'[PartitionOf[id]] : raw'[PartitionOf[id]][i] = id
          BY DEF FoundUpTo
      <2> DEFINE n == ckPos[PartitionOf[id]]
      <2>1. id \in EventIds /\ FoundUpTo(id, n)
          BY <1>2, <1>a, <1>b DEF Cut
      <2>2. n \in Nat /\ n <= Len(raw[PartitionOf[id]])
          BY <1>2, <1>c, <1>d, <2>1
      <2> HIDE DEF n
      <2>3. \E i \in 1..n : raw'[PartitionOf[id]][i] = id
          BY <2>1, <2>2, FoundStable
      <2> QED
          BY <1>2, <2>3 DEF n
  <1>3. ASSUME NEW id \in seen[s], pos'[PartitionOf[id]] \in Nat,
               pos'[PartitionOf[id]] >= pos[PartitionOf[id]]
        PROVE  FoundUpTo(id, pos[PartitionOf[id]])'
      <2>1. id \in EventIds /\ FoundUpTo(id, pos[PartitionOf[id]])
          BY <1>a, <1>b DEF Cut
      <2>2. \E i \in 1..pos'[PartitionOf[id]] : raw'[PartitionOf[id]][i] = id
          BY <1>3, <1>c, <1>d, <2>1, FoundStable
      <2> QED
          BY <2>2 DEF FoundUpTo
  <1>4. ASSUME NEW id \in seen[s], s \notin snapped, PartitionOf[id] \in injected, ckPos' = ckPos
        PROVE  FoundUpTo(id, ckPos[PartitionOf[id]])'
      <2> DEFINE n == ckPos[PartitionOf[id]]
      <2>1. id \in EventIds /\ FoundUpTo(id, n)
          BY <1>4, <1>a, <1>b DEF Cut
      <2>2. n \in Nat /\ n <= Len(raw[PartitionOf[id]])
          BY <1>4, <1>c, <1>d, <2>1
      <2> HIDE DEF n
      <2>3. \E i \in 1..n : raw'[PartitionOf[id]][i] = id
          BY <2>1, <2>2, FoundStable
      <2> QED
          BY <1>4, <2>3 DEF n, FoundUpTo
  \* Steps that at most read on, or forget.
  <1>5. ASSUME seen'[s] \subseteq seen[s], ckSeen'[s] \subseteq ckSeen[s],
               completed'.seen[s] \subseteq completed.seen[s], completed'.pos = completed.pos,
               \A p \in Partitions : pos'[p] \in Nat /\ pos'[p] >= pos[p],
               UNCHANGED <<injected, ckPos, snapped>>
        PROVE  Cut(s)'
      <2>1. ASSUME NEW id \in seen'[s]
            PROVE  /\ FoundUpTo(id, pos[PartitionOf[id]])'
                   /\ s \notin snapped' /\ PartitionOf[id] \in injected'
                        => FoundUpTo(id, ckPos[PartitionOf[id]])'
          <3>1. id \in seen[s] /\ PartitionOf[id] \in Partitions
              BY <1>5, <1>b, <1>d
          <3> QED
              BY <1>3, <1>4, <1>5, <3>1
      <2> QED
          BY <1>1, <1>2, <1>5, <2>1 DEF Cut
  <1>6. ASSUME DropTasks, completed' = completed PROVE Cut(s)'
      <2>1. seen'[s] = {} /\ snapped' = {}
          BY <1>6 DEF DropTasks, ResetPending, PerSubtask
      <2> QED
          BY <1>1, <1>6, <2>1 DEF Cut
  <1>7. ASSUME NEW p \in Partitions, NEW t \in Subtasks, Deduplicate(p, t) PROVE Cut(s)'
      <2>1. UNCHANGED <<raw, completed, pos, injected, ckPos, snapped, ckSeen>>
          BY <1>7 DEF Deduplicate, kafkaVars, jobVars, pendingVars
      <2>2. PICK i \in Waiting(p, t) :
              /\ BehindBarrier(p, i) => t \in snapped
              /\ seen' = seen \/ seen' = [seen EXCEPT ![t] = @ \cup {raw[p][i]}]
          BY <1>7 DEF Deduplicate
      <2>3. /\ i \in 1..pos[p] /\ PartitionOf[raw[p][i]] = p
            /\ t \notin snapped /\ p \in injected => i \in 1..ckPos[p]
          <3>1. i \in (delivered[p][t] + 1)..pos[p] /\ delivered[p][t] \in Nat
              BY <2>2 DEF Waiting, TypeOK
          <3>2. i \in 1..pos[p] /\ i \in 1..Len(raw[p])
              BY <1>c, <3>1
          <3> QED
              BY <1>c, <2>2, <3>2 DEF Placed, BehindBarrier
      <2>4. CASE seen'[s] = seen[s]
          BY <1>5, <1>c, <2>1, <2>4
      <2>5. CASE s = t /\ seen'[s] = seen[s] \cup {raw[p][i]}
          <3>1. ASSUME NEW id \in seen'[s]
                PROVE  /\ FoundUpTo(id, pos[PartitionOf[id]])
                       /\ s \notin snapped /\ PartitionOf[id] \in injected
                            => FoundUpTo(id, ckPos[PartitionOf[id]])
              <4>1. CASE id \in seen[s]
                  BY <1>a, <4>1 DEF Cut
              <4>2. CASE id = raw[p][i]
                  BY <2>3, <2>5, <4>2 DEF FoundUpTo
              <4> QED
                  BY <2>5, <4>1, <4>2
          <3> QED
              BY <1>a, <2>1, <3>1 DEF Cut, FoundUpTo
      <2> QED
          BY <2>2, <2>4, <2>5 DEF TypeOK
  <1>8. ASSUME NEW p \in Partitions, InjectBarrier(p) PROVE Cut(s)'
      <2>1. /\ UNCHANGED <<raw, completed, pos, seen, snapped, ckSeen>>
            /\ p \notin injected /\ injected' = injected \cup {p}
            /\ \A q \in Partitions : ckPos'[q] = IF q = p THEN pos[p] ELSE ckPos[q]
          BY <1>8 DEF InjectBarrier, TypeOK, kafkaVars, jobVars, taskVars
      <2>2. s \notin snapped
          BY <2>1 DEF EventsAhead
      <2>3. \A id \in seen[s] : PartitionOf[id] \in Partitions
          BY <1>b, <1>d
      <2>4. ASSUME NEW id \in seen[s], PartitionOf[id] \in injected'
            PROVE  FoundUpTo(id, ckPos'[PartitionOf[id]])
          BY <1>a, <2>1, <2>2, <2>3, <2>4 DEF Cut
      <2> QED
          BY <1>a, <2>1, <2>2, <2>4 DEF Cut, FoundUpTo
  <1>9. ASSUME NEW t \in Subtasks, Snapshot(t) PROVE Cut(s)'
      <2>1. /\ UNCHANGED <<raw, completed, pos, seen, injected, ckPos>>
            /\ t \notin snapped /\ snapped' = snapped \cup {t} /\ injected = Partitions
            /\ ckSeen' = [ckSeen EXCEPT ![t] = seen[t]]
          BY <1>9 DEF Snapshot, kafkaVars, jobVars, taskVars
      <2>2. CASE s # t
          <3>1. ckSeen'[s] = ckSeen[s] /\ (s \in snapped' <=> s \in snapped)
              BY <2>1, <2>2 DEF TypeOK
          <3> QED
              BY <1>a, <2>1, <3>1 DEF Cut, FoundUpTo
      <2>3. CASE s = t
          <3>1. ckSeen'[s] = seen[s] /\ s \in snapped' /\ s \notin snapped
              BY <2>1, <2>3 DEF TypeOK
          <3>2. \A id \in seen[s] : PartitionOf[id] \in injected
              BY <1>b, <1>d, <2>1
          <3> QED
              BY <1>a, <2>1, <3>1, <3>2 DEF Cut, FoundUpTo
      <2> QED
          BY <2>2, <2>3
  <1>10. ASSUME NEW committed \in BOOLEAN, CompleteCheckpoint(committed) PROVE Cut(s)'
      <2>1. /\ UNCHANGED <<raw, pos, seen>> /\ s \in snapped
            /\ completed' = [pos |-> ckPos, seen |-> ckSeen]
            /\ injected' = {} /\ snapped' = {}
          BY <1>10 DEF CompleteCheckpoint, ResetPending, taskVars
      <2> QED
          BY <1>a, <2>1 DEF Cut, FoundUpTo
  <1>11. CASE Deploy
      <2>1. /\ UNCHANGED <<raw, completed, injected, ckPos, snapped, ckSeen>>
            /\ seen' = completed.seen /\ pos' = completed.pos /\ injected = {}
          BY <1>11 DEF Deploy, RestoredSeen, RestoredPos, kafkaVars, pendingVars, QuietWhenStopped
      <2> QED
          BY <1>a, <2>1 DEF Cut, FoundUpTo
  <1>12. CASE Submit
      <2>1. /\ UNCHANGED <<raw, pos, seen, injected, ckPos, snapped, ckSeen>>
            /\ completed'.seen[s] = {}
          BY <1>12 DEF Submit, NoCheckpoint, PerSubtask, kafkaVars, taskVars, pendingVars
      <2> QED
          BY <1>a, <2>1 DEF Cut, FoundUpTo
  <1>13. CASE SinkError \/ DeployError \/ TaskLost \/ Cancel
      BY <1>6, <1>13 DEF SinkError, DeployError, TaskLost, Cancel, Fail
  <1>14. ASSUME NEW t \in Subtasks, NEW id \in EventIds, Expire(t, id) PROVE Cut(s)'
      <2>1. /\ UNCHANGED <<pos, injected, ckPos, snapped>> /\ completed'.pos = completed.pos
            /\ seen'[s] \subseteq seen[s] /\ ckSeen'[s] \subseteq ckSeen[s]
            /\ completed'.seen[s] \subseteq completed.seen[s]
          BY <1>14 DEF Expire, TypeOK
      <2> QED
          BY <1>5, <1>c, <2>1
  <1>15. ASSUME NEW p \in Partitions, Read(p) PROVE Cut(s)'
      <2>1. /\ UNCHANGED <<completed, seen, injected, ckPos, snapped, ckSeen>>
            /\ \A q \in Partitions : pos'[q] \in Nat /\ pos'[q] >= pos[q]
          BY <1>15, <1>c DEF Read, TypeOK, jobVars, pendingVars
      <2> QED
          BY <1>5, <2>1
  <1>16. CASE UNCHANGED <<completed, pos, seen, injected, ckPos, snapped, ckSeen>>
      BY <1>5, <1>16, <1>c
  <1>17. CASE \E id \in EventIds : Produce(id)
      BY <1>16, <1>17 DEF Produce, jobVars, taskVars, pendingVars
  <1>18. CASE \E t \in Subtasks, id \in EventIds : SinkWrite(t, id)
      BY <1>16, <1>18 DEF SinkWrite, jobVars
  <1>19. CASE \E p \in Partitions, id \in EventIds : DeliverDeadletter(p, id)
      BY <1>16, <1>19 DEF DeliverDeadletter, jobVars
  <1>20. CASE PgStart \/ PgStop
      BY <1>16, <1>20 DEF PgStart, PgStop, jobVars, taskVars, pendingVars
  <1>21. CASE UNCHANGED vars
      BY <1>16, <1>21, Unchanged
  <1> QED
      BY <1>7, <1>8, <1>9, <1>10, <1>11, <1>12, <1>13, <1>14, <1>15, <1>17, <1>18, <1>19,
         <1>20, <1>21 DEF Next, Tasks, Disruption

\* Every completed checkpoint is a consistent cut: the dedup state restored with
\* a position knows no event that the replay from that position brings first.
THEOREM CheckpointsAreCuts == Spec => []CheckpointConsistent
  <1>1. Init => Placed /\ AllCut
      BY CutInit
  <1>2. IInv /\ Placed /\ AllCut /\ [Next]_vars => Placed' /\ AllCut'
      BY PlacedStep, CutStep DEF IInv
  <1>3. AllCut => CheckpointConsistent
      BY DEF AllCut, Cut, FoundUpTo, CheckpointConsistent
  <1> QED
      BY <1>1, <1>2, <1>3, Invariance, PTL DEF Spec

-----------------------------------------------------------------------------
(* ValidationDedup implements EventLedger: what the run MCSplit checks as     *)
(* LedgerSpec.                                                             *)

\* What is on its way to a sink comes from the topic and belongs on that side.
Sound ==
    /\ \A s \in Subtasks : inflight[s] \subseteq Produced \cap Valid
    /\ \A p \in Partitions : dlq[p] \subseteq Produced \ Valid

\* An id is produced exactly if some partition has a record of it.
LEMMA ProducedId ==
  ASSUME NEW id
  PROVE  id \in Produced <=> \E p \in Partitions : \E i \in 1..Len(raw[p]) : raw[p][i] = id
  BY DEF Produced

\* The producer adds its id and no other to what is produced.
LEMMA ProduceAdds ==
  ASSUME TypeOK, NEW id \in EventIds, Produce(id)
  PROVE  Produced' = Produced \cup {id}
  <1> DEFINE q == PartitionOf[id]
  <1>1. q \in Partitions
      BY ConstantsAssumption
  <1>2. /\ raw'[q] = Append(raw[q], id)
        /\ \A p \in Partitions : p # q => raw'[p] = raw[p]
      BY <1>1 DEF Produce, TypeOK
  <1>3. /\ raw[q] \in Seq(EventIds)
        /\ Len(raw'[q]) = Len(raw[q]) + 1 /\ Len(raw[q]) \in Nat
        /\ raw'[q][Len(raw[q]) + 1] = id
        /\ \A i \in 1..Len(raw[q]) : raw'[q][i] = raw[q][i]
      BY <1>1, <1>2 DEF TypeOK
  <1>4. ASSUME NEW x \in Produced' PROVE x \in Produced \cup {id}
      <2>1. PICK p \in Partitions : \E i \in 1..Len(raw'[p]) : raw'[p][i] = x
          BY <1>4 DEF Produced
      <2>4. PICK i \in 1..Len(raw'[p]) : raw'[p][i] = x
          BY <2>1
      <2>2. CASE p # q
          BY <1>2, <2>2, <2>4, ProducedId
      <2>3. CASE p = q
          <3>1. i \in 1..Len(raw[q]) \/ i = Len(raw[q]) + 1
              BY <1>3, <2>3, <2>4
          <3> QED
              BY <1>1, <1>3, <2>3, <2>4, <3>1, ProducedId
      <2> QED
          BY <2>2, <2>3
  <1>5. ASSUME NEW x \in Produced PROVE x \in Produced'
      <2>1. PICK p \in Partitions : \E i \in 1..Len(raw[p]) : raw[p][i] = x
          BY <1>5, ProducedId
      <2>4. PICK i \in 1..Len(raw[p]) : raw[p][i] = x
          BY <2>1
      <2>2. i \in 1..Len(raw'[p]) /\ raw'[p][i] = x
          <3>1. CASE p = q
              <4>1. i \in 1..Len(raw[q])
                  BY <2>4, <3>1
              <4> QED
                  BY <1>3, <2>4, <3>1, <4>1
          <3>2. CASE p # q
              BY <1>2, <2>4, <3>2
          <3> QED
              BY <3>1, <3>2
      <2> QED
          BY <2>2 DEF Produced
  <1>6. id \in Produced'
      <2>1. Len(raw[q]) + 1 \in 1..Len(raw'[q])
          BY <1>3
      <2>2. id \in {raw'[q][i] : i \in 1..Len(raw'[q])}
          BY <1>3, <2>1
      <2> QED
          BY <1>1, <2>2 DEF Produced
  <1> QED
      BY <1>4, <1>5, <1>6

\* Every step but the producer's leaves the topic alone.
LEMMA ProducedStable ==
  ASSUME raw' = raw
  PROVE  Produced' = Produced
  BY DEF Produced

\* Initially nothing is on its way.
LEMMA SoundInit == Init => Sound
  BY DEF Init, Sound, PerPartition, PerSubtask

\* Records reach the sinks only from the topic, through validation: no step
\* puts one on the wrong side.
LEMMA SoundStep == TypeOK /\ InBounds /\ Sound /\ [Next]_vars => Sound'
  <1> SUFFICES ASSUME TypeOK, InBounds, Sound, [Next]_vars PROVE Sound'
      OBVIOUS
  <1>1. ASSUME NEW id \in EventIds, Produce(id) PROVE Sound'
      <2>1. UNCHANGED <<inflight, dlq>>
          BY <1>1 DEF Produce, taskVars
      <2> QED
          BY <1>1, <2>1, ProduceAdds DEF Sound
  <1>2. ASSUME NEW p \in Partitions, Read(p) PROVE Sound'
      <2> DEFINE id == raw[p][pos[p] + 1]
      <2>1. raw' = raw /\ inflight' = inflight
          BY <1>2 DEF Read, kafkaVars
      <2>2. id \in Produced
          <3>1. pos[p] + 1 \in 1..Len(raw[p])
              BY <1>2 DEF Read, TypeOK
          <3> QED
              BY <3>1, ProducedId
      <2>3. dlq' = dlq \/ (id \notin Valid /\ dlq' = [dlq EXCEPT ![p] = @ \cup {id}])
          BY <1>2 DEF Read, PassesValidation
      <2>4. \A q \in Partitions : \A x \in dlq'[q] : x \in dlq[q] \/ (x = id /\ id \notin Valid)
          <3> HIDE DEF id
          <3>1. CASE dlq' = dlq
              BY <3>1
          <3>2. CASE id \notin Valid /\ dlq' = [dlq EXCEPT ![p] = @ \cup {id}]
              <4>1. \A q \in Partitions : dlq'[q] = IF q = p THEN dlq[q] \cup {id} ELSE dlq[q]
                  BY <3>2 DEF TypeOK
              <4> QED
                  BY <3>2, <4>1
          <3> QED
              BY <2>3, <3>1, <3>2
      <2> QED
          BY <2>1, <2>2, <2>4, ProducedStable DEF Sound
  <1>3. ASSUME NEW p \in Partitions, NEW s \in Subtasks, Deduplicate(p, s) PROVE Sound'
      <2>1. raw' = raw /\ dlq' = dlq
          BY <1>3 DEF Deduplicate, kafkaVars
      <2>2. PICK i \in Waiting(p, s) :
              \/ inflight' = inflight
              \/ inflight' = [inflight EXCEPT ![s] = @ \cup {raw[p][i]}]
          BY <1>3 DEF Deduplicate
      <2>3. raw[p][i] \in Produced \cap Valid
          <3>1. /\ i \in (delivered[p][s] + 1)..pos[p] /\ raw[p][i] \in Valid
                /\ delivered[p][s] \in Nat /\ pos[p] \in Nat
                /\ pos[p] <= Len(raw[p]) /\ raw[p] \in Seq(EventIds)
              BY <2>2 DEF Waiting, PassesValidation, TypeOK, InBounds
          <3>2. i \in 1..Len(raw[p])
              BY <3>1
          <3> QED
              BY <3>1, <3>2, ProducedId
      <2>4. \A t \in Subtasks : inflight'[t] \subseteq inflight[t] \cup {raw[p][i]}
          BY <2>2 DEF TypeOK
      <2> QED
          BY <2>1, <2>3, <2>4, ProducedStable DEF Sound
  <1>4. ASSUME NEW s \in Subtasks, NEW id \in EventIds, SinkWrite(s, id) PROVE Sound'
      <2>1. /\ raw' = raw /\ dlq' = dlq
            /\ inflight' = [inflight EXCEPT ![s] = @ \ {id}]
          BY <1>4 DEF SinkWrite, kafkaVars
      <2> QED
          BY <2>1, ProducedStable DEF Sound, TypeOK
  <1>5. ASSUME NEW p \in Partitions, NEW id \in EventIds, DeliverDeadletter(p, id) PROVE Sound'
      <2>1. /\ raw' = raw /\ inflight' = inflight
            /\ dlq' = [dlq EXCEPT ![p] = @ \ {id}]
          BY <1>5 DEF DeliverDeadletter
      <2> QED
          BY <2>1, ProducedStable DEF Sound, TypeOK
  <1>6. CASE DropTasks /\ raw' = raw
      BY <1>6 DEF Sound, DropTasks, PerPartition, PerSubtask
  <1>7. CASE UNCHANGED <<raw, inflight, dlq>>
      BY <1>7, ProducedStable DEF Sound
  <1>8. CASE SinkError \/ DeployError \/ TaskLost \/ Cancel
      BY <1>6, <1>8 DEF SinkError, DeployError, TaskLost, Cancel, Fail, kafkaVars
  <1>9. CASE \E p \in Partitions : InjectBarrier(p)
      BY <1>7, <1>9 DEF InjectBarrier, kafkaVars, taskVars
  <1>10. CASE \E s \in Subtasks : Snapshot(s)
      BY <1>7, <1>10 DEF Snapshot, kafkaVars, taskVars
  <1>11. CASE \E committed \in BOOLEAN : CompleteCheckpoint(committed)
      BY <1>7, <1>11 DEF CompleteCheckpoint, taskVars
  <1>12. CASE \E s \in Subtasks, id \in EventIds : Expire(s, id)
      BY <1>7, <1>12 DEF Expire, kafkaVars
  <1>13. CASE Deploy \/ Submit \/ PgStart \/ PgStop
      BY <1>7, <1>13 DEF Deploy, Submit, PgStart, PgStop, kafkaVars, taskVars
  <1>14. CASE UNCHANGED vars
      BY <1>7, <1>14, Unchanged
  <1> QED
      BY <1>1, <1>2, <1>3, <1>4, <1>5, <1>8, <1>9, <1>10, <1>11, <1>12, <1>13, <1>14
      DEF Next, Tasks, Disruption

-----------------------------------------------------------------------------
\* The initial state is an initial state of the ledger.
LEMMA LedgerInit == Init => Ledger!Init
  BY DEF Init, Ledger!Init, Produced, PerPartition

\* Every step is a step of the ledger or leaves it alone: only the producer
\* publishes, only the sinks settle, and what they settle was published and is
\* on their side.
LEMMA LedgerStep == TypeOK /\ Sound /\ [Next]_vars => [Ledger!Next]_(Ledger!vars)
  <1> SUFFICES ASSUME TypeOK, Sound, [Next]_vars PROVE [Ledger!Next]_(Ledger!vars)
      OBVIOUS
  <1>1. ASSUME NEW id \in EventIds, Produce(id) PROVE Ledger!Next
      <2>1. Ledger!Publish(id)
          BY <1>1, ProduceAdds DEF Ledger!Publish, Produce, pgVars
      <2> QED
          BY <2>1 DEF Ledger!Next
  <1>2. ASSUME NEW id \in EventIds, NEW s \in Subtasks, id \in inflight[s],
               events' = events \cup {id}, UNCHANGED <<raw, deadletters>>
        PROVE  Ledger!Next
      <2>1. Ledger!Land(id)
          BY <1>2, ProducedStable DEF Ledger!Land, Sound
      <2> QED
          BY <2>1 DEF Ledger!Next, Ledger!Settle
  <1>3. ASSUME NEW s \in Subtasks, NEW id \in EventIds, SinkWrite(s, id) PROVE Ledger!Next
      BY <1>2, <1>3 DEF SinkWrite, kafkaVars
  <1>4. ASSUME NEW p \in Partitions, NEW id \in EventIds, DeliverDeadletter(p, id)
        PROVE  Ledger!Next
      <2>1. /\ id \in dlq[p] /\ deadletters' = deadletters \cup {id}
            /\ raw' = raw /\ events' = events
          BY <1>4 DEF DeliverDeadletter, pgVars
      <2>2. Ledger!DeadLetter(id)
          BY <2>1, ProducedStable DEF Ledger!DeadLetter, Sound
      <2> QED
          BY <2>2 DEF Ledger!Next, Ledger!Settle
  <1>5. CASE UNCHANGED <<raw, events, deadletters>>
      BY <1>5, ProducedStable DEF Ledger!vars
  <1>6. CASE PgStop
      <2>1. UNCHANGED <<raw, deadletters>>
          BY <1>6 DEF PgStop, kafkaVars
      <2>2. CASE events' = events
          BY <1>5, <2>1, <2>2
      <2>3. CASE \E s \in Subtasks : \E id \in inflight[s] : events' = events \cup {id}
          <3>1. PICK s \in Subtasks : \E id \in inflight[s] : events' = events \cup {id}
              BY <2>3
          <3>2. PICK id \in inflight[s] : events' = events \cup {id}
              BY <3>1
          <3>3. id \in EventIds
              BY <3>2 DEF TypeOK
          <3> QED
              BY <1>2, <2>1, <3>2, <3>3
      <2> QED
          BY <1>6, <2>2, <2>3 DEF PgStop
  <1>7. CASE \E p \in Partitions : Read(p) \/ InjectBarrier(p)
      BY <1>5, <1>7 DEF Read, InjectBarrier, kafkaVars, pgVars
  <1>8. CASE \E p \in Partitions, s \in Subtasks : Deduplicate(p, s)
      BY <1>5, <1>8 DEF Deduplicate, kafkaVars, pgVars
  <1>9. CASE \E s \in Subtasks : Snapshot(s)
      BY <1>5, <1>9 DEF Snapshot, kafkaVars, pgVars
  <1>10. CASE \E committed \in BOOLEAN : CompleteCheckpoint(committed)
      BY <1>5, <1>10 DEF CompleteCheckpoint, pgVars
  <1>11. CASE SinkError \/ DeployError \/ TaskLost \/ Cancel
      BY <1>5, <1>11 DEF SinkError, DeployError, TaskLost, Cancel, kafkaVars, pgVars
  <1>12. CASE \E s \in Subtasks, id \in EventIds : Expire(s, id)
      BY <1>5, <1>12 DEF Expire, kafkaVars, pgVars
  <1>13. CASE Deploy \/ Submit \/ PgStart
      BY <1>5, <1>13 DEF Deploy, Submit, PgStart, kafkaVars, pgVars
  <1>14. CASE UNCHANGED vars
      BY <1>5, <1>14, Unchanged
  <1> QED
      BY <1>1, <1>3, <1>4, <1>6, <1>7, <1>8, <1>9, <1>10, <1>11, <1>12, <1>13, <1>14
      DEF Next, Tasks, Disruption

\* The job keeps the promise of EventLedger: through any crashes, replays,
\* expiries and resubmissions only produced events settle, each on its own
\* side, and what has settled never disappears.
THEOREM ImplementsLedger == Spec => LedgerSpec
  <1>1. Init => Sound
      BY SoundInit
  <1>2. IInv /\ Sound /\ [Next]_vars => Sound'
      BY SoundStep DEF IInv
  <1>3. IInv /\ Sound /\ [Next]_vars => [Ledger!Next]_(Ledger!vars)
      BY LedgerStep DEF IInv
  <1> QED
      BY <1>1, <1>2, <1>3, LedgerInit, Invariance, PTL DEF Spec, LedgerSpec, Ledger!Spec
=============================================================================
