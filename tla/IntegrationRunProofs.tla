------------------------ MODULE IntegrationRunProofs ------------------------
(***************************************************************************)
(* Proofs about IntegrationRun: what the drain rule and the reconciliation *)
(* establish, for any records, backlog, number of rounds and pace of the   *)
(* pipeline.                                                               *)
(***************************************************************************)
EXTENDS IntegrationRun, FiniteSetTheorems, TLAPS

\* Ids of the records a level before left in the topic.
Earlier == {raw[i] : i \in 1..rawBefore}

\* The drain loop: a poll under way has read the offsets that are still there,
\* the last count is of no more rows than there are now, and if nothing has come
\* since that count, the equal polls before it were quiet.
PollsInOrder ==
    /\ phase = "prepared" => rawBefore = 0
    /\ phase \in {"prepared", "live"} => nowRaw = -1 /\ previous = <<-1, -1>>
    /\ nowRaw # -1 => nowRaw = Len(raw) /\ ~Steady /\ polls < MaxPolls
    /\ quiet <= polls
    /\ previous[2] <= Cardinality(events)
    /\ previous = <<Len(raw), Cardinality(events)>> => stable <= quiet

\* The ledger as far as the script can tell: what has settled was sent, and the
\* ids of this run are not those of an earlier one.
SentBefore ==
    /\ rawBefore <= Len(raw)
    /\ events \subseteq IdsFrom(0) \cap ValidIds
    /\ deadletters \subseteq IdsFrom(0) \ ValidIds
    /\ Earlier \cap IdsFrom(rawBefore) = {}

\* What the script holds is true of the pipeline when it was taken, and what was
\* settled when the loop was left is in the evidence taken later.
EvidenceKept ==
    /\ rowsAt["start"] \subseteq Earlier
    /\ settledBy \subseteq events \cup deadletters
    /\ phase \in {"prepared", "live", "drain"} => settledBy = {}
    /\ phase \in {"ended", "copied"} => settledBy \ deadletters \subseteq rowsAt["drain_end"]
    /\ rowsAt["drain_end"] \subseteq events
    /\ phase = "prepared" => copied.raw = {}
    /\ copied.raw \subseteq RawRange
    /\ copied.dead \subseteq deadletters
    /\ Reconciled => /\ unaccounted \cap settledBy \subseteq deadletters
                     /\ unaccounted \cap copied.dead = {}
                     /\ copied.raw \subseteq unaccounted \cup events \cup copied.dead

IInv == TypeOK /\ PollsInOrder /\ SentBefore /\ EvidenceKept

-----------------------------------------------------------------------------
(* The two ways in which the pipeline moves *)

\* The ids of the topic are those of the earlier records and those of this run.
LEMMA IdsSplit ==
    ASSUME TypeOK, rawBefore <= Len(raw)
    PROVE  IdsFrom(0) = Earlier \cup IdsFrom(rawBefore)
BY DEF TypeOK, IdsFrom, Earlier

\* No range changes with the topic and the recorded offsets left alone.
LEMMA IdsKept ==
    ASSUME UNCHANGED <<raw, rawBefore>>
    PROVE  /\ IdsFrom(0)' = IdsFrom(0)
           /\ RawRange' = RawRange
           /\ IdsFrom(rawBefore)' = IdsFrom(rawBefore)
           /\ Earlier' = Earlier
BY DEF IdsFrom, RawRange, Earlier

\* A record appended to the topic adds its id to every range that ends there.
LEMMA IdsAppend ==
    ASSUME TypeOK, NEW id \in EventIds, raw' = Append(raw, id), rawBefore <= Len(raw),
           UNCHANGED rawBefore
    PROVE  /\ IdsFrom(0)' = IdsFrom(0) \cup {id}
           /\ IdsFrom(rawBefore)' = IdsFrom(rawBefore) \cup {id}
           /\ Earlier' = Earlier
<1>1. raw \in Seq(EventIds) /\ Len(raw) \in Nat /\ rawBefore \in Nat
  BY DEF TypeOK
<1>2. Len(raw') = Len(raw) + 1 /\ raw'[Len(raw) + 1] = id
  BY <1>1
<1>3. \A i \in 1..Len(raw) : raw'[i] = raw[i]
  BY <1>1
<1>4. ASSUME NEW n \in Nat, n <= Len(raw)
      PROVE  {raw'[i] : i \in (n + 1)..Len(raw')} = {raw[i] : i \in (n + 1)..Len(raw)} \cup {id}
  <2>1. (n + 1)..Len(raw') = ((n + 1)..Len(raw)) \cup {Len(raw) + 1}
    BY <1>1, <1>2, <1>4
  <2>2. \A i \in (n + 1)..Len(raw) : raw'[i] = raw[i]
    BY <1>1, <1>3, <1>4
  <2>. QED  BY <2>1, <2>2, <1>2
<1>5. IdsFrom(0)' = IdsFrom(0) \cup {id}
  BY <1>1, <1>4 DEF IdsFrom
<1>6. IdsFrom(rawBefore)' = IdsFrom(rawBefore) \cup {id}
  BY <1>1, <1>4 DEF IdsFrom
<1>7. Earlier' = Earlier
  BY <1>1, <1>3 DEF Earlier
<1>. QED  BY <1>5, <1>6, <1>7

\* The rows can be counted, and a row that lands is one more.
LEMMA RowsCounted ==
    ASSUME TypeOK
    PROVE  /\ IsFiniteSet(events)
           /\ Cardinality(events) \in Nat
           /\ \A id \in EventIds \ events :
                 Cardinality(events \cup {id}) = Cardinality(events) + 1
<1>1. IsFiniteSet(events)
  BY RunAssumption, FS_Subset DEF TypeOK, RunAssumption
<1>. QED  BY <1>1, FS_CardinalityType, FS_AddElement

-----------------------------------------------------------------------------
(* The invariant *)

\* The invariant holds at the start, behind whatever a level before left.
LEMMA InvInit == Init => IInv
<1>. SUFFICES ASSUME Init PROVE IInv
  OBVIOUS
<1>1. raw \in Seq(EventIds) /\ Len(raw) \in Nat
  <2>1. CASE raw = <<>>
    BY <2>1
  <2>2. CASE raw \in Backlog
    BY <2>2, RunAssumption DEF RunAssumption
  <2>. QED  BY <2>1, <2>2 DEF Init
<1>2. TypeOK
  BY <1>1, RunAssumption DEF Init, TypeOK, RunAssumption, Harnesses, Phases, Instants
<1>3. PollsInOrder
  <2>1. /\ previous = <<-1, -1>> /\ previous[2] = -1 /\ previous[1] = -1
        /\ nowRaw = -1 /\ quiet = 0 /\ polls = 0 /\ rawBefore = 0
    BY DEF Init
  <2>2. Cardinality(events) \in Nat
    BY <1>2, RowsCounted
  <2>3. previous # <<Len(raw), Cardinality(events)>>
    BY <1>1, <2>1
  <2>4. previous[2] <= Cardinality(events)
    BY <2>1, <2>2
  <2>5. quiet <= polls /\ (phase = "prepared" => rawBefore = 0)
    BY <1>1, <2>1
  <2>. QED  BY <2>1, <2>3, <2>4, <2>5, Zenon DEF PollsInOrder
<1>4. SentBefore
  BY <1>1 DEF Init, SentBefore, Earlier
<1>5. EvidenceKept
  BY DEF Init, EvidenceKept, Instants, Reconciled
<1>. QED  BY <1>2, <1>3, <1>4, <1>5 DEF IInv

\* A record the producer sends, while the script waits for it.
LEMMA SendStep ==
    ASSUME IInv, NEW id \in EventIds, Send(id),
           UNCHANGED <<harness, phase, drain, evidence, settledBy>>
    PROVE  IInv'
<1>1. UNCHANGED <<events, deadletters, rawBefore, rowsAt, nowRaw, previous, stable, polls,
                  copied, unaccounted>>
  BY DEF Send, Ledger!Publish, drain, evidence
<1>2. /\ IdsFrom(0)' = IdsFrom(0) \cup {id}
      /\ IdsFrom(rawBefore)' = IdsFrom(rawBefore) \cup {id}
      /\ Earlier' = Earlier
  BY <1>1, IdsAppend DEF IInv, SentBefore, Send
<1>3. raw' \in Seq(EventIds) /\ Len(raw') = Len(raw) + 1 /\ Len(raw) \in Nat
  BY DEF IInv, TypeOK, Send
<1>4. TypeOK'
  BY <1>1, <1>3, RunAssumption DEF IInv, TypeOK, Send, RunAssumption
<1>5. PollsInOrder'
  BY <1>1, <1>3, RunAssumption DEF IInv, TypeOK, PollsInOrder, Steady, Send, RunAssumption
<1>6. id \notin Earlier
  <2>1. IdsFrom(0) \ IdsFrom(rawBefore) = Earlier
    BY IdsSplit DEF IInv, SentBefore
  <2>. QED  BY <2>1 DEF Send
<1>7. SentBefore'
  BY <1>1, <1>2, <1>3, <1>6 DEF IInv, TypeOK, SentBefore
<1>8. EvidenceKept'
  BY <1>1, <1>2 DEF IInv, EvidenceKept, RawRange, Reconciled, Send
<1>. QED  BY <1>4, <1>5, <1>7, <1>8 DEF IInv

\* A row or a dead letter that appears, whatever the script is doing.
LEMMA SettleStep ==
    ASSUME IInv, NEW id \in EventIds, Settle(id),
           UNCHANGED <<harness, phase, drain, evidence, settledBy>>
    PROVE  IInv'
<1>1. UNCHANGED <<raw, rawBefore, rowsAt, nowRaw, previous, stable, polls, copied, unaccounted>>
  BY DEF Settle, drain, evidence
<1>2. /\ events \subseteq events' /\ deadletters \subseteq deadletters'
      /\ events' \subseteq EventIds /\ deadletters' \subseteq EventIds
      /\ \/ events' = events /\ quiet' = quiet
         \/ id \notin events /\ events' = events \cup {id} /\ quiet' = 0
  BY DEF Settle, Ledger!Land, Ledger!DeadLetter, IInv, TypeOK
<1>3. /\ IdsFrom(0)' = IdsFrom(0) /\ IdsFrom(rawBefore)' = IdsFrom(rawBefore)
      /\ RawRange' = RawRange /\ Earlier' = Earlier
  BY <1>1, IdsKept
<1>4. TypeOK'
  BY <1>1, <1>2, RunAssumption DEF IInv, TypeOK, RunAssumption
<1>5. PollsInOrder'
  <2>1. CASE events' = events /\ quiet' = quiet
    BY <2>1, <1>1 DEF IInv, PollsInOrder, Steady
  <2>2. CASE id \notin events /\ events' = events \cup {id} /\ quiet' = 0
    <3>1. Cardinality(events') = Cardinality(events) + 1 /\ Cardinality(events) \in Nat
      BY <2>2, RowsCounted DEF IInv
    <3>2. previous[2] \in Int /\ previous'[2] # Cardinality(events')
      BY <3>1, <1>1 DEF IInv, TypeOK, PollsInOrder
    <3>3. previous' # <<Len(raw'), Cardinality(events')>>
      BY <3>2
    <3>4. previous'[2] <= Cardinality(events')
      BY <3>1, <3>2, <1>1 DEF IInv, PollsInOrder
    <3>5. quiet' <= polls'
      BY <2>2, <1>1 DEF IInv, TypeOK
    <3>. QED  BY <3>3, <3>4, <3>5, <1>1 DEF IInv, PollsInOrder, Steady
  <2>. QED  BY <2>1, <2>2, <1>2
<1>6. SentBefore'
  BY <1>1, <1>3 DEF IInv, SentBefore, Settle, Ledger!Land, Ledger!DeadLetter
<1>7. EvidenceKept'
  BY <1>1, <1>2, <1>3 DEF IInv, EvidenceKept, Reconciled
<1>. QED  BY <1>4, <1>5, <1>6, <1>7 DEF IInv

\* A poll counts the rows: the counts are as before only if nothing came between.
LEMMA PollPgStep ==
    ASSUME IInv, PollPg
    PROVE  IInv'
<1>1. UNCHANGED <<phase, raw, events, deadletters, rawBefore, rowsAt, copied, unaccounted, settledBy>>
  BY DEF PollPg, pipeline, evidence
<1>2. Cardinality(events) \in Nat /\ Len(raw) \in Nat
  BY RowsCounted DEF IInv, TypeOK
<1>3. nowRaw = Len(raw) /\ stable < StableRounds /\ polls < MaxPolls
  BY RunAssumption DEF IInv, TypeOK, PollsInOrder, PollPg, Steady, RunAssumption
<1>4. stable' \in 0..StableRounds /\ stable' <= quiet' /\ quiet' = quiet + 1 /\ polls' = polls + 1
  BY <1>2, <1>3, RunAssumption
     DEF IInv, TypeOK, PollsInOrder, PollPg, SameAsBefore, RunAssumption
<1>5. TypeOK'
  BY <1>1, <1>2, <1>3, <1>4, RunAssumption DEF IInv, TypeOK, PollsInOrder, PollPg, RunAssumption
<1>6. PollsInOrder'
  <2>1. previous' = <<Len(raw), Cardinality(events)>> /\ nowRaw' = -1 /\ phase = "drain"
    BY <1>3 DEF PollPg
  <2>3. previous'[2] <= Cardinality(events')
    BY <1>1, <1>2, <2>1
  <2>2. quiet' <= polls'
    BY <1>4 DEF IInv, TypeOK, PollsInOrder
  <2>. QED  BY <1>1, <1>4, <2>1, <2>2, <2>3 DEF PollsInOrder
<1>7. SentBefore' /\ EvidenceKept'
  BY <1>1, IdsKept DEF IInv, SentBefore, EvidenceKept, Reconciled
<1>. QED  BY <1>5, <1>6, <1>7 DEF IInv

\* Every step of the script keeps the invariant.
LEMMA ScriptStep ==
    ASSUME IInv, Script
    PROVE  IInv'
<1>. USE RunAssumption DEF RunAssumption, IInv
<1>1. ASSUME RecordStart PROVE IInv'
  <2>1. UNCHANGED <<pipeline, drain, copied, unaccounted, quiet, settledBy, harness>>
    BY <1>1 DEF RecordStart
  <2>2. rawBefore' = Len(raw) /\ Len(raw) \in Nat /\ rawBefore = 0
    BY <1>1 DEF RecordStart, PollsInOrder, TypeOK
  <2>3. Earlier' = IdsFrom(0) /\ IdsFrom(rawBefore)' = {} /\ IdsFrom(0)' = IdsFrom(0)
    BY <2>1, <2>2 DEF Earlier, IdsFrom, pipeline, TypeOK
  <2>4. TypeOK'
    BY <1>1, <2>1, <2>2 DEF RecordStart, TypeOK, Stamp, Phases, Instants, pipeline, drain
  <2>5. PollsInOrder'
    BY <1>1, <2>1 DEF RecordStart, PollsInOrder, Steady, pipeline, drain
  <2>6. SentBefore'
    BY <2>1, <2>2, <2>3 DEF SentBefore, pipeline
  <2>7. rowsAt' = [rowsAt EXCEPT !["start"] = events] /\ rowsAt \in [Instants -> SUBSET EventIds]
    BY <1>1 DEF RecordStart, Stamp, TypeOK
  <2>8. rowsAt'["start"] = events /\ rowsAt'["drain_end"] = rowsAt["drain_end"]
    BY <2>7 DEF Instants
  <2>9. copied.raw = {} /\ settledBy = {} /\ phase' = "live"
    BY <1>1 DEF RecordStart, EvidenceKept
  <2>10. EvidenceKept'
    BY <2>1, <2>3, <2>8, <2>9 DEF EvidenceKept, SentBefore, RawRange, Reconciled, pipeline
  <2>. QED  BY <2>4, <2>5, <2>6, <2>10
<1>2. ASSUME ProducerExits \/ RecordDrainEnd PROVE IInv'
  <2>1. UNCHANGED <<harness, raw, events, deadletters, rawBefore, nowRaw, previous, stable, polls,
                    copied, unaccounted, quiet, settledBy>>
    BY <1>2 DEF ProducerExits, RecordDrainEnd, pipeline, drain
  <2>2. /\ phase \in {"live", "left"}
        /\ phase' \in {"drain", "failed", "ended"}
        /\ phase' = "drain" => phase = "live"
        /\ phase' = "ended" => phase = "left" /\ rowsAt' = [rowsAt EXCEPT !["drain_end"] = events]
    BY <1>2 DEF ProducerExits, RecordDrainEnd, Stamp
  <2>3. \E instant \in {"end", "drain_end"} : rowsAt' = [rowsAt EXCEPT ![instant] = events]
    BY <1>2 DEF ProducerExits, RecordDrainEnd, Stamp
  <2>4. /\ rowsAt' \in [Instants -> SUBSET EventIds]
        /\ rowsAt'["start"] = rowsAt["start"]
        /\ rowsAt'["drain_end"] \in {rowsAt["drain_end"], events}
        /\ phase' = "ended" => rowsAt'["drain_end"] = events
    BY <2>2, <2>3 DEF TypeOK, Instants
  <2>5. TypeOK'
    BY <2>1, <2>2, <2>4 DEF TypeOK, Phases
  <2>6. PollsInOrder'
    BY <2>1, <2>2 DEF PollsInOrder, Steady
  <2>7. SentBefore'
    BY <2>1, IdsKept DEF SentBefore
  <2>8. EvidenceKept'
    BY <2>1, <2>2, <2>4, IdsKept DEF EvidenceKept, Reconciled
  <2>. QED  BY <2>5, <2>6, <2>7, <2>8
<1>3. ASSUME PollRaw PROVE IInv'
  <2>1. UNCHANGED <<harness, phase, raw, events, deadletters, previous, stable, polls, quiet,
                    rawBefore, rowsAt, copied, unaccounted, settledBy>>
    BY <1>3 DEF PollRaw, pipeline, evidence
  <2>2. TypeOK'
    BY <1>3, <2>1 DEF TypeOK, PollRaw
  <2>3. PollsInOrder'
    BY <1>3, <2>1 DEF PollsInOrder, PollRaw, Steady
  <2>4. SentBefore' /\ EvidenceKept'
    BY <2>1, IdsKept DEF SentBefore, EvidenceKept, Reconciled
  <2>. QED  BY <2>2, <2>3, <2>4
<1>4. ASSUME PollPg PROVE IInv'
  BY <1>4, PollPgStep
<1>5. ASSUME LeaveDrain PROVE IInv'
  <2>1. /\ UNCHANGED <<harness, raw, events, deadletters, nowRaw, previous, stable, polls,
                       rawBefore, rowsAt, copied, unaccounted, quiet>>
        /\ phase = "drain" /\ phase' = "left"
        /\ settledBy' = events \cup deadletters
    BY <1>5 DEF LeaveDrain, pipeline, drain, evidence
  <2>2. TypeOK'
    BY <2>1 DEF TypeOK, Phases
  <2>3. PollsInOrder'
    BY <2>1 DEF PollsInOrder, Steady
  <2>4. SentBefore' /\ EvidenceKept'
    BY <2>1, IdsKept DEF SentBefore, EvidenceKept, Reconciled
  <2>. QED  BY <2>2, <2>3, <2>4
<1>6. ASSUME CopyTopics PROVE IInv'
  <2>1. /\ UNCHANGED <<harness, raw, events, deadletters, nowRaw, previous, stable, polls,
                       rawBefore, rowsAt, unaccounted, quiet, settledBy>>
        /\ phase = "ended" /\ phase' = "copied"
    BY <1>6 DEF CopyTopics, pipeline, drain
  <2>2. PICK rawIds \in SUBSET RawRange, deadIds \in SUBSET deadletters :
           copied' = [raw |-> rawIds, dead |-> deadIds]
    BY <1>6 DEF CopyTopics
  <2>3. RawRange \subseteq EventIds
    BY DEF RawRange, IdsFrom, TypeOK
  <2>4. TypeOK'
    BY <2>1, <2>2, <2>3 DEF TypeOK, Phases
  <2>5. PollsInOrder'
    BY <2>1 DEF PollsInOrder, Steady
  <2>6. SentBefore'
    BY <2>1, IdsKept DEF SentBefore
  <2>7. EvidenceKept'
    BY <2>1, <2>2, IdsKept DEF EvidenceKept, Reconciled
  <2>. QED  BY <2>4, <2>5, <2>6, <2>7
<1>7. ASSUME Reconcile PROVE IInv'
  <2>1. /\ UNCHANGED <<harness, raw, events, deadletters, nowRaw, previous, stable, polls,
                       rawBefore, rowsAt, copied, quiet, settledBy>>
        /\ phase = "copied" /\ phase' = "reconciled"
        /\ unaccounted' = (copied.raw \ Received) \ copied.dead
    BY <1>7 DEF Reconcile, pipeline, drain
  <2>2. TypeOK'
    BY <2>1 DEF TypeOK, Phases
  <2>3. PollsInOrder'
    BY <2>1 DEF PollsInOrder, Steady
  <2>4. SentBefore'
    BY <2>1, IdsKept DEF SentBefore
  <2>5. Received \subseteq events
    BY DEF Received, EvidenceKept
  <2>6. copied.raw \cap settledBy \subseteq Received \cup deadletters
    <3>1. copied.raw \cap rowsAt["start"] = {}
      BY DEF EvidenceKept, SentBefore, RawRange
    <3>2. settledBy \ deadletters \subseteq events \cap rowsAt["drain_end"]
      BY <2>1 DEF EvidenceKept
    <3>. QED  BY <3>1, <3>2 DEF Received
  <2>7. EvidenceKept'
    BY <2>1, <2>5, <2>6, IdsKept DEF EvidenceKept, Reconciled
  <2>. QED  BY <2>2, <2>3, <2>4, <2>7
<1>8. ASSUME ValidateApi \/ Report \/ CommandFails PROVE IInv'
  <2>1. UNCHANGED <<harness, raw, events, deadletters, nowRaw, previous, stable, polls, rawBefore,
                    rowsAt, copied, unaccounted, quiet, settledBy>>
    BY <1>8 DEF ValidateApi, Report, CommandFails, pipeline, drain, evidence
  <2>2. /\ phase # "prepared" /\ phase' \in {"failed", "passed", "reported"}
        /\ phase' # "failed" => phase = "reconciled"
    BY <1>8 DEF ValidateApi, Report, CommandFails
  <2>3. TypeOK'
    BY <2>1, <2>2 DEF TypeOK, Phases
  <2>4. PollsInOrder'
    BY <2>1, <2>2 DEF PollsInOrder, Steady
  <2>5. SentBefore' /\ EvidenceKept'
    BY <2>1, <2>2, IdsKept DEF SentBefore, EvidenceKept, Reconciled
  <2>. QED  BY <2>3, <2>4, <2>5
<1>. QED
  BY <1>1, <1>2, <1>3, <1>4, <1>5, <1>6, <1>7, <1>8 DEF Script

\* So does every step of the pipeline beside it.
LEMMA InvStep == IInv /\ [Next]_vars => IInv'
<1>. SUFFICES ASSUME IInv, [Next]_vars PROVE IInv'
  OBVIOUS
<1>1. ASSUME Pipeline PROVE IInv'
  BY <1>1, SendStep, SettleStep DEF Pipeline
<1>2. ASSUME Script PROVE IInv'
  BY <1>2, ScriptStep
<1>3. ASSUME UNCHANGED vars PROVE IInv'
  <2>1. UNCHANGED <<harness, phase, raw, events, deadletters, nowRaw, previous, stable, polls,
                    rawBefore, rowsAt, copied, unaccounted, quiet, settledBy>>
    BY <1>3 DEF vars, pipeline, drain, evidence
  <2>2. TypeOK' /\ PollsInOrder'
    BY <2>1 DEF IInv, TypeOK, PollsInOrder, Steady
  <2>3. SentBefore' /\ EvidenceKept'
    BY <2>1, IdsKept DEF IInv, SentBefore, EvidenceKept, Reconciled
  <2>. QED  BY <2>2, <2>3 DEF IInv
<1>. QED  BY <1>1, <1>2, <1>3 DEF Next

-----------------------------------------------------------------------------
(* The properties *)

\* Type correctness, with the bounds of the drain loop: a poll under way is one
\* that the loop still allowed.
THEOREM TypeCorrect == Spec => []TypeOK
<1>1. IInv => TypeOK
  BY DEF IInv
<1>. QED  BY InvInit, InvStep, <1>1, PTL DEF Spec

\* An id the reconciliation lists was not settled when the drain loop was left,
\* if the dead letters of that moment are in the copy.
THEOREM NoFalseAlarm == Spec => []UnaccountedIsReal
<1>1. IInv => UnaccountedIsReal
  BY DEF IInv, EvidenceKept, UnaccountedIsReal
<1>. QED  BY InvInit, InvStep, <1>1, PTL DEF Spec

\* If the list is empty and the copied range complete, every id of the run has
\* its row or its dead letter.
THEOREM NoFalseComfort == Spec => []NothingListedMeansSettled
<1>1. IInv => NothingListedMeansSettled
  BY DEF IInv, EvidenceKept, NothingListedMeansSettled, RawRange
<1>. QED  BY InvInit, InvStep, <1>1, PTL DEF Spec

\* The drain rule: equal polls in a row were polls through which nothing moved.
THEOREM EqualPollsAreQuiet == Spec => SteadyMeansQuiet
<1>1. ASSUME IInv, [Next]_vars
      PROVE  [stable' > stable => stable' <= quiet']_vars
  <2>1. CASE PollPg
    <3>1. Cardinality(events) \in Nat /\ Len(raw) \in Nat
      BY <1>1, RowsCounted DEF IInv, TypeOK
    <3>2. nowRaw = Len(raw)
      BY <1>1, <2>1 DEF IInv, PollsInOrder, PollPg
    <3>. QED  BY <1>1, <2>1, <3>1, <3>2, RunAssumption
              DEF IInv, TypeOK, PollsInOrder, PollPg, SameAsBefore, RunAssumption
  <2>2. CASE ~PollPg
    <3>1. UNCHANGED stable
      BY <1>1, <2>2 DEF Next, Pipeline, Script, RecordStart, ProducerExits, PollRaw, LeaveDrain,
                        RecordDrainEnd, CopyTopics, Reconcile, ValidateApi, Report, CommandFails,
                        drain, vars
    <3>. QED  BY <1>1, <3>1 DEF IInv, TypeOK
  <2>. QED  BY <2>1, <2>2
<1>. QED  BY InvInit, InvStep, <1>1, PTL DEF Spec, SteadyMeansQuiet

-----------------------------------------------------------------------------
(* The generator and the validator *)

\* A record is accepted if and only if every required field is there and fits.
LEMMA AcceptedRecords ==
    ASSUME NEW fields
    PROVE  Accepted(fields) <=>
               \A i \in 1..9 : /\ RequiredFields[i][1] \in DOMAIN fields
                               /\ Fits(fields[RequiredFields[i][1]], RequiredFields[i][2])
<1>. DEFINE Faults == {i \in DOMAIN RequiredFields :
                          RequiredFields[i][1] \notin DOMAIN fields
                            \/ ~Fits(fields[RequiredFields[i][1]], RequiredFields[i][2])}
            first == CHOOSE i \in Faults : \A j \in Faults : i <= j
            fault == IF RequiredFields[first][1] \notin DOMAIN fields
                     THEN "missing_field" ELSE "invalid_type"
<1>1. DOMAIN RequiredFields = 1..9
  BY DEF RequiredFields
<1>2. ValidationError(fields) =
          IF Faults = {} THEN NoError ELSE <<fault, RequiredFields[first][1]>>
  BY DEF ValidationError
<1>3. <<fault, RequiredFields[first][1]>> # NoError
  <2>1. fault # "ok"
    OBVIOUS
  <2>. HIDE DEF fault, first
  <2>. QED  BY <2>1 DEF NoError
<1>4. Accepted(fields) <=> Faults = {}
  BY <1>2, <1>3 DEF Accepted
<1>. QED  BY <1>1, <1>4

\* What the generator damages structurally is what the validator rejects, and
\* nothing else: no field it may drop is optional, no value it may change in a
\* semantic way changes its type.
LEMMA GeneratorAndValidatorAgree ==
    ASSUME NEW damage \in Damages
    PROVE  Accepted(Generated(damage)) <=> damage \notin StructuralDamage
<1>. DEFINE Needs(field, type) ==
                field \in DOMAIN Generated(damage) /\ Fits(Generated(damage)[field], type)
<1>1. Accepted(Generated(damage)) <=>
          /\ \A field \in {"event_id", "user_id", "merchant_id", "currency", "transaction_type",
                           "event_time", "ingest_time"} : Needs(field, "str")
          /\ \A field \in {"amount", "schema_version"} : Needs(field, "int")
  <2>1. /\ RequiredFields[1] = <<"event_id", "str">>
        /\ RequiredFields[2] = <<"user_id", "str">>
        /\ RequiredFields[3] = <<"merchant_id", "str">>
        /\ RequiredFields[4] = <<"amount", "int">>
        /\ RequiredFields[5] = <<"currency", "str">>
        /\ RequiredFields[6] = <<"transaction_type", "str">>
        /\ RequiredFields[7] = <<"event_time", "str">>
        /\ RequiredFields[8] = <<"ingest_time", "str">>
        /\ RequiredFields[9] = <<"schema_version", "int">>
    BY DEF RequiredFields
  <2>2. Accepted(Generated(damage)) <=>
            \A i \in 1..9 : Needs(RequiredFields[i][1], RequiredFields[i][2])
    BY AcceptedRecords
  <2>. HIDE DEF Needs
  <2>3. (\A i \in 1..9 : Needs(RequiredFields[i][1], RequiredFields[i][2])) <=>
            /\ Needs("event_id", "str") /\ Needs("user_id", "str") /\ Needs("merchant_id", "str")
            /\ Needs("amount", "int") /\ Needs("currency", "str")
            /\ Needs("transaction_type", "str") /\ Needs("event_time", "str")
            /\ Needs("ingest_time", "str") /\ Needs("schema_version", "int")
    BY <2>1
  <2>. QED  BY <2>2, <2>3
<1>2. /\ DOMAIN WellFormed = {"event_id", "user_id", "merchant_id", "amount", "currency",
                              "transaction_type", "event_time", "ingest_time", "schema_version"}
      /\ \A field \in {"event_id", "user_id", "merchant_id", "currency", "transaction_type",
                       "event_time", "ingest_time"} : WellFormed[field] = "str"
      /\ \A field \in {"amount", "schema_version"} : WellFormed[field] = "int"
  BY DEF WellFormed
<1>3. CASE \E field \in {"merchant_id", "amount", "currency", "event_time"} : damage = <<"drop", field>>
  <2>1. PICK field \in {"merchant_id", "amount", "currency", "event_time"} : damage = <<"drop", field>>
    BY <1>3
  <2>2. Generated(damage) = [f \in DOMAIN WellFormed \ {field} |-> WellFormed[f]]
    BY <2>1 DEF Generated
  <2>3. ~Accepted(Generated(damage))
    BY <1>1, <2>2
  <2>. QED  BY <2>1, <2>3 DEF StructuralDamage
<1>4. CASE damage = <<"stringify", "amount">>
  <2>1. Generated(damage) = [WellFormed EXCEPT !["amount"] = "str"]
    BY <1>4 DEF Generated
  <2>2. Generated(damage)["amount"] = "str"
    BY <1>2, <2>1
  <2>3. ~Fits("str", "int")
    BY DEF Fits, IsInstance
  <2>. QED  BY <1>1, <1>4, <2>2, <2>3 DEF StructuralDamage
<1>5. CASE damage[1] \in {"revalue", "none"}
  <2>1. Generated(damage) = WellFormed
    BY <1>5 DEF Generated
  <2>2. Fits("str", "str") /\ Fits("int", "int")
    BY DEF Fits, IsInstance
  <2>3. Accepted(Generated(damage))
    BY <1>1, <1>2, <2>1, <2>2
  <2>4. damage \notin StructuralDamage
    BY <1>5 DEF StructuralDamage
  <2>. QED  BY <2>3, <2>4
<1>6. damage \in SemanticDamage => damage[1] = "revalue"
  BY DEF SemanticDamage
<1>7. damage \in StructuralDamage =>
          \/ \E field \in {"merchant_id", "amount", "currency", "event_time"} :
                damage = <<"drop", field>>
          \/ damage = <<"stringify", "amount">>
  BY DEF StructuralDamage
<1>8. ASSUME NEW detail, damage = <<"none", detail>> PROVE damage[1] = "none"
  BY <1>8
<1>. QED  BY <1>3, <1>4, <1>5, <1>6, <1>7, <1>8 DEF Damages

\* Rows and dead letters are divided by the generator's damage alone: what is
\* structurally damaged never becomes a row, anything else never a dead letter.
THEOREM DamageAloneDecides == Spec => []DamageDecidesFate
<1>1. IInv => DamageDecidesFate
  <2>. SUFFICES ASSUME IInv PROVE DamageDecidesFate
    OBVIOUS
  <2>1. \A id \in EventIds : id \in ValidIds <=> id \notin Damaged
    BY GeneratorAndValidatorAgree, RunAssumption DEF ValidIds, Damaged, RunAssumption
  <2>. QED  BY <2>1 DEF IInv, TypeOK, SentBefore, DamageDecidesFate, Damaged
<1>. QED  BY InvInit, InvStep, <1>1, PTL DEF Spec
=============================================================================
