------------------------ MODULE TransactionGenerator ------------------------
(***************************************************************************)
(* producers/transaction_generator/main.py: the worker coroutines that     *)
(* share one AIOKafkaProducer, one Counters and one deque of sent events.  *)
(* A coroutine runs from one await to the next without interruption, so    *)
(* each action is such a stretch: choosing what to send up to              *)
(* send_and_wait, the broker's append, and what follows the acknowledgment.*)
(* An event is an id (the order of creation, across workers) and an event  *)
(* time; malformed payloads, counted like late ones at creation, and the   *)
(* pacing are left out.                                                    *)
(*                                                                         *)
(* Operators named Bug... are plausible mistakes, as in ValidationDedup.   *)
(***************************************************************************)
EXTENDS Integers, Sequences, FiniteSets

CONSTANTS
    Workers,
    MaxSent,      \* maxlen of the deque of sent events (10 000)
    Delays,       \* how far back a late event's time may lie; 0 is on time
    MaxEvents,    \* bound: events created
    MaxRecords    \* bound: records in the topic

ASSUME GeneratorAssumption ==
    /\ IsFiniteSet(Workers)
    /\ Delays \subseteq Nat /\ 0 \in Delays
    /\ MaxSent \in Nat \ {0} /\ MaxEvents \in Nat /\ MaxRecords \in Nat

None == [id |-> 0, time |-> 0, late |-> FALSE]

VARIABLES
    made,         \* events created so far
    madeLate,     \* counters.late, counted when the event is made
    pc,           \* pc[w]: loop, sending, done or failed
    pending,      \* pending[w]: the buffered event, or None
    sending,      \* sending[w]: the event handed to send_and_wait, and why
    appended,     \* appended[w]: the broker has stored it
    raw,          \* transactions.raw
    sent, duplicates, outOfOrder,  \* the other counters
    sentEvents,   \* the deque duplicates are drawn from
    deadline,     \* the --duration is over
    phase,        \* of run(): running, stopping (finally), ended
    report        \* the "final" line, or the empty sequence

counters == <<madeLate, sent, duplicates, outOfOrder>>
loopVars == <<pc, pending, sending, appended>>
vars == <<made, loopVars, raw, counters, sentEvents, deadline, phase, report>>

Idle == [event |-> None, reason |-> "none", current |-> None]

Init ==
    /\ made = 0
    /\ pc = [w \in Workers |-> "loop"]
    /\ pending = [w \in Workers |-> None]
    /\ sending = [w \in Workers |-> Idle]
    /\ appended = [w \in Workers |-> FALSE]
    /\ raw = <<>>
    /\ madeLate = 0 /\ sent = 0 /\ duplicates = 0 /\ outOfOrder = 0
    /\ sentEvents = <<>>
    /\ deadline = FALSE
    /\ phase = "running"
    /\ report = <<>>

-----------------------------------------------------------------------------
(* A worker's loop *)

\* At the top of the loop.  gather raises with the first worker that fails but
\* cancels none: the others go on through the awaits of finally.
Looping(w) == phase # "ended" /\ pc[w] = "loop" /\ ~deadline

StartSend(w, event, reason, current) ==
    /\ pc' = [pc EXCEPT ![w] = "sending"]
    /\ sending' = [sending EXCEPT ![w] =
                      [event |-> event, reason |-> reason, current |-> current]]

\* An event sent before is sent again.
Duplicate(w) ==
    /\ Looping(w)
    /\ Len(raw) < MaxRecords
    /\ \E i \in DOMAIN sentEvents : StartSend(w, sentEvents[i], "duplicate", None)
    /\ UNCHANGED <<made, pending, appended, raw, counters, sentEvents, deadline, phase, report>>

\* make_event, then: buffer it, or send it ahead of the buffered one, or send
\* the buffered one and buffer it.
Generate(w) ==
    /\ Looping(w)
    /\ made < MaxEvents /\ Len(raw) < MaxRecords
    /\ made' = made + 1
    /\ \E delay \in Delays :
        LET current == [id |-> made', time |-> made' - delay, late |-> delay # 0] IN
        /\ madeLate' = madeLate + IF delay # 0 THEN 1 ELSE 0
        /\ IF pending[w] = None
           THEN /\ pending' = [pending EXCEPT ![w] = current]
                /\ UNCHANGED <<pc, sending>>
           ELSE /\ \/ StartSend(w, current, "out_of_order", None)
                   \/ StartSend(w, pending[w], "in_order", current)
                /\ UNCHANGED pending
    /\ UNCHANGED <<appended, raw, sent, duplicates, outOfOrder, sentEvents, deadline, phase, report>>

BugNoFlush(w) == TRUE

\* Nothing is left in the buffer once the loop is over.
NothingPending(w) == pending[w] = None

BugFlushLeftToTheLoop(w) ==
    /\ phase # "ended" /\ pc[w] = "loop" /\ deadline
    /\ pending[w] = None
    /\ pc' = [pc EXCEPT ![w] = "done"]
    /\ UNCHANGED <<made, pending, sending, appended, raw, counters, sentEvents, deadline, phase, report>>

\* The deadline is noticed at the top of the loop; the buffer is flushed.
LeaveLoop(w) ==
    /\ phase # "ended" /\ pc[w] = "loop" /\ deadline
    /\ IF NothingPending(w)
       THEN pc' = [pc EXCEPT ![w] = "done"] /\ UNCHANGED sending
       ELSE StartSend(w, pending[w], "flush", None)
    /\ UNCHANGED <<made, pending, appended, raw, counters, sentEvents, deadline, phase, report>>

-----------------------------------------------------------------------------
(* send_event *)

\* The broker stores the record (acks="all", idempotent: once).
BrokerAppend(w) ==
    /\ phase # "ended"
    /\ sending[w] # Idle /\ ~appended[w]
    /\ raw' = Append(raw, sending[w].event)
    /\ appended' = [appended EXCEPT ![w] = TRUE]
    /\ UNCHANGED <<made, pc, pending, sending, counters, sentEvents, deadline, phase, report>>

BugUnboundedDeque(event) == Append(sentEvents, event)

\* deque(maxlen=...).append drops the oldest.
Remember(event) ==
    LET longer == Append(sentEvents, event) IN
    IF Len(longer) > MaxSent THEN Tail(longer) ELSE longer

DuplicatesAfter(w) == duplicates + IF sending[w].reason = "duplicate" THEN 1 ELSE 0

PendingAfter(w) ==
    CASE sending[w].reason = "in_order" -> sending[w].current
      [] sending[w].reason = "flush" -> None
      [] OTHER -> pending[w]

NextStep(w) == IF sending[w].reason = "flush" THEN "done" ELSE "loop"

\* send_and_wait returns: the rest of send_event and of the loop body.
Acknowledged(w) ==
    /\ phase # "ended"
    /\ pc[w] = "sending" /\ appended[w]
    /\ sent' = sent + 1
    /\ sentEvents' = Remember(sending[w].event)
    /\ duplicates' = DuplicatesAfter(w)
    /\ outOfOrder' = outOfOrder + IF sending[w].reason = "out_of_order" THEN 1 ELSE 0
    /\ pending' = [pending EXCEPT ![w] = PendingAfter(w)]
    /\ pc' = [pc EXCEPT ![w] = NextStep(w)]
    /\ sending' = [sending EXCEPT ![w] = Idle]
    /\ appended' = [appended EXCEPT ![w] = FALSE]
    /\ UNCHANGED <<made, madeLate, raw, deadline, phase, report>>

BugCountedInFinally(w) ==
    /\ phase # "ended"
    /\ pc[w] = "sending"
    /\ pc' = [pc EXCEPT ![w] = "failed"]
    /\ sending' = [sending EXCEPT ![w] = Idle]
    /\ sent' = sent + 1
    /\ UNCHANGED <<made, pending, appended, raw, madeLate, duplicates, outOfOrder, sentEvents, deadline, phase, report>>

\* send_and_wait raises, whether or not the broker has stored the record.
SendError(w) ==
    /\ phase # "ended"
    /\ pc[w] = "sending"
    /\ pc' = [pc EXCEPT ![w] = "failed"]
    /\ sending' = [sending EXCEPT ![w] = Idle]
    /\ UNCHANGED <<made, pending, appended, raw, counters, sentEvents, deadline, phase, report>>

-----------------------------------------------------------------------------
(* run() *)

Deadline ==
    /\ ~deadline
    /\ deadline' = TRUE
    /\ UNCHANGED <<made, loopVars, raw, counters, sentEvents, phase, report>>

\* asyncio.gather returns when all workers have, or raises with the first that
\* did, leaving the others alone.
GatherEnds ==
    /\ phase = "running"
    /\ (\A w \in Workers : pc[w] = "done") \/ (\E w \in Workers : pc[w] = "failed")
    /\ phase' = "stopping"
    /\ UNCHANGED <<made, loopVars, raw, counters, sentEvents, deadline, report>>

\* KeyboardInterrupt: every worker is cancelled at its await.
Interrupt ==
    /\ phase = "running"
    /\ phase' = "stopping"
    /\ pc' = [w \in Workers |-> IF pc[w] = "done" THEN "done" ELSE "failed"]
    /\ UNCHANGED <<made, pending, sending, appended, raw, counters, sentEvents, deadline, report>>

\* producer.stop() has returned and the final line is printed.
Report ==
    /\ phase = "stopping"
    /\ phase' = "ended"
    /\ report' = <<[sent |-> sent, duplicates |-> duplicates, late |-> madeLate,
                    outOfOrder |-> outOfOrder]>>
    /\ UNCHANGED <<made, loopVars, raw, counters, sentEvents, deadline>>

\* SIGKILL: no final line.
Kill ==
    /\ phase # "ended"
    /\ phase' = "ended"
    /\ UNCHANGED <<made, loopVars, raw, counters, sentEvents, deadline, report>>

Worker(w) ==
    \/ Duplicate(w) \/ Generate(w) \/ LeaveLoop(w)
    \/ BrokerAppend(w) \/ Acknowledged(w) \/ SendError(w)

Next == (\E w \in Workers : Worker(w)) \/ Deadline \/ GatherEnds \/ Interrupt \/ Report \/ Kill

Spec == Init /\ [][Next]_vars

\* Time passes, the event loop runs what is ready, and the client answers every
\* send with an acknowledgment or an error.
Fairness ==
    /\ WF_vars(Deadline) /\ WF_vars(GatherEnds) /\ WF_vars(Report)
    /\ \A w \in Workers : WF_vars(LeaveLoop(w)) /\ WF_vars(Acknowledged(w) \/ SendError(w))

FairSpec == Spec /\ Fairness

-----------------------------------------------------------------------------
(* Properties *)

Events == [id : 0..MaxEvents, time : Int, late : BOOLEAN]

\* Type invariant.
TypeOK ==
    /\ made \in 0..MaxEvents /\ madeLate \in 0..made
    /\ pc \in [Workers -> {"loop", "sending", "done", "failed"}]
    /\ pending \in [Workers -> Events]
    /\ sending \in [Workers -> [event : Events, current : Events,
          reason : {"none", "duplicate", "out_of_order", "in_order", "flush"}]]
    /\ appended \in [Workers -> BOOLEAN]
    /\ raw \in Seq(Events)
    /\ sent \in Nat /\ duplicates \in 0..sent /\ outOfOrder \in 0..sent
    /\ sentEvents \in Seq(Events) /\ Len(sentEvents) <= MaxSent
    /\ deadline \in BOOLEAN
    /\ phase \in {"running", "stopping", "ended"}

RawIds == {raw[i].id : i \in DOMAIN raw}

CleanEnd == report # <<>> /\ \A w \in Workers : pc[w] = "done"

\* After a run that no worker failed in, the final line accounts for the topic:
\* record count, distinct ids, late ids, and no event made is missing.
CleanReportReconciles ==
    CleanEnd =>
        /\ report[1].sent = Len(raw)
        /\ Cardinality(RawIds) = report[1].sent - report[1].duplicates
        /\ RawIds = 1..made
        /\ report[1].late = Cardinality({raw[i].id : i \in {j \in DOMAIN raw : raw[j].late}})

\* Whatever fails, the counter is never ahead of the topic, and behind it by at
\* most one unacknowledged record for each worker.
CounterTracksTopic ==
    sent <= Len(raw) /\ Len(raw) <= sent + Cardinality(Workers)

\* Once the duration is over the generator ends: no worker keeps the others, or
\* gather, waiting.
DeadlineEnds == deadline ~> phase = "ended"
=============================================================================
