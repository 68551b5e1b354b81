---------------------- MODULE TransactionGeneratorProofs ----------------------
(***************************************************************************)
(* Proofs about TransactionGenerator, for any number of workers, delays    *)
(* and events.                                                             *)
(***************************************************************************)
EXTENDS TransactionGenerator, OrderLemmas

\* Workers whose record is in the topic and not, or never to be, acknowledged.
Unacknowledged == {w \in Workers : appended[w]}

\* The counter and the topic differ by exactly these records.
Balanced == Len(raw) = sent + Cardinality(Unacknowledged)

IInv == TypeOK /\ Balanced

-----------------------------------------------------------------------------
(* The types of what is handed around *)

\* What a worker hands to send_and_wait is typed, whatever the reason.
LEMMA StartSendTyped ==
    ASSUME TypeOK, NEW w \in Workers, NEW event \in Events, NEW current \in Events,
           NEW reason \in {"duplicate", "out_of_order", "in_order", "flush"},
           StartSend(w, event, reason, current)
    PROVE  /\ pc' \in [Workers -> {"loop", "sending", "done", "failed"}]
           /\ sending' \in [Workers -> [event : Events, current : Events,
                 reason : {"none", "duplicate", "out_of_order", "in_order", "flush"}]]
BY DEF TypeOK, StartSend

\* None is an event that was never made, and Idle hands it over for no reason.
LEMMA NoneTyped ==
    /\ None \in Events
    /\ Idle \in [event : Events, current : Events,
                 reason : {"none", "duplicate", "out_of_order", "in_order", "flush"}]
BY GeneratorAssumption DEF GeneratorAssumption, None, Idle, Events

\* The deque stays typed and within its limit.
LEMMA RememberTyped ==
    ASSUME TypeOK, NEW event \in Events
    PROVE  Remember(event) \in Seq(Events) /\ Len(Remember(event)) <= MaxSent
<1>. DEFINE longer == Append(sentEvents, event)
<1>1. longer \in Seq(Events) /\ Len(longer) = Len(sentEvents) + 1 /\ longer # <<>>
  BY DEF TypeOK
<1>2. Tail(longer) \in Seq(Events) /\ Len(Tail(longer)) = Len(longer) - 1
  BY <1>1
<1>3. Remember(event) = IF Len(longer) > MaxSent THEN Tail(longer) ELSE longer
  BY DEF Remember
<1>4. Len(sentEvents) \in Nat /\ Len(sentEvents) <= MaxSent
  BY DEF TypeOK
<1>. HIDE DEF longer
<1>. QED  BY <1>1, <1>2, <1>3, <1>4, GeneratorAssumption DEF GeneratorAssumption

\* A record of one more worker, or of one fewer, is waiting for its acknowledgment.
LEMMA UnacknowledgedCounted ==
    ASSUME TypeOK
    PROVE  /\ IsFiniteSet(Unacknowledged)
           /\ Cardinality(Unacknowledged) \in Nat
           /\ Cardinality(Unacknowledged) <= Cardinality(Workers)
           /\ Cardinality(Workers) \in Nat
           /\ \A w \in Workers \ Unacknowledged :
                 Cardinality(Unacknowledged \cup {w}) = Cardinality(Unacknowledged) + 1
           /\ \A w \in Unacknowledged :
                 Cardinality(Unacknowledged \ {w}) = Cardinality(Unacknowledged) - 1
<1>1. Unacknowledged \subseteq Workers /\ IsFiniteSet(Workers)
  BY GeneratorAssumption DEF Unacknowledged, GeneratorAssumption
<1>2. IsFiniteSet(Unacknowledged) /\ Cardinality(Unacknowledged) <= Cardinality(Workers)
  BY <1>1, FS_Subset
<1>. QED  BY <1>1, <1>2, FS_CardinalityType, FS_AddElement, FS_RemoveElement

-----------------------------------------------------------------------------
(* The invariant *)

\* Nothing is made, sent or stored yet.
LEMMA InvInit == Init => IInv
<1>. SUFFICES ASSUME Init PROVE IInv
  OBVIOUS
<1>1. TypeOK
  <2>1. <<>> \in Seq(Events) /\ Len(<<>>) = 0
    OBVIOUS
  <2>2. MaxEvents \in Nat /\ MaxSent \in Nat
    BY GeneratorAssumption DEF GeneratorAssumption
  <2>3. /\ pc \in [Workers -> {"loop", "sending", "done", "failed"}]
        /\ pending \in [Workers -> Events]
        /\ sending \in [Workers -> [event : Events, current : Events,
              reason : {"none", "duplicate", "out_of_order", "in_order", "flush"}]]
        /\ appended \in [Workers -> BOOLEAN]
    BY NoneTyped DEF Init
  <2>4. /\ raw \in Seq(Events) /\ sentEvents \in Seq(Events) /\ Len(sentEvents) <= MaxSent
        /\ made \in 0..MaxEvents /\ madeLate \in 0..made
    BY <2>1, <2>2 DEF Init
  <2>. QED  BY <2>3, <2>4 DEF Init, TypeOK
<1>2. Unacknowledged = {}
  BY DEF Init, Unacknowledged
<1>. QED  BY <1>1, <1>2, FS_EmptySet DEF Init, IInv, Balanced

\* What a worker does up to send_and_wait touches neither topic nor counter.
LEMMA LoopStep ==
    ASSUME TypeOK, NEW w \in Workers, Duplicate(w) \/ Generate(w) \/ LeaveLoop(w)
    PROVE  TypeOK' /\ UNCHANGED <<raw, sent, appended>>
<1>1. CASE Duplicate(w)
  <2>1. PICK i \in DOMAIN sentEvents : StartSend(w, sentEvents[i], "duplicate", None)
    BY <1>1 DEF Duplicate
  <2>2. sentEvents[i] \in Events
    BY DEF TypeOK
  <2>. QED  BY <1>1, <2>1, <2>2, NoneTyped, StartSendTyped DEF Duplicate, TypeOK, counters
<1>2. CASE Generate(w)
  <2>1. PICK delay \in Delays :
           LET current == [id |-> made', time |-> made' - delay, late |-> delay # 0] IN
           /\ madeLate' = madeLate + IF delay # 0 THEN 1 ELSE 0
           /\ IF pending[w] = None
              THEN /\ pending' = [pending EXCEPT ![w] = current]
                   /\ UNCHANGED <<pc, sending>>
              ELSE /\ \/ StartSend(w, current, "out_of_order", None)
                      \/ StartSend(w, pending[w], "in_order", current)
                   /\ UNCHANGED pending
    BY <1>2 DEF Generate
  <2>. DEFINE current == [id |-> made', time |-> made' - delay, late |-> delay # 0]
  <2>2. made' = made + 1 /\ made' \in 0..MaxEvents /\ delay \in Nat
    BY <1>2, GeneratorAssumption DEF Generate, TypeOK, GeneratorAssumption
  <2>3. current \in Events
    BY <2>2 DEF Events
  <2>4. madeLate' \in 0..made'
    BY <2>1, <2>2 DEF TypeOK
  <2>5. pending[w] \in Events
    BY DEF TypeOK
  <2>. HIDE DEF current
  <2>6. /\ pending' \in [Workers -> Events]
        /\ pc' \in [Workers -> {"loop", "sending", "done", "failed"}]
        /\ sending' \in [Workers -> [event : Events, current : Events,
              reason : {"none", "duplicate", "out_of_order", "in_order", "flush"}]]
    <3>1. CASE pending' = [pending EXCEPT ![w] = current] /\ UNCHANGED <<pc, sending>>
      BY <3>1, <2>3 DEF TypeOK
    <3>2. CASE StartSend(w, current, "out_of_order", None) /\ UNCHANGED pending
      BY <3>2, <2>3, NoneTyped, StartSendTyped DEF TypeOK
    <3>3. CASE StartSend(w, pending[w], "in_order", current) /\ UNCHANGED pending
      BY <3>3, <2>3, <2>5, StartSendTyped DEF TypeOK
    <3>. QED  BY <2>1, <3>1, <3>2, <3>3 DEF current
  <2>. QED  BY <1>2, <2>2, <2>4, <2>6 DEF Generate, TypeOK
<1>3. CASE LeaveLoop(w)
  <2>1. pending[w] \in Events
    BY DEF TypeOK
  <2>2. /\ pc' \in [Workers -> {"loop", "sending", "done", "failed"}]
        /\ sending' \in [Workers -> [event : Events, current : Events,
              reason : {"none", "duplicate", "out_of_order", "in_order", "flush"}]]
    <3>1. CASE pc' = [pc EXCEPT ![w] = "done"] /\ UNCHANGED sending
      BY <3>1 DEF TypeOK
    <3>2. CASE StartSend(w, pending[w], "flush", None)
      BY <3>2, <2>1, NoneTyped, StartSendTyped
    <3>. QED  BY <1>3, <3>1, <3>2 DEF LeaveLoop
  <2>. QED  BY <1>3, <2>2 DEF LeaveLoop, TypeOK, counters
<1>. QED  BY <1>1, <1>2, <1>3 DEF Duplicate, Generate, LeaveLoop, counters

\* An acknowledgment counts the record and takes it off the worker.
LEMMA AcknowledgedStep ==
    ASSUME IInv, NEW w \in Workers, Acknowledged(w)
    PROVE  IInv'
<1>1. sending[w] \in [event : Events, current : Events,
          reason : {"none", "duplicate", "out_of_order", "in_order", "flush"}]
  BY DEF IInv, TypeOK
<1>2. PendingAfter(w) \in Events
  <2>1. sending[w].current \in Events /\ pending[w] \in Events
    BY <1>1 DEF IInv, TypeOK
  <2>. QED  BY <2>1, NoneTyped DEF PendingAfter
<1>3. DuplicatesAfter(w) \in 0..(sent + 1)
  BY DEF IInv, TypeOK, DuplicatesAfter
<1>4. NextStep(w) \in {"done", "loop"}
  BY DEF NextStep
<1>5. sentEvents' \in Seq(Events) /\ Len(sentEvents') <= MaxSent
  BY <1>1, RememberTyped DEF IInv, Acknowledged
<1>6. sent' = sent + 1 /\ duplicates' \in 0..sent' /\ outOfOrder' \in 0..sent'
  BY <1>3 DEF IInv, TypeOK, Acknowledged
<1>7. /\ pending' \in [Workers -> Events]
      /\ pc' \in [Workers -> {"loop", "sending", "done", "failed"}]
      /\ sending' \in [Workers -> [event : Events, current : Events,
            reason : {"none", "duplicate", "out_of_order", "in_order", "flush"}]]
      /\ appended' \in [Workers -> BOOLEAN]
  BY <1>2, <1>4, NoneTyped DEF IInv, TypeOK, Acknowledged
<1>8. TypeOK'
  BY <1>5, <1>6, <1>7 DEF IInv, TypeOK, Acknowledged
<1>9. w \in Unacknowledged /\ Unacknowledged' = Unacknowledged \ {w}
  BY DEF Unacknowledged, Acknowledged, IInv, TypeOK
<1>10. Balanced'
  BY <1>6, <1>9, UnacknowledgedCounted DEF IInv, TypeOK, Balanced, Acknowledged
<1>. QED  BY <1>8, <1>10 DEF IInv

\* Every step of the generator or the broker keeps the invariant.
LEMMA InvStep == IInv /\ [Next]_vars => IInv'
<1>. SUFFICES ASSUME IInv, [Next]_vars PROVE IInv'
  OBVIOUS
<1>1. ASSUME NEW w \in Workers, Duplicate(w) \/ Generate(w) \/ LeaveLoop(w) PROVE IInv'
  BY <1>1, LoopStep DEF IInv, Balanced, Unacknowledged
<1>2. ASSUME NEW w \in Workers, BrokerAppend(w) PROVE IInv'
  <2>1. sending[w].event \in Events
    BY DEF IInv, TypeOK
  <2>2. raw' \in Seq(Events) /\ Len(raw') = Len(raw) + 1
    BY <1>2, <2>1 DEF IInv, TypeOK, BrokerAppend
  <2>3. TypeOK'
    BY <1>2, <2>2 DEF IInv, TypeOK, BrokerAppend, counters
  <2>4. w \notin Unacknowledged /\ Unacknowledged' = Unacknowledged \cup {w}
    BY <1>2 DEF Unacknowledged, BrokerAppend, IInv, TypeOK
  <2>5. Balanced'
    <3>1. /\ Cardinality(Unacknowledged') = Cardinality(Unacknowledged) + 1
          /\ Cardinality(Unacknowledged) \in Nat /\ sent \in Nat
      BY <2>4, UnacknowledgedCounted DEF IInv, TypeOK
    <3>2. sent' = sent /\ Len(raw) = sent + Cardinality(Unacknowledged)
      BY <1>2 DEF BrokerAppend, counters, IInv, Balanced
    <3>. QED  BY <2>2, <3>1, <3>2 DEF Balanced
  <2>. QED  BY <2>3, <2>5 DEF IInv
<1>3. ASSUME NEW w \in Workers, Acknowledged(w) PROVE IInv'
  BY <1>3, AcknowledgedStep
<1>4. ASSUME NEW w \in Workers, SendError(w) PROVE IInv'
  BY <1>4, NoneTyped DEF SendError, IInv, TypeOK, Balanced, Unacknowledged, counters
<1>5. ASSUME Interrupt PROVE IInv'
  BY <1>5 DEF Interrupt, IInv, TypeOK, Balanced, Unacknowledged, counters
<1>6. ASSUME Deadline \/ GatherEnds \/ Report \/ Kill PROVE IInv'
  BY <1>6 DEF Deadline, GatherEnds, Report, Kill, IInv, TypeOK, Balanced, Unacknowledged,
              counters, loopVars
<1>7. ASSUME UNCHANGED vars PROVE IInv'
  BY <1>7 DEF vars, IInv, TypeOK, Balanced, Unacknowledged, counters, loopVars
<1>. QED  BY <1>1, <1>2, <1>3, <1>4, <1>5, <1>6, <1>7 DEF Next, Worker

-----------------------------------------------------------------------------
(* Every event accounted for, while no worker has failed *)

\* No worker has been stopped by an error or an interrupt.
NoneFailed == \A w \in Workers : pc[w] # "failed"

\* The events in the topic, whatever the number of their copies.
Stored == {raw[i] : i \in DOMAIN raw}

\* The first copy of an event that is on its way to the topic.
Outgoing(w) ==
    IF sending[w].reason \in {"out_of_order", "in_order", "flush"} /\ ~appended[w]
    THEN {sending[w].event} ELSE {}

\* The event that is in the buffer, or will be after the acknowledgment.
Buffered(w) == {PendingAfter(w)} \ {None}

\* The events a worker still owes the topic; the events made.
Unsent(w) == Outgoing(w) \cup Buffered(w)
Made == Stored \cup UNION {Unsent(w) : w \in Workers}

\* Workers whose copy of an event sent before is in the topic and not counted yet.
Repeated == {w \in Workers : appended[w] /\ sending[w].reason = "duplicate"}

\* Where a worker is in its loop, and what it holds there.
Placed ==
    \A w \in Workers :
        /\ pc[w] # "sending" => sending[w] = Idle /\ ~appended[w]
        /\ pc[w] = "sending" => sending[w].reason # "none"
        /\ pc[w] = "done" => pending[w] = None

\* What is sent again, and what is acknowledged, is in the topic.
SentIsStored ==
    /\ \A i \in DOMAIN sentEvents : sentEvents[i] \in Stored
    /\ \A w \in Workers :
          appended[w] \/ sending[w].reason = "duplicate" => sending[w].event \in Stored

\* An event made is in the topic, or one worker owes it once.
HeldOnce ==
    /\ \A w \in Workers : Stored \cap Unsent(w) = {} /\ Outgoing(w) \cap Buffered(w) = {}
    /\ \A v, w \in Workers : v # w => Unsent(v) \cap Unsent(w) = {}

\* The events made have the ids 1 to made, each once.
Identified ==
    /\ {e.id : e \in Made} = 1..made
    /\ \A e, f \in Made : e.id = f.id => e = f

\* The late counter counts the late ones among them.
LateCounted == madeLate = Cardinality({e \in Made : e.late})

\* A record is a first copy, a counted duplicate, or a duplicate about to be counted.
CopiesCounted == Len(raw) = Cardinality(Stored) + duplicates + Cardinality(Repeated)

\* The account of the events made, kept until a worker fails.
Accounted ==
    Placed /\ SentIsStored /\ HeldOnce /\ Identified /\ LateCounted /\ CopiesCounted

\* The final line holds the counters, which nothing changes after it.
ReportIsFinal ==
    report # <<>> =>
        /\ phase = "ended"
        /\ report = <<[sent |-> sent, duplicates |-> duplicates, late |-> madeLate,
                       outOfOrder |-> outOfOrder]>>

\* The invariant behind the final line.
Sound == ReportIsFinal /\ (NoneFailed => Accounted)

\* What sending[w] may be.
Sendings == [event : Events, current : Events,
             reason : {"none", "duplicate", "out_of_order", "in_order", "flush"}]

\* The topic and what the workers owe it are finitely many events.
LEMMA EventsFinite ==
    ASSUME TypeOK
    PROVE  /\ Stored \subseteq Events /\ IsFiniteSet(Stored)
           /\ \A w \in Workers : Unsent(w) \subseteq Events
           /\ Made \subseteq Events /\ IsFiniteSet(Made)
<1>1. Stored \subseteq Events
  BY DEF TypeOK, Stored
<1>2. IsFiniteSet(Stored)
  <2>1. IsFiniteSet(1..Len(raw)) /\ DOMAIN raw = 1..Len(raw)
    BY FS_Interval DEF TypeOK
  <2>. QED  BY <2>1, FiniteImage DEF Stored
<1>3. ASSUME NEW w \in Workers
      PROVE  Unsent(w) \subseteq Events /\ IsFiniteSet(Unsent(w))
  <2>1. sending[w] \in Sendings /\ pending[w] \in Events
    BY DEF TypeOK, Sendings
  <2>2. sending[w].event \in Events /\ PendingAfter(w) \in Events
    BY <2>1, NoneTyped DEF PendingAfter, Sendings
  <2>3. Outgoing(w) = {} \/ Outgoing(w) = {sending[w].event}
    BY DEF Outgoing
  <2>4. Buffered(w) = {} \/ Buffered(w) = {PendingAfter(w)}
    BY DEF Buffered
  <2>5. IsFiniteSet(Outgoing(w)) /\ IsFiniteSet(Buffered(w))
    <3>1. IsFiniteSet({}) /\ \A x : IsFiniteSet({x})
      BY FS_EmptySet, FS_Singleton
    <3>. QED  BY <2>3, <2>4, <3>1
  <2>. QED  BY <2>2, <2>3, <2>4, <2>5, FS_Union DEF Unsent
<1>4. IsFiniteSet(UNION {Unsent(w) : w \in Workers})
  <2>. DEFINE f == [w \in Workers |-> Unsent(w)]
  <2>1. {f[w] : w \in Workers} = {Unsent(w) : w \in Workers}
    OBVIOUS
  <2>2. IsFiniteSet({f[w] : w \in Workers})
    <3>. HIDE DEF f
    <3>. QED  BY FiniteImage, GeneratorAssumption DEF GeneratorAssumption
  <2>3. IsFiniteSet({Unsent(w) : w \in Workers})
    BY <2>1, <2>2
  <2>. QED  BY <1>3, <2>3, FS_UNION
<1>. QED  BY <1>1, <1>2, <1>3, <1>4, FS_Union DEF Made

\* A worker that fails has failed for good.
LEMMA FailedForGood ==
    ASSUME TypeOK, [Next]_vars, NoneFailed'
    PROVE  NoneFailed
<1>. SUFFICES ASSUME NEW v \in Workers, pc[v] = "failed" PROVE pc'[v] = "failed"
  BY DEF NoneFailed
<1>1. ASSUME NEW w \in Workers, Worker(w) PROVE pc'[v] = "failed"
  <2>. USE DEF TypeOK
  <2>1. CASE Duplicate(w)      BY <2>1 DEF Duplicate, Looping, StartSend
  <2>2. CASE Generate(w)       BY <2>2 DEF Generate, Looping, StartSend
  <2>3. CASE LeaveLoop(w)      BY <2>3 DEF LeaveLoop, StartSend
  <2>4. CASE BrokerAppend(w)   BY <2>4 DEF BrokerAppend
  <2>5. CASE Acknowledged(w)   BY <2>5 DEF Acknowledged
  <2>6. CASE SendError(w)      BY <2>6 DEF SendError
  <2>. QED  BY <1>1, <2>1, <2>2, <2>3, <2>4, <2>5, <2>6 DEF Worker
<1>2. CASE Interrupt
  BY <1>2 DEF Interrupt
<1>3. CASE Deadline \/ GatherEnds \/ Report \/ Kill \/ UNCHANGED vars
  BY <1>3 DEF Deadline, GatherEnds, Report, Kill, vars, loopVars
<1>. QED  BY <1>1, <1>2, <1>3 DEF Next

\* Nothing is made, nothing new is stored and no worker owes more or less: the
\* same events are held, once.
LEMMA SameHoldings ==
    ASSUME HeldOnce, Identified, LateCounted,
           Stored' = Stored, made' = made, madeLate' = madeLate,
           \A v \in Workers : Unsent(v)' = Unsent(v) /\ (Outgoing(v) \cap Buffered(v))' = {}
    PROVE  (HeldOnce /\ Identified /\ LateCounted)'
<1>1. Made' = Made
  BY DEF Made
<1>. QED  BY <1>1 DEF HeldOnce, Identified, LateCounted

\* An event of the deque is handed over; it stays what it is in the topic.
LEMMA DuplicateAccounted ==
    ASSUME TypeOK, Accounted, NEW w \in Workers, Duplicate(w)
    PROVE  Accounted'
<1>1. PICK i \in DOMAIN sentEvents : StartSend(w, sentEvents[i], "duplicate", None)
  BY DEF Duplicate
<1>2. /\ pc[w] = "loop" /\ sending[w] = Idle /\ ~appended[w]
      /\ UNCHANGED <<made, pending, appended, raw, madeLate, duplicates, sentEvents>>
  BY DEF Duplicate, Looping, Accounted, Placed, counters
<1>3. /\ pc' = [pc EXCEPT ![w] = "sending"]
      /\ sending' = [sending EXCEPT ![w] =
                        [event |-> sentEvents[i], reason |-> "duplicate", current |-> None]]
  BY <1>1 DEF StartSend
<1>4. Stored' = Stored /\ sentEvents[i] \in Stored
  BY <1>2 DEF Stored, Accounted, SentIsStored
<1>5. Placed'
  BY <1>2, <1>3 DEF TypeOK, Accounted, Placed
<1>6. SentIsStored'
  BY <1>2, <1>3, <1>4 DEF TypeOK, Accounted, SentIsStored
<1>7. \A v \in Workers : Unsent(v)' = Unsent(v) /\ (Outgoing(v) \cap Buffered(v))' = {}
  <2>1. \A v \in Workers \ {w} : Outgoing(v)' = Outgoing(v) /\ Buffered(v)' = Buffered(v)
    BY <1>2, <1>3 DEF TypeOK, Outgoing, Buffered, PendingAfter
  <2>2. \A v \in Workers : Outgoing(v) \cap Buffered(v) = {}
    BY DEF Accounted, HeldOnce
  <2>3. Outgoing(w) = {} /\ Buffered(w) = {pending[w]} \ {None}
    BY <1>2 DEF Outgoing, Buffered, PendingAfter, Idle
  <2>4. sending'[w] =
           [event |-> sentEvents[i], reason |-> "duplicate", current |-> None]
    BY <1>3 DEF TypeOK
  <2>5. Outgoing(w)' = {} /\ Buffered(w)' = {pending[w]} \ {None}
    BY <1>2, <2>4 DEF Outgoing, Buffered, PendingAfter
  <2>. QED  BY <2>1, <2>2, <2>3, <2>5 DEF Unsent
<1>8. (HeldOnce /\ Identified /\ LateCounted)'
  BY <1>2, <1>4, <1>7, SameHoldings DEF Accounted
<1>9. Repeated' = Repeated
  BY <1>2, <1>3 DEF TypeOK, Repeated, Idle
<1>10. CopiesCounted'
  BY <1>2, <1>4, <1>9 DEF Accounted, CopiesCounted
<1>. QED  BY <1>5, <1>6, <1>8, <1>10 DEF Accounted

\* The buffered event is handed over, or there is none and the worker is done.
LEMMA LeaveLoopAccounted ==
    ASSUME TypeOK, Accounted, NEW w \in Workers, LeaveLoop(w)
    PROVE  Accounted'
<1>1. /\ pc[w] = "loop" /\ sending[w] = Idle /\ ~appended[w]
      /\ UNCHANGED <<made, pending, appended, raw, madeLate, duplicates, sentEvents>>
  BY DEF LeaveLoop, Accounted, Placed, counters
<1>2. \/ /\ pending[w] = None
         /\ pc' = [pc EXCEPT ![w] = "done"] /\ sending' = sending
      \/ /\ pending[w] # None
         /\ pc' = [pc EXCEPT ![w] = "sending"]
         /\ sending' = [sending EXCEPT ![w] =
                           [event |-> pending[w], reason |-> "flush", current |-> None]]
  BY DEF LeaveLoop, NothingPending, StartSend
<1>3. Stored' = Stored
  BY <1>1 DEF Stored
<1>4. Placed'
  BY <1>1, <1>2 DEF TypeOK, Accounted, Placed
<1>5. SentIsStored'
  BY <1>1, <1>2, <1>3 DEF TypeOK, Accounted, SentIsStored, Idle
<1>6. \A v \in Workers : Unsent(v)' = Unsent(v) /\ (Outgoing(v) \cap Buffered(v))' = {}
  <2>1. \A v \in Workers \ {w} : Outgoing(v)' = Outgoing(v) /\ Buffered(v)' = Buffered(v)
    BY <1>1, <1>2 DEF TypeOK, Outgoing, Buffered, PendingAfter
  <2>2. \A v \in Workers : Outgoing(v) \cap Buffered(v) = {}
    BY DEF Accounted, HeldOnce
  <2>3. Outgoing(w) = {} /\ Buffered(w) = {pending[w]} \ {None}
    BY <1>1 DEF Outgoing, Buffered, PendingAfter, Idle
  <2>4. CASE pending[w] = None /\ sending' = sending
    <3>1. Outgoing(w)' = {} /\ Buffered(w)' = {pending[w]} \ {None}
      BY <1>1, <2>4 DEF Outgoing, Buffered, PendingAfter, Idle
    <3>. QED  BY <2>1, <2>2, <2>3, <3>1 DEF Unsent
  <2>5. CASE pending[w] # None
    <3>1. sending'[w] = [event |-> pending[w], reason |-> "flush", current |-> None]
      BY <1>2, <2>5 DEF TypeOK
    <3>2. Outgoing(w)' = {pending[w]} /\ Buffered(w)' = {}
      BY <1>1, <3>1 DEF Outgoing, Buffered, PendingAfter
    <3>. QED  BY <2>1, <2>2, <2>3, <2>5, <3>2 DEF Unsent
  <2>. QED  BY <1>2, <2>4, <2>5
<1>8. (HeldOnce /\ Identified /\ LateCounted)'
  BY <1>1, <1>3, <1>6, SameHoldings DEF Accounted
<1>9. Repeated' = Repeated
  BY <1>1, <1>2 DEF TypeOK, Repeated, Idle
<1>10. CopiesCounted'
  BY <1>1, <1>3, <1>9 DEF Accounted, CopiesCounted
<1>. QED  BY <1>4, <1>5, <1>8, <1>10 DEF Accounted

\* After the acknowledgment the worker owes what it owed before.
LEMMA AcknowledgedAccounted ==
    ASSUME TypeOK, Accounted, NEW w \in Workers, Acknowledged(w)
    PROVE  Accounted'
<1>1. /\ pc[w] = "sending" /\ appended[w] /\ sending[w].event \in Stored
      /\ UNCHANGED <<made, raw, madeLate>>
      /\ sending' = [sending EXCEPT ![w] = Idle]
      /\ appended' = [appended EXCEPT ![w] = FALSE]
      /\ pending' = [pending EXCEPT ![w] = PendingAfter(w)]
      /\ pc' = [pc EXCEPT ![w] = NextStep(w)]
  BY DEF Acknowledged, Accounted, SentIsStored
<1>2. Stored' = Stored
  BY <1>1 DEF Stored
<1>3. /\ pending'[w] = PendingAfter(w) /\ pc'[w] = NextStep(w)
      /\ sending'[w] = Idle /\ ~appended'[w]
  BY <1>1 DEF TypeOK
<1>4. Placed'
  <2>1. NextStep(w) # "sending" /\ (NextStep(w) = "done" => PendingAfter(w) = None)
    BY DEF NextStep, PendingAfter
  <2>2. \A v \in Workers \ {w} : /\ pc'[v] = pc[v] /\ sending'[v] = sending[v]
                                 /\ appended'[v] = appended[v] /\ pending'[v] = pending[v]
    BY <1>1 DEF TypeOK
  <2>. QED  BY <1>3, <2>1, <2>2 DEF Accounted, Placed
<1>5. SentIsStored'
  <2>1. \A i \in DOMAIN sentEvents' : sentEvents'[i] \in Stored
    <3>. DEFINE longer == Append(sentEvents, sending[w].event)
    <3>1. /\ sentEvents \in Seq(Events) /\ sending[w].event \in Events
          /\ \A i \in DOMAIN sentEvents : sentEvents[i] \in Stored
      BY DEF TypeOK, Accounted, SentIsStored
    <3>2. /\ longer \in Seq(Events) /\ longer # <<>>
          /\ \A i \in DOMAIN longer : longer[i] \in Stored
      BY <1>1, <3>1
    <3>3. sentEvents' = Tail(longer) \/ sentEvents' = longer
      BY DEF Acknowledged, Remember
    <3>. HIDE DEF longer
    <3>4. \A i \in DOMAIN Tail(longer) : Tail(longer)[i] \in Stored
      BY <3>2
    <3>. QED  BY <3>2, <3>3, <3>4
  <2>2. Idle.reason = "none"
    BY DEF Idle
  <2>3. \A v \in Workers \ {w} : sending'[v] = sending[v] /\ appended'[v] = appended[v]
    BY <1>1 DEF TypeOK
  <2>. QED  BY <1>2, <1>3, <2>1, <2>2, <2>3 DEF Accounted, SentIsStored
<1>6. \A v \in Workers : Unsent(v)' = Unsent(v) /\ (Outgoing(v) \cap Buffered(v))' = {}
  <2>1. \A v \in Workers \ {w} : Outgoing(v)' = Outgoing(v) /\ Buffered(v)' = Buffered(v)
    BY <1>1 DEF TypeOK, Outgoing, Buffered, PendingAfter
  <2>2. \A v \in Workers : Outgoing(v) \cap Buffered(v) = {}
    BY DEF Accounted, HeldOnce
  <2>3. Outgoing(w) = {} /\ Buffered(w) = {PendingAfter(w)} \ {None}
    BY <1>1 DEF Outgoing, Buffered
  <2>4. PendingAfter(w)' = pending'[w]
    BY <1>3 DEF PendingAfter, Idle
  <2>5. Outgoing(w)' = {} /\ Buffered(w)' = {PendingAfter(w)} \ {None}
    BY <1>3, <2>4 DEF Outgoing, Buffered, Idle
  <2>. QED  BY <2>1, <2>2, <2>3, <2>5 DEF Unsent
<1>7. (HeldOnce /\ Identified /\ LateCounted)'
  BY <1>1, <1>2, <1>6, SameHoldings DEF Accounted
<1>8. CopiesCounted'
  <2>1. /\ IsFiniteSet(Repeated) /\ Cardinality(Repeated) \in Nat
        /\ w \in Repeated => Cardinality(Repeated \ {w}) = Cardinality(Repeated) - 1
    <3>1. Repeated \subseteq Workers /\ IsFiniteSet(Workers)
      BY GeneratorAssumption DEF Repeated, GeneratorAssumption
    <3>. QED  BY <3>1, FS_Subset, FS_CardinalityType, FS_RemoveElement
  <2>2. Repeated' = Repeated \ {w} /\ (w \in Repeated <=> sending[w].reason = "duplicate")
    BY <1>1 DEF TypeOK, Repeated
  <2>3. duplicates' = duplicates + IF sending[w].reason = "duplicate" THEN 1 ELSE 0
    BY DEF Acknowledged, DuplicatesAfter
  <2>4. /\ Cardinality(Stored)' = Cardinality(Stored) /\ Len(raw') = Len(raw)
        /\ Cardinality(Stored) \in Nat /\ duplicates \in Nat
    BY <1>1, <1>2, EventsFinite, FS_CardinalityType DEF TypeOK
  <2>5. CASE w \in Repeated
    BY <2>1, <2>2, <2>3, <2>4, <2>5 DEF Accounted, CopiesCounted
  <2>6. CASE w \notin Repeated
    <3>1. Repeated' = Repeated /\ duplicates' = duplicates
      BY <2>2, <2>3, <2>4, <2>6
    <3>. QED  BY <2>4, <3>1 DEF Accounted, CopiesCounted
  <2>. QED  BY <2>5, <2>6
<1>. QED  BY <1>4, <1>5, <1>7, <1>8 DEF Accounted

\* A first copy moves from the worker to the topic; a further copy is counted.
LEMMA BrokerAppendAccounted ==
    ASSUME TypeOK, Accounted, NEW w \in Workers, BrokerAppend(w)
    PROVE  Accounted'
<1>. DEFINE e == sending[w].event
<1>1. /\ ~appended[w] /\ raw' = Append(raw, e)
      /\ appended' = [appended EXCEPT ![w] = TRUE]
      /\ UNCHANGED <<made, pc, pending, sending, madeLate, duplicates, sentEvents>>
      /\ e \in Events /\ sending[w] \in Sendings
  BY DEF BrokerAppend, counters, TypeOK, Sendings
<1>2. pc[w] = "sending" /\ sending[w].reason # "none"
  BY DEF BrokerAppend, Accounted, Placed, TypeOK
<1>3. /\ appended'[w] /\ \A v \in Workers \ {w} : appended'[v] = appended[v]
      /\ sending' = sending /\ pending' = pending
  BY <1>1 DEF TypeOK
<1>. HIDE DEF e
<1>4. Stored' = Stored \cup {e} /\ Len(raw') = Len(raw) + 1 /\ Len(raw) \in Nat
  <2>1. raw \in Seq(Events)
    BY DEF TypeOK
  <2>2. /\ DOMAIN raw' = 1..(Len(raw) + 1) /\ DOMAIN raw = 1..Len(raw)
        /\ raw'[Len(raw) + 1] = e /\ \A i \in 1..Len(raw) : raw'[i] = raw[i]
        /\ Len(raw') = Len(raw) + 1 /\ Len(raw) \in Nat
    BY <1>1, <2>1
  <2>. QED  BY <2>2 DEF Stored
<1>5. Placed'
  BY <1>1, <1>2, <1>3 DEF Accounted, Placed
<1>6. SentIsStored'
  <2>1. \A i \in DOMAIN sentEvents' : sentEvents'[i] \in Stored'
    BY <1>1, <1>4 DEF Accounted, SentIsStored
  <2>2. ASSUME NEW v \in Workers, appended'[v] \/ sending'[v].reason = "duplicate"
        PROVE  sending'[v].event \in Stored'
    <3>1. CASE v = w
      BY <1>3, <1>4, <3>1 DEF e
    <3>2. CASE v # w
      BY <1>3, <1>4, <2>2, <3>2 DEF Accounted, SentIsStored
    <3>. QED  BY <3>1, <3>2
  <2>. QED  BY <2>1, <2>2 DEF SentIsStored
<1>7. /\ \A v \in Workers : Buffered(v)' = Buffered(v)
      /\ \A v \in Workers \ {w} : Outgoing(v)' = Outgoing(v)
      /\ Outgoing(w)' = {}
  BY <1>3 DEF Buffered, PendingAfter, Outgoing
<1>8. Cardinality(Repeated) \in Nat /\ Cardinality(Stored) \in Nat /\ IsFiniteSet(Stored)
      /\ (w \notin Repeated => Cardinality(Repeated \cup {w}) = Cardinality(Repeated) + 1)
      /\ duplicates \in Nat
  <2>1. Repeated \subseteq Workers /\ IsFiniteSet(Workers)
    BY GeneratorAssumption DEF Repeated, GeneratorAssumption
  <2>2. IsFiniteSet(Stored) /\ duplicates \in Nat
    BY EventsFinite DEF TypeOK
  <2>. QED  BY <2>1, <2>2, FS_Subset, FS_CardinalityType, FS_AddElement
<1>9. Len(raw) = Cardinality(Stored) + duplicates + Cardinality(Repeated)
  BY DEF Accounted, CopiesCounted
<1>10. CASE sending[w].reason = "duplicate"
  <2>1. Stored' = Stored /\ Outgoing(w) = {}
    BY <1>4, <1>10 DEF e, Accounted, SentIsStored, Outgoing
  <2>2. \A v \in Workers : Unsent(v)' = Unsent(v) /\ (Outgoing(v) \cap Buffered(v))' = {}
    BY <1>7, <2>1 DEF Unsent, Accounted, HeldOnce
  <2>3. (HeldOnce /\ Identified /\ LateCounted)'
    BY <1>1, <2>1, <2>2, SameHoldings DEF Accounted
  <2>4. w \notin Repeated /\ Repeated' = Repeated \cup {w}
    BY <1>1, <1>3, <1>10 DEF Repeated
  <2>5. Cardinality(Repeated') = Cardinality(Repeated) + 1 /\ duplicates' = duplicates
        /\ Cardinality(Stored') = Cardinality(Stored)
    BY <1>1, <1>8, <2>1, <2>4
  <2>6. CopiesCounted'
    BY <1>4, <1>8, <1>9, <2>5 DEF CopiesCounted
  <2>. QED  BY <1>5, <1>6, <2>3, <2>6 DEF Accounted
<1>11. CASE sending[w].reason # "duplicate"
  <2>1. Outgoing(w) = {e}
    BY <1>1, <1>2, <1>11 DEF Outgoing, Sendings, e
  <2>2. /\ Unsent(w) = {e} \cup Buffered(w) /\ Unsent(w)' = Buffered(w)
        /\ \A v \in Workers \ {w} : Unsent(v)' = Unsent(v)
    BY <1>7, <2>1 DEF Unsent
  <2>3. e \notin Stored /\ e \notin Buffered(w) /\ \A v \in Workers \ {w} : e \notin Unsent(v)
    BY <2>1, <2>2 DEF Accounted, HeldOnce
  <2>4. Made' = Made
    BY <1>4, <2>2 DEF Made
  <2>5. HeldOnce'
    BY <1>4, <1>7, <2>1, <2>2, <2>3 DEF Accounted, HeldOnce
  <2>6. (Identified /\ LateCounted)'
    BY <1>1, <2>4 DEF Accounted, Identified, LateCounted
  <2>7. Repeated' = Repeated
    BY <1>1, <1>3, <1>11 DEF Repeated
  <2>8. Cardinality(Stored') = Cardinality(Stored) + 1
    BY <1>4, <1>8, <2>3, FS_AddElement
  <2>9. CopiesCounted'
    BY <1>1, <1>4, <1>8, <1>9, <2>7, <2>8 DEF CopiesCounted
  <2>. QED  BY <1>5, <1>6, <2>5, <2>6, <2>9 DEF Accounted
<1>. QED  BY <1>10, <1>11

\* One event more is owed to the topic, under the next id, counted late if it is.
LEMMA GenerateAccounted ==
    ASSUME TypeOK, Accounted, NEW w \in Workers, Generate(w)
    PROVE  Accounted'
<1>1. /\ pc[w] = "loop" /\ sending[w] = Idle /\ ~appended[w]
      /\ made' = made + 1 /\ made \in Nat
      /\ UNCHANGED <<appended, raw, duplicates, sentEvents>>
  BY GeneratorAssumption
  DEF Generate, Looping, Accounted, Placed, TypeOK, GeneratorAssumption
<1>2. PICK current :
         /\ current.id = made + 1 /\ current \in Events /\ current # None
         /\ madeLate' = madeLate + IF current.late THEN 1 ELSE 0
         /\ \/ /\ pending[w] = None /\ pending' = [pending EXCEPT ![w] = current]
               /\ UNCHANGED <<pc, sending>>
            \/ /\ pending[w] # None /\ pending' = pending
               /\ \/ StartSend(w, current, "out_of_order", None)
                  \/ StartSend(w, pending[w], "in_order", current)
  <2>1. PICK delay \in Delays :
           LET new == [id |-> made', time |-> made' - delay, late |-> delay # 0] IN
           /\ madeLate' = madeLate + IF delay # 0 THEN 1 ELSE 0
           /\ IF pending[w] = None
              THEN /\ pending' = [pending EXCEPT ![w] = new]
                   /\ UNCHANGED <<pc, sending>>
              ELSE /\ \/ StartSend(w, new, "out_of_order", None)
                      \/ StartSend(w, pending[w], "in_order", new)
                   /\ UNCHANGED pending
    BY DEF Generate
  <2>. DEFINE new == [id |-> made', time |-> made' - delay, late |-> delay # 0]
  <2>2. made' = made + 1 /\ made' \in 0..MaxEvents /\ delay \in Nat
    BY <1>1, GeneratorAssumption DEF Generate, GeneratorAssumption
  <2>3. new \in Events /\ new.id = made + 1 /\ new.late = (delay # 0) /\ new # None
    BY <1>1, <2>2 DEF Events, None
  <2>4. madeLate' = madeLate + IF new.late THEN 1 ELSE 0
    BY <2>1, <2>3
  <2>. HIDE DEF new
  <2>5. \/ /\ pending[w] = None /\ pending' = [pending EXCEPT ![w] = new]
           /\ UNCHANGED <<pc, sending>>
        \/ /\ pending[w] # None /\ pending' = pending
           /\ \/ StartSend(w, new, "out_of_order", None)
              \/ StartSend(w, pending[w], "in_order", new)
    BY <2>1 DEF new
  <2>. QED  BY <2>3, <2>4, <2>5
<1>3. Stored' = Stored
  BY <1>1 DEF Stored
<1>4. \A v \in Workers \ {w} : /\ pc'[v] = pc[v] /\ sending'[v] = sending[v]
                               /\ appended'[v] = appended[v] /\ pending'[v] = pending[v]
  BY <1>1, <1>2 DEF StartSend, TypeOK
<1>5. /\ ~appended'[w]
      /\ \/ /\ pending[w] = None /\ pending'[w] = current
            /\ pc'[w] = "loop" /\ sending'[w] = Idle
         \/ /\ pending[w] # None /\ pending'[w] = pending[w] /\ pc'[w] = "sending"
            /\ sending'[w] = [event |-> current, reason |-> "out_of_order", current |-> None]
         \/ /\ pending[w] # None /\ pending'[w] = pending[w] /\ pc'[w] = "sending"
            /\ sending'[w] = [event |-> pending[w], reason |-> "in_order", current |-> current]
  BY <1>1, <1>2 DEF StartSend, TypeOK
<1>6. Placed'
  BY <1>4, <1>5 DEF Accounted, Placed
<1>7. SentIsStored'
  BY <1>1, <1>3, <1>4, <1>5 DEF Accounted, SentIsStored, Idle
<1>8. \A v \in Workers \ {w} : Outgoing(v)' = Outgoing(v) /\ Buffered(v)' = Buffered(v)
  BY <1>4 DEF Outgoing, Buffered, PendingAfter
<1>9. Outgoing(w) = {} /\ Buffered(w) = {pending[w]} \ {None}
  BY <1>1 DEF Outgoing, Buffered, PendingAfter, Idle
<1>10. current \notin Made /\ made + 1 \notin {e.id : e \in Made}
  BY <1>1, <1>2 DEF Accounted, Identified
<1>11. Unsent(w)' = Unsent(w) \cup {current} /\ (Outgoing(w) \cap Buffered(w))' = {}
  <2>1. CASE pending[w] = None /\ pending'[w] = current /\ sending'[w] = Idle
    <3>1. Outgoing(w)' = {} /\ Buffered(w)' = {current}
      BY <1>2, <2>1 DEF Outgoing, Buffered, PendingAfter, Idle
    <3>. QED  BY <1>9, <2>1, <3>1 DEF Unsent
  <2>2. CASE /\ pending[w] # None /\ pending'[w] = pending[w]
             /\ sending'[w] = [event |-> current, reason |-> "out_of_order", current |-> None]
    <3>1. Outgoing(w)' = {current} /\ Buffered(w)' = {pending[w]}
      BY <1>5, <2>2 DEF Outgoing, Buffered, PendingAfter
    <3>2. pending[w] \in Made
      BY <1>9, <2>2 DEF Made, Unsent
    <3>. QED  BY <1>9, <1>10, <2>2, <3>1, <3>2 DEF Unsent
  <2>3. CASE /\ pending[w] # None
             /\ sending'[w] = [event |-> pending[w], reason |-> "in_order", current |-> current]
    <3>1. Outgoing(w)' = {pending[w]} /\ Buffered(w)' = {current}
      BY <1>2, <1>5, <2>3 DEF Outgoing, Buffered, PendingAfter
    <3>2. pending[w] \in Made
      BY <1>9, <2>3 DEF Made, Unsent
    <3>. QED  BY <1>9, <1>10, <2>3, <3>1, <3>2 DEF Unsent
  <2>. QED  BY <1>5, <2>1, <2>2, <2>3
<1>12. /\ \A v \in Workers \ {w} : Unsent(v)' = Unsent(v)
       /\ Made' = Made \cup {current}
       /\ \A v \in Workers : current \notin Unsent(v)
       /\ current \notin Stored
  BY <1>3, <1>8, <1>10, <1>11 DEF Made, Unsent
<1>13. HeldOnce'
  BY <1>3, <1>8, <1>11, <1>12 DEF Accounted, HeldOnce
<1>14. Identified'
  <2>1. {e.id : e \in Made'} = {e.id : e \in Made} \cup {made + 1}
    BY <1>2, <1>12
  <2>2. {e.id : e \in Made'} = 1..made'
    BY <1>1, <2>1 DEF Accounted, Identified
  <2>3. \A e, f \in Made' : e.id = f.id => e = f
    BY <1>2, <1>10, <1>12 DEF Accounted, Identified
  <2>. QED  BY <2>2, <2>3 DEF Identified
<1>15. LateCounted'
  <2>. DEFINE late == {e \in Made : e.late}
  <2>1. IsFiniteSet(late) /\ current \notin late
    BY <1>10, EventsFinite, FS_Subset
  <2>2. Cardinality(late \cup {current}) = Cardinality(late) + 1
    BY <2>1, FS_AddElement
  <2>3. CASE current.late
    <3>1. {e \in Made' : e.late} = late \cup {current}
      BY <1>12, <2>3
    <3>2. madeLate' = madeLate + 1 /\ madeLate = Cardinality(late)
      BY <1>2, <2>3 DEF Accounted, LateCounted
    <3>. QED  BY <2>2, <3>1, <3>2 DEF LateCounted
  <2>4. CASE ~current.late
    <3>1. {e \in Made' : e.late} = late
      BY <1>12, <2>4
    <3>2. madeLate' = madeLate /\ madeLate = Cardinality(late)
      BY <1>2, <2>4 DEF Accounted, LateCounted, TypeOK
    <3>. QED  BY <3>1, <3>2 DEF LateCounted
  <2>. QED  BY <2>3, <2>4
<1>16. CopiesCounted'
  <2>1. Repeated' = Repeated
    BY <1>1, <1>4, <1>5 DEF Repeated
  <2>. QED  BY <1>1, <1>3, <2>1 DEF Accounted, CopiesCounted
<1>. QED  BY <1>6, <1>7, <1>13, <1>14, <1>15, <1>16 DEF Accounted

\* Nothing is made yet.
LEMMA SoundInit == Init => Sound
<1>. SUFFICES ASSUME Init PROVE Sound
  OBVIOUS
<1>1. Stored = {} /\ Repeated = {}
  BY DEF Init, Stored, Repeated
<1>2. \A w \in Workers : Outgoing(w) = {} /\ Buffered(w) = {}
  BY DEF Init, Outgoing, Buffered, PendingAfter, Idle
<1>3. Made = {}
  BY <1>1, <1>2 DEF Made, Unsent
<1>4. Placed /\ SentIsStored
  BY DEF Init, Placed, SentIsStored, Idle
<1>5. HeldOnce
  BY <1>1, <1>2 DEF HeldOnce, Unsent
<1>6. Identified
  BY <1>3 DEF Identified, Init
<1>7. LateCounted /\ CopiesCounted
  <2>1. {e \in Made : e.late} = {}
    BY <1>3
  <2>2. Len(raw) = 0
    BY DEF Init
  <2>. QED  BY <1>1, <2>1, <2>2, FS_EmptySet DEF LateCounted, CopiesCounted, Init
<1>8. ReportIsFinal
  BY DEF Init, ReportIsFinal
<1>. QED  BY <1>4, <1>5, <1>6, <1>7, <1>8 DEF Sound, Accounted

\* What is printed stays what was counted: nothing runs after the final line.
LEMMA ReportStep ==
    ASSUME ReportIsFinal, [Next]_vars
    PROVE  ReportIsFinal'
<1>1. ASSUME NEW w \in Workers, Worker(w) PROVE ReportIsFinal'
  <2>1. phase # "ended" /\ report' = report
    BY <1>1 DEF Worker, Duplicate, Generate, LeaveLoop, Looping, BrokerAppend, Acknowledged,
                SendError
  <2>. QED  BY <2>1 DEF ReportIsFinal
<1>2. CASE Report
  BY <1>2 DEF Report, ReportIsFinal, counters
<1>3. CASE Deadline \/ GatherEnds \/ Interrupt \/ Kill \/ UNCHANGED vars
  BY <1>3 DEF Deadline, GatherEnds, Interrupt, Kill, vars, counters, ReportIsFinal
<1>. QED  BY <1>1, <1>2, <1>3 DEF Next

\* Every step keeps the account, until a worker fails.
LEMMA SoundStep ==
    ASSUME TypeOK, Sound, [Next]_vars
    PROVE  Sound'
<1>. SUFFICES ASSUME NoneFailed' PROVE Accounted'
  BY ReportStep DEF Sound
<1>1. Accounted /\ NoneFailed
  BY FailedForGood DEF Sound
<1>2. ASSUME NEW w \in Workers, Worker(w) PROVE Accounted'
  <2>1. ~SendError(w)
    BY DEF SendError, NoneFailed, TypeOK
  <2>. QED  BY <1>1, <1>2, <2>1, DuplicateAccounted, GenerateAccounted, LeaveLoopAccounted,
               BrokerAppendAccounted, AcknowledgedAccounted DEF Worker
<1>3. CASE UNCHANGED <<made, loopVars, raw, counters, sentEvents>>
  <2>1. /\ Stored' = Stored /\ Repeated' = Repeated
        /\ \A v \in Workers : Outgoing(v)' = Outgoing(v) /\ Buffered(v)' = Buffered(v)
    BY <1>3 DEF loopVars, Stored, Repeated, Outgoing, Buffered, PendingAfter
  <2>2. (HeldOnce /\ Identified /\ LateCounted)'
    <3>1. made' = made /\ madeLate' = madeLate
      BY <1>3 DEF counters
    <3>2. \A v \in Workers : Unsent(v)' = Unsent(v) /\ (Outgoing(v) \cap Buffered(v))' = {}
      BY <1>1, <2>1 DEF Unsent, Accounted, HeldOnce
    <3>. QED  BY <1>1, <2>1, <3>1, <3>2, SameHoldings DEF Accounted
  <2>3. Placed' /\ SentIsStored' /\ CopiesCounted'
    BY <1>1, <1>3, <2>1 DEF loopVars, counters, Accounted, Placed, SentIsStored, CopiesCounted
  <2>. QED  BY <2>2, <2>3 DEF Accounted
<1>4. CASE Interrupt
  <2>1. pc' = pc
    <3>1. \A w \in Workers : pc[w] = "done"
      BY <1>4 DEF Interrupt, NoneFailed
    <3>. QED  BY <1>4, <3>1 DEF Interrupt, TypeOK
  <2>. QED  BY <1>3, <1>4, <2>1 DEF Interrupt, loopVars
<1>5. CASE Deadline \/ GatherEnds \/ Report \/ Kill \/ UNCHANGED vars
  BY <1>3, <1>5 DEF Deadline, GatherEnds, Report, Kill, vars, loopVars, counters
<1>. QED  BY <1>2, <1>4, <1>5 DEF Next

\* Events with ids of their own are as many as their ids.
LEMMA AsManyIds ==
    ASSUME NEW S, IsFiniteSet(S), \A e, f \in S : e.id = f.id => e = f
    PROVE  Cardinality({e.id : e \in S}) = Cardinality(S)
<1>. DEFINE g == [e \in S |-> e.id]
            T == {e.id : e \in S}
<1>1. g \in Bijection(S, T)
  <2>1. g \in Surjection(S, T)
    BY DEF Surjection
  <2>2. g \in Injection(S, T)
    BY <2>1 DEF Surjection, Injection, IsInjective
  <2>. QED  BY <2>1, <2>2 DEF Bijection
<1>2. ExistsBijection(S, T)
  BY <1>1 DEF ExistsBijection
<1>. HIDE DEF g, T
<1>3. Cardinality(T) = Cardinality(S)
  BY <1>2, FS_Bijection
<1>. QED  BY <1>3 DEF T

-----------------------------------------------------------------------------
(* The properties *)

\* Type correctness, with the limit of the deque and the counters' order.
THEOREM TypeCorrect == Spec => []TypeOK
<1>1. IInv => TypeOK
  BY DEF IInv
<1>. QED  BY InvInit, InvStep, <1>1, PTL DEF Spec

\* Through errors, interrupts and kills the counter is never ahead of the topic,
\* and behind it by at most one record of each worker.
THEOREM CounterIsClose == Spec => []CounterTracksTopic
<1>1. IInv => CounterTracksTopic
  <2>. SUFFICES ASSUME IInv PROVE CounterTracksTopic
    OBVIOUS
  <2>. QED  BY UnacknowledgedCounted DEF IInv, TypeOK, Balanced, CounterTracksTopic
<1>. QED  BY InvInit, InvStep, <1>1, PTL DEF Spec

\* After a run that no worker failed in, the final line accounts for the topic:
\* records, distinct ids, late ids, and every event made is there.
THEOREM CleanReport == Spec => []CleanReportReconciles
<1>1. ASSUME IInv, Sound PROVE CleanReportReconciles
  <2>. SUFFICES ASSUME CleanEnd
                PROVE  /\ report[1].sent = Len(raw)
                       /\ Cardinality(RawIds) = report[1].sent - report[1].duplicates
                       /\ RawIds = 1..made
                       /\ report[1].late =
                             Cardinality({raw[i].id : i \in {j \in DOMAIN raw : raw[j].late}})
    BY DEF CleanReportReconciles
  <2>1. TypeOK /\ Balanced /\ Accounted
    BY <1>1 DEF IInv, Sound, NoneFailed, CleanEnd
  <2>2. report[1].sent = sent /\ report[1].duplicates = duplicates /\ report[1].late = madeLate
    BY <1>1 DEF Sound, ReportIsFinal, CleanEnd
  <2>3. \A w \in Workers : sending[w] = Idle /\ ~appended[w] /\ pending[w] = None
    BY <2>1 DEF CleanEnd, Accounted, Placed
  <2>4. Unacknowledged = {} /\ Repeated = {}
    BY <2>3 DEF Unacknowledged, Repeated
  <2>5. Made = Stored
    <3>1. \A w \in Workers : Unsent(w) = {}
      BY <2>3 DEF Unsent, Outgoing, Buffered, PendingAfter, Idle
    <3>. QED  BY <3>1 DEF Made
  <2>6. IsFiniteSet(Stored) /\ \A e, f \in Stored : e.id = f.id => e = f
    BY <2>1, <2>5, EventsFinite DEF Accounted, Identified
  <2>7. RawIds = {e.id : e \in Stored} /\ RawIds = 1..made
    BY <2>1, <2>5 DEF RawIds, Stored, Accounted, Identified
  <2>8. Cardinality(RawIds) = Cardinality(Stored)
    BY <2>6, <2>7, AsManyIds
  <2>9. Len(raw) = sent /\ Len(raw) = Cardinality(Stored) + duplicates
    <3>1. sent \in Nat /\ duplicates \in Nat /\ Cardinality(Stored) \in Nat
      BY <2>1, <2>6, FS_CardinalityType DEF TypeOK
    <3>. QED  BY <2>1, <2>4, <3>1, FS_EmptySet DEF Balanced, Accounted, CopiesCounted
  <2>10. madeLate = Cardinality({raw[i].id : i \in {j \in DOMAIN raw : raw[j].late}})
    <3>. DEFINE late == {e \in Stored : e.late}
    <3>1. {raw[i].id : i \in {j \in DOMAIN raw : raw[j].late}} = {e.id : e \in late}
      BY DEF Stored
    <3>2. IsFiniteSet(late) /\ \A e, f \in late : e.id = f.id => e = f
      BY <2>6, FS_Subset
    <3>3. Cardinality({e.id : e \in late}) = Cardinality(late)
      <4>. HIDE DEF late
      <4>. QED  BY <3>2, AsManyIds
    <3>4. madeLate = Cardinality(late)
      BY <2>1, <2>5 DEF Accounted, LateCounted
    <3>. QED  BY <3>1, <3>3, <3>4
  <2>11. Cardinality(RawIds) = sent - duplicates
    <3>1. sent \in Nat /\ duplicates \in Nat /\ Cardinality(Stored) \in Nat
      BY <2>1, <2>6, FS_CardinalityType DEF TypeOK
    <3>. QED  BY <2>8, <2>9, <3>1
  <2>. QED  BY <2>2, <2>7, <2>9, <2>10, <2>11
<1>2. IInv /\ Sound /\ [Next]_vars => IInv' /\ Sound'
  BY InvStep, SoundStep DEF IInv
<1>3. Init => IInv /\ Sound
  BY InvInit, SoundInit
<1>. QED  BY <1>1, <1>2, <1>3, PTL DEF Spec
=============================================================================
