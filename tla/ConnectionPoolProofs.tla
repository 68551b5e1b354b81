------------------------ MODULE ConnectionPoolProofs ------------------------
(***************************************************************************)
(* Proofs about ConnectionPool, for any number of requests and slots.  The *)
(* two invariants are inductive together.                                  *)
(***************************************************************************)
EXTENDS ConnectionPool, TLAPS

IInv == TypeOK /\ SlotsConserved

\* Answering a request that holds a slot, or is still waiting for one, keeps
\* both invariants: every way out of _fetch and _fetchrow ends here.
LEMMA RespondStep ==
    ASSUME IInv, NEW r \in Requests, NEW code \in {200, 500, 503},
           step[r] \in {"waiting", "connecting", "querying"},
           Respond(r, code), UNCHANGED <<health, alive, pg>>
    PROVE  IInv'
<1>1. TypeOK'
  BY SlotsAssumption DEF IInv, TypeOK, Respond
<1>2. (free \cap Held = {} /\ free \cup Held = Slots)'
  <2>1. Held' = Held \ {slot[r]}
    BY SlotsAssumption DEF IInv, TypeOK, SlotsConserved, Held, Respond
  <2>2. slot[r] # NoSlot => slot[r] \in Held
    BY DEF Held
  <2>. QED  BY <2>1, <2>2, SlotsAssumption DEF IInv, TypeOK, SlotsConserved, Respond, Held
<1>3. (\A q, t \in Requests : q # t /\ slot[q] = slot[t] => slot[q] = NoSlot)'
  BY DEF IInv, TypeOK, SlotsConserved, Respond
<1>4. (\A t \in Requests : slot[t] # NoSlot <=> step[t] \in {"connecting", "querying"})'
  BY DEF IInv, TypeOK, SlotsConserved, Respond
<1>. QED  BY <1>1, <1>2, <1>3, <1>4 DEF IInv, SlotsConserved

\* Lending a free slot keeps both invariants: no other request holds it.
LEMMA LendStep ==
    ASSUME IInv, NEW r \in Requests, NEW s \in Slots, Lend(r, s)
    PROVE  IInv'
<1>1. TypeOK'
  BY DEF IInv, TypeOK, Lend
<1>2. slot[r] = NoSlot
  BY DEF IInv, TypeOK, SlotsConserved, Lend
<1>3. (free \cap Held = {} /\ free \cup Held = Slots)'
  <2>1. Held' = Held \cup {s}
    BY <1>2, SlotsAssumption DEF IInv, TypeOK, Held, Lend
  <2>. QED  BY <2>1 DEF IInv, TypeOK, SlotsConserved, Lend
<1>4. \A q \in Requests : slot[q] # s
  BY SlotsAssumption DEF IInv, SlotsConserved, Held, Lend
<1>5. (\A q, t \in Requests : q # t /\ slot[q] = slot[t] => slot[q] = NoSlot)'
  BY <1>4 DEF IInv, TypeOK, SlotsConserved, Lend
<1>6. (\A t \in Requests : slot[t] # NoSlot <=> step[t] \in {"connecting", "querying"})'
  BY SlotsAssumption DEF IInv, TypeOK, SlotsConserved, Lend
<1>. QED  BY <1>1, <1>3, <1>5, <1>6 DEF IInv, SlotsConserved

\* The initial states satisfy both invariants: the whole pool is free.
LEMMA InvInit == Init => IInv
<1>. SUFFICES ASSUME Init PROVE IInv
  OBVIOUS
<1>1. TypeOK
  BY DEF Init, TypeOK
<1>2. Held = {}
  BY DEF Init, Held
<1>. QED  BY <1>1, <1>2 DEF Init, IInv, SlotsConserved

\* Every step of the API or of Postgres keeps both invariants.
LEMMA InvStep == IInv /\ [Next]_vars => IInv'
<1>. SUFFICES ASSUME IInv, [Next]_vars PROVE IInv'
  OBVIOUS
<1>1. ASSUME NEW r \in Requests, Ask(r) PROVE IInv'
  <2>1. TypeOK'  BY <1>1 DEF IInv, TypeOK, Ask
  <2>2. Held' = Held  BY <1>1 DEF Held, Ask
  <2>. QED  BY <1>1, <2>1, <2>2 DEF IInv, TypeOK, SlotsConserved, Ask
<1>2. ASSUME NEW r \in Requests, NEW s \in Slots, Lend(r, s) PROVE IInv'
  BY <1>2, LendStep
<1>3. ASSUME NEW r \in Requests, AcquireTimeout(r) PROVE IInv'
  BY <1>3, RespondStep DEF AcquireTimeout, Acquiring
<1>4. ASSUME NEW r \in Requests, Connected(r) PROVE IInv'
  <2>1. slot[r] \in Slots
    BY <1>4 DEF IInv, TypeOK, SlotsConserved, Connected
  <2>2. TypeOK'  BY <1>4, <2>1 DEF IInv, TypeOK, Connected
  <2>3. Held' = Held  BY <1>4 DEF Held, Connected
  <2>. QED  BY <1>4, <2>2, <2>3 DEF IInv, TypeOK, SlotsConserved, Connected
<1>5. ASSUME NEW r \in Requests, ConnectFails(r) PROVE IInv'
  <2>1. PICK code \in {OtherErrorStatus(r), 503} : Respond(r, code)
    BY <1>5 DEF ConnectFails
  <2>2. code \in {200, 500, 503}
    BY <2>1 DEF OtherErrorStatus
  <2>. QED  BY <1>5, <2>1, <2>2, RespondStep DEF ConnectFails
<1>6. ASSUME NEW r \in Requests, QueryReturns(r) PROVE IInv'
  BY <1>6, RespondStep DEF QueryReturns
<1>7. ASSUME NEW r \in Requests, QueryFails(r) PROVE IInv'
  <2>1. PICK code \in {OtherErrorStatus(r), 503} : Respond(r, code)
    BY <1>7 DEF QueryFails
  <2>2. code \in {200, 500, 503}
    BY <2>1 DEF OtherErrorStatus
  <2>. QED  BY <1>7, <2>1, <2>2, RespondStep DEF QueryFails
<1>8. ASSUME NEW r \in Requests, Again(r) PROVE IInv'
  <2>1. TypeOK'  BY <1>8 DEF IInv, TypeOK, Again
  <2>2. Held' = Held  BY <1>8 DEF Held, Again
  <2>. QED  BY <1>8, <2>1, <2>2 DEF IInv, TypeOK, SlotsConserved, Again
<1>9. ASSUME PgStop \/ PgStart \/ PgHang \/ PgResume PROVE IInv'
  <2>1. TypeOK'  BY <1>9 DEF IInv, TypeOK, PgStop, PgStart, PgHang, PgResume
  <2>2. UNCHANGED <<step, slot, free>>
    BY <1>9 DEF PgStop, PgStart, PgHang, PgResume
  <2>. QED  BY <2>1, <2>2 DEF IInv, SlotsConserved, Held
<1>10. ASSUME UNCHANGED vars PROVE IInv'
  BY <1>10 DEF IInv, TypeOK, SlotsConserved, Held, vars
<1>. QED
  BY <1>1, <1>2, <1>3, <1>4, <1>5, <1>6, <1>7, <1>8, <1>9, <1>10 DEF Next, Serve

\* Type correctness, and no slot of the pool is ever lost or shared, whatever
\* times out, is refused or is cut short.
THEOREM PoolConserved == Spec => [](TypeOK /\ SlotsConserved)
<1>1. IInv => TypeOK /\ SlotsConserved
  BY DEF IInv
<1>. QED  BY InvInit, InvStep, <1>1, PTL DEF Spec

\* Type correctness alone.
THEOREM TypeCorrect == Spec => []TypeOK
<1>1. TypeOK /\ SlotsConserved => TypeOK
  OBVIOUS
<1>. QED  BY PoolConserved, <1>1, PTL
=============================================================================
