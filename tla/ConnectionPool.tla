--------------------------- MODULE ConnectionPool ---------------------------
(***************************************************************************)
(* The bounded asyncpg pool of api/db.py under the requests of the API:    *)
(* _fetch and _fetchrow acquire a connection within two seconds, run one   *)
(* query on it and give it back on every way out of "async with"; main.py  *)
(* turns what they raise into a status.  Postgres may stop, come back, or  *)
(* hang with a query or a connection attempt open.                         *)
(*                                                                         *)
(* The pool itself is asyncpg's, modelled from how db.py uses it: MaxSize  *)
(* slots, lent in any order to the requests waiting; a slot whose          *)
(* connection died connects again when it is lent.                         *)
(*                                                                         *)
(* Operators named Bug... are plausible mistakes, as in ValidationDedup.   *)
(***************************************************************************)
EXTENDS Naturals, FiniteSets

CONSTANTS
    Requests,      \* bound: requests the API serves at a time
    Slots,         \* DB_POOL_MAX_SIZE connection holders
    NoSlot

ASSUME SlotsAssumption == IsFiniteSet(Slots) /\ NoSlot \notin Slots

VARIABLES
    step,      \* step[r]: idle, waiting, connecting, querying or answered
    health,    \* health[r]: the request is GET /health
    slot,      \* slot[r]: the slot r holds, or NoSlot
    free,      \* slots in the pool's queue
    alive,     \* slots with an open connection
    status,    \* status[r]: HTTP status of the answer
    pg         \* Postgres: "up", "down", or "hung"

vars == <<step, health, slot, free, alive, status, pg>>

\* create_pool in the lifespan: Postgres is up, min_size connections are open.
Init ==
    /\ step = [r \in Requests |-> "idle"]
    /\ health \in [Requests -> BOOLEAN]
    /\ slot = [r \in Requests |-> NoSlot]
    /\ free = Slots
    /\ alive \in SUBSET Slots
    /\ status = [r \in Requests |-> 0]
    /\ pg = "up"

-----------------------------------------------------------------------------
(* One request *)

\* The handler calls pool.acquire(timeout=2).
Ask(r) ==
    /\ step[r] = "idle"
    /\ step' = [step EXCEPT ![r] = "waiting"]
    /\ UNCHANGED <<health, slot, free, alive, status, pg>>

\* A free slot is lent; without a live connection it has to connect first.
Lend(r, s) ==
    /\ step[r] = "waiting"
    /\ s \in free
    /\ free' = free \ {s}
    /\ slot' = [slot EXCEPT ![r] = s]
    /\ step' = [step EXCEPT ![r] = IF s \in alive THEN "querying" ELSE "connecting"]
    /\ UNCHANGED <<health, alive, status, pg>>

BugKeptOnError(r, code) ==
    /\ step' = [step EXCEPT ![r] = "answered"]
    /\ status' = [status EXCEPT ![r] = code]
    /\ slot' = [slot EXCEPT ![r] = NoSlot]
    /\ free' = IF code = 200 THEN (free \cup {slot[r]}) \ {NoSlot} ELSE free

BugNothingReleased(r, code) ==
    /\ step' = [step EXCEPT ![r] = "answered"]
    /\ status' = [status EXCEPT ![r] = code]
    /\ slot' = [slot EXCEPT ![r] = NoSlot]
    /\ free' = free \cup {slot[r]}

\* "async with" is left and the response is sent: the slot, if any, goes back
\* to the pool's queue.
Respond(r, code) ==
    /\ step' = [step EXCEPT ![r] = "answered"]
    /\ status' = [status EXCEPT ![r] = code]
    /\ slot' = [slot EXCEPT ![r] = NoSlot]
    /\ free' = (free \cup {slot[r]}) \ {NoSlot}

\* Anything but a PostgresError: health() catches Exception, the other
\* endpoints have no handler for it.
OtherErrorStatus(r) == IF health[r] THEN 503 ELSE 500

BugNoTimeout(r) == step[r] = "connecting"

\* What asyncio.TimeoutError can interrupt: the wait for a slot, or the
\* connection attempt of the slot that was lent.
Acquiring(r) == step[r] \in {"waiting", "connecting"}

\* Two seconds are over: PoolExhaustedError.  A slot may just have come free,
\* or the connection be a moment away.
AcquireTimeout(r) ==
    /\ Acquiring(r)
    /\ Respond(r, 503)
    /\ UNCHANGED <<health, alive, pg>>

Connected(r) ==
    /\ step[r] = "connecting" /\ pg = "up"
    /\ step' = [step EXCEPT ![r] = "querying"]
    /\ alive' = alive \cup {slot[r]}
    /\ UNCHANGED <<health, slot, free, status, pg>>

\* The server refuses (OSError), or answers that it is starting or stopping
\* (a PostgresError).
ConnectFails(r) ==
    /\ step[r] = "connecting" /\ pg = "down"
    /\ \E code \in {OtherErrorStatus(r), 503} : Respond(r, code)
    /\ UNCHANGED <<health, alive, pg>>

QueryReturns(r) ==
    /\ step[r] = "querying" /\ pg = "up" /\ slot[r] \in alive
    /\ Respond(r, 200)
    /\ UNCHANGED <<health, alive, pg>>

BugLossUnnoticed(r) == FALSE /\ UNCHANGED vars

\* The server went away under the query: ConnectionDoesNotExistError and the
\* like are PostgresErrors, an InterfaceError is not.
QueryFails(r) ==
    /\ step[r] = "querying" /\ slot[r] \notin alive
    /\ \E code \in {OtherErrorStatus(r), 503} : Respond(r, code)
    /\ UNCHANGED <<health, alive, pg>>

\* The client has its answer and may send another request.
Again(r) ==
    /\ step[r] = "answered"
    /\ step' = [step EXCEPT ![r] = "idle"]
    /\ status' = [status EXCEPT ![r] = 0]
    /\ UNCHANGED <<health, slot, free, alive, pg>>

-----------------------------------------------------------------------------
(* Postgres *)

PgStop ==
    /\ pg # "down"
    /\ pg' = "down"
    /\ alive' = {}
    /\ UNCHANGED <<step, health, slot, free, status>>

PgStart ==
    /\ pg = "down"
    /\ pg' = "up"
    /\ UNCHANGED <<step, health, slot, free, alive, status>>

\* A lock, a full disk, a paused container: nothing is refused or answered.
PgHang ==
    /\ pg = "up"
    /\ pg' = "hung"
    /\ UNCHANGED <<step, health, slot, free, alive, status>>

PgResume ==
    /\ pg = "hung"
    /\ pg' = "up"
    /\ UNCHANGED <<step, health, slot, free, alive, status>>

Serve(r) ==
    \/ \E s \in Slots : Lend(r, s)
    \/ AcquireTimeout(r) \/ Connected(r) \/ ConnectFails(r)
    \/ QueryReturns(r) \/ QueryFails(r)

Next ==
    \/ \E r \in Requests : Ask(r) \/ Serve(r) \/ Again(r)
    \/ PgStop \/ PgStart \/ PgHang \/ PgResume

Spec == Init /\ [][Next]_vars

\* The event loop runs whatever can run of a request, timers included.  Nobody
\* owes the API a Postgres that comes back.
FairSpec == Spec /\ \A r \in Requests : WF_vars(Serve(r))

-----------------------------------------------------------------------------
(* Properties *)

Held == {slot[r] : r \in Requests} \ {NoSlot}

\* Type invariant.
TypeOK ==
    /\ step \in [Requests -> {"idle", "waiting", "connecting", "querying", "answered"}]
    /\ health \in [Requests -> BOOLEAN]
    /\ slot \in [Requests -> Slots \cup {NoSlot}]
    /\ free \subseteq Slots /\ alive \subseteq Slots
    /\ status \in [Requests -> {0, 200, 500, 503}]
    /\ pg \in {"up", "down", "hung"}

\* No way out of a request, by a timeout, a refused connection or a query cut
\* short, costs the pool a slot, and no two requests share one: every slot is
\* free or in the hands of one request that is connecting or querying.
SlotsConserved ==
    /\ free \cap Held = {} /\ free \cup Held = Slots
    /\ \A q, r \in Requests : q # r /\ slot[q] = slot[r] => slot[q] = NoSlot
    /\ \A r \in Requests : slot[r] # NoSlot <=> step[r] \in {"connecting", "querying"}

\* docs/architecture-design-doc.md:345, exhaustion is fail-fast: no request is
\* kept waiting for a connection, even if Postgres hangs for good with every
\* connection of the pool held.
NobodyQueues ==
    \A r \in Requests : step[r] = "waiting" ~> step[r] \in {"querying", "answered"}

\* _fetch gives its query no timeout, so a request can hang with Postgres, but
\* only with it: unless Postgres hangs again and again, every request is
\* answered, those included whose query a restart of Postgres cut short.
AnswersUnlessHung ==
    <>[](pg # "hung") => \A r \in Requests : step[r] = "waiting" ~> step[r] = "answered"
=============================================================================
