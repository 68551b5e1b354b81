-------------------------- MODULE KeysetPagination --------------------------
(***************************************************************************)
(* Keyset pagination in api/: a client walks the pages of an endpoint by   *)
(* sending back each next_cursor, while the Flink sinks keep inserting.    *)
(* A cursor names a row, not an endpoint: the two endpoints that read the  *)
(* anomalies table take each other's, so a walk may change between them.   *)
(*                                                                         *)
(* A page is one SELECT, so it reads one state of the table; rows become   *)
(* visible in any order of their keys (event_time is the payload's,        *)
(* detected_at is the start of a statement that commits later).  An upsert *)
(* of a row that is there leaves its key alone, and a request answered 503 *)
(* leaves the client where it was: neither needs an action.                *)
(*                                                                         *)
(* Operators named Bug... are plausible mistakes, as in ValidationDedup.   *)
(***************************************************************************)
EXTENDS Integers, Sequences, FiniteSets

CONSTANTS
    Rows,        \* rows the sinks may insert, in all tables
    Table,       \* Table[r]: the table of the row
    Time,        \* Time[r]: event_time, window_start or detected_at
    Id,          \* Id[r]: event_id or anomaly_id, a primary key
    Selected,    \* Selected[e]: rows that satisfy the endpoint's filters
    Limit        \* the limit parameter, 1..200

Endpoints == {"transactions", "aggregates", "user_anomalies", "anomalies"}
Tables == {"events", "window_aggregates", "anomalies"}

\* The FROM clause of the endpoint's query.
TableOf(e) ==
    CASE e = "transactions" -> "events"
      [] e = "aggregates" -> "window_aggregates"
      [] e \in {"user_anomalies", "anomalies"} -> "anomalies"

ASSUME RowsAssumption ==
    /\ IsFiniteSet(Rows)
    /\ Table \in [Rows -> Tables]
    /\ Time \in [Rows -> Nat] /\ Id \in [Rows -> Nat]
    /\ Selected \in [Endpoints -> SUBSET Rows]
    /\ \A e \in Endpoints : \A r \in Selected[e] : Table[r] = TableOf(e)
    /\ Limit \in Nat \ {0}

VARIABLES
    table,     \* rows visible in Postgres
    walk,      \* walk[e], the walk begun at e: "none", "walking" or "ended"
    cursor,    \* cursor[e]: the next_cursor of its last page
    returned,  \* returned[e]: rows on its pages so far
    base       \* ghost: rows visible when it began that every endpoint it has
               \* asked selects

vars == <<table, walk, cursor, returned, base>>

NoCursor == <<>>

Init ==
    /\ table = {}
    /\ walk = [e \in Endpoints |-> "none"]
    /\ cursor = [e \in Endpoints |-> NoCursor]
    /\ returned = [e \in Endpoints |-> {}]
    /\ base = [e \in Endpoints |-> {}]

-----------------------------------------------------------------------------
(* Keys and cursors *)

\* The ORDER BY list of the endpoint's query: a user's windows differ in their
\* start, the other rows need the primary key to break ties.
Key(r) == IF Table[r] = "window_aggregates" THEN <<Time[r]>> ELSE <<Time[r], Id[r]>>

\* The rows of a query have different keys: event_id and anomaly_id are primary
\* keys, and a user has one row for each window_start.
ASSUME KeysAssumption ==
    \A e \in Endpoints : \A q, r \in Selected[e] : Key(q) = Key(r) => q = r

\* SQL row comparison a < b.
Precedes(a, b) ==
    \E i \in DOMAIN a \cap DOMAIN b : a[i] < b[i] /\ \A j \in 1..(i - 1) : a[j] = b[j]

\* What each value of a cursor is written as: isoformat(), str(UUID), str(int);
\* and the types the endpoint decodes.
TextForm(e) ==
    CASE e = "transactions" -> <<"iso", "uuid">>
      [] e = "aggregates" -> <<"iso">>
      [] e \in {"user_anomalies", "anomalies"} -> <<"iso", "digits">>

\* encode_cursor of the last row of a page of e.
EncodeCursor(e, r) ==
    [i \in DOMAIN Key(r) |-> [form |-> TextForm(e)[i], value |-> Key(r)[i]]]

BugExtraPartsIgnored(e, c) ==
    \A i \in DOMAIN c \cap DOMAIN TextForm(e) : c[i].form = TextForm(e)[i]

\* decode_cursor and int() raise no CursorError: as many values as the endpoint
\* expects, each a text that its type parses.
CursorAccepted(e, c) ==
    /\ Len(c) = Len(TextForm(e))
    /\ \A i \in DOMAIN c : c[i].form = TextForm(e)[i]

DecodedKey(c) == [i \in DOMAIN c |-> c[i].value]

-----------------------------------------------------------------------------
(* The queries *)

Visible(e) == table \cap Selected[e]

BugCursorIgnored(c, r) == TRUE
BugInclusive(c, r) == c = NoCursor \/ ~Precedes(DecodedKey(c), Key(r))
BugTimeOnly(c, r) == c = NoCursor \/ Time[r] < c[1].value

\* Rows whose key is below the cursor's; a NULL cursor restricts nothing.
BelowCursor(c, r) == c = NoCursor \/ Precedes(Key(r), DecodedKey(c))

\* The WHERE clause of endpoint e.
Candidates(e, c) == {r \in Visible(e) : BelowCursor(c, r)}

\* ORDER BY key DESC LIMIT.
TopOf(rows) ==
    {r \in rows : Cardinality({q \in rows : Precedes(Key(r), Key(q))}) < Limit}

LastOf(items) == CHOOSE r \in items : \A q \in items : ~Precedes(Key(q), Key(r))

\* page(): a full page may have a successor, a short one has none.
NextCursor(e, items) ==
    IF Cardinality(items) = Limit THEN EncodeCursor(e, LastOf(items)) ELSE NoCursor

-----------------------------------------------------------------------------
\* A sink's INSERT commits.
Insert(r) ==
    /\ r \notin table
    /\ table' = table \cup {r}
    /\ UNCHANGED <<walk, cursor, returned, base>>

\* Endpoint f answers 200 with a page to the walk begun at e.
Answer(e, f) ==
    LET items == TopOf(Candidates(f, cursor[e]))
        next  == NextCursor(f, items)
    IN /\ returned' = [returned EXCEPT ![e] = @ \cup items]
       /\ cursor' = [cursor EXCEPT ![e] = next]
       /\ walk' = [walk EXCEPT ![e] = IF next = NoCursor THEN "ended" ELSE "walking"]
       /\ UNCHANGED table

\* The client asks without a cursor.
FirstPage(e) ==
    /\ walk[e] = "none"
    /\ base' = [base EXCEPT ![e] = Visible(e)]
    /\ Answer(e, e)

\* The client sends the cursor back, to the endpoint that gave it or to another
\* that takes it; any other one answers 400 and nothing changes.
NextPage(e, f) ==
    /\ walk[e] = "walking"
    /\ CursorAccepted(f, cursor[e])
    /\ base' = [base EXCEPT ![e] = @ \cap Selected[f]]
    /\ Answer(e, f)

Next ==
    \/ \E r \in Rows : Insert(r)
    \/ \E e \in Endpoints : FirstPage(e)
    \/ \E e, f \in Endpoints : NextPage(e, f)

Spec == Init /\ [][Next]_vars

\* The client that began a walk keeps asking, wherever it likes; the sinks may
\* do nothing.
FairSpec == Spec /\ \A e \in Endpoints : WF_vars(\E f \in Endpoints : NextPage(e, f))

-----------------------------------------------------------------------------
(* Properties *)

Cursors ==
    {NoCursor} \cup UNION {{EncodeCursor(e, r) : r \in Selected[e]} : e \in Endpoints}

\* What the endpoints of e's table serve.
RowsOf(e) == UNION {Selected[f] : f \in {g \in Endpoints : TableOf(g) = TableOf(e)}}

\* Type invariant; a walk never leaves its table, whichever endpoints it asks.
TypeOK ==
    /\ table \subseteq Rows
    /\ walk \in [Endpoints -> {"none", "walking", "ended"}]
    /\ cursor \in [Endpoints -> Cursors]
    /\ returned \in [Endpoints -> SUBSET Rows]
    /\ base \in [Endpoints -> SUBSET Rows]
    /\ \A e \in Endpoints : returned[e] \subseteq RowsOf(e) /\ base[e] \subseteq Selected[e]

\* No row is on two pages of a walk, whatever is inserted between them and also
\* when the client changes to the other anomaly endpoint: the "pagination
\* overlap" that scripts/step12-validate-api.py:45 asserts against.
PagesDoNotOverlap ==
    [][\A e, f \in Endpoints :
          NextPage(e, f) => returned[e] \cap TopOf(Candidates(f, cursor[e])) = {}]_vars

\* A walk skips nothing: a row that was there when it began, and that every
\* endpoint the walk has asked selects, is on a page by the time a page comes
\* without next_cursor; while the walk lasts, what it owes is below the cursor.
\* For a walk that stays at one endpoint these are all the rows of the endpoint.
WalkIsComplete ==
    \A e \in Endpoints :
        /\ walk[e] = "ended" => base[e] \subseteq returned[e]
        /\ walk[e] = "walking" =>
              \A r \in base[e] \ returned[e] : r \in table /\ BelowCursor(cursor[e], r)

\* A walk in a table that is inserted into comes to its end.
WalkEnds == \A e \in Endpoints : (walk[e] = "walking") ~> (walk[e] = "ended")
=============================================================================
