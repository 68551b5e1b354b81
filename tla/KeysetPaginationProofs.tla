----------------------- MODULE KeysetPaginationProofs -----------------------
(***************************************************************************)
(* Proofs about KeysetPagination: the keys of a table are in a strict      *)
(* order, total on what an endpoint selects, so a page is a top segment of *)
(* that, its last row is the lowest, and the cursor cuts the rows of the   *)
(* table, at every endpoint that takes it, in those that may have been     *)
(* returned and those below.                                               *)
(***************************************************************************)
EXTENDS KeysetPagination, OrderLemmas

-----------------------------------------------------------------------------
(* Keys, and the order of the rows of one table *)

\* The key of a row: its time, and its id where the table has one.
LEMMA KeyFacts ==
    ASSUME NEW r \in Rows
    PROVE  /\ Table[r] \in Tables /\ Time[r] \in Nat /\ Id[r] \in Nat
           /\ DOMAIN Key(r) = IF Table[r] = "window_aggregates" THEN {1} ELSE {1, 2}
           /\ Key(r)[1] = Time[r]
           /\ Table[r] # "window_aggregates" => Key(r)[2] = Id[r]
           /\ Len(Key(r)) = IF Table[r] = "window_aggregates" THEN 1 ELSE 2
<1>1. CASE Table[r] = "window_aggregates"
  BY <1>1, RowsAssumption DEF Key
<1>2. CASE Table[r] # "window_aggregates"
  BY <1>2, RowsAssumption DEF Key
<1>. QED  BY <1>1, <1>2

\* The rows below one another, within a table.
Lower(q, r) ==
    \/ Time[q] < Time[r]
    \/ Table[r] # "window_aggregates" /\ Time[q] = Time[r] /\ Id[q] < Id[r]

\* SQL row comparison of keys is the order of the rows.
LEMMA PrecedesIsLower ==
    ASSUME NEW q \in Rows, NEW r \in Rows, Table[q] = Table[r]
    PROVE  Precedes(Key(q), Key(r)) <=> Lower(q, r)
<1>1. CASE Table[r] = "window_aggregates"
  <2>1. DOMAIN Key(q) \cap DOMAIN Key(r) = {1}
    BY <1>1, KeyFacts
  <2>2. 1..(1 - 1) = {}
    OBVIOUS
  <2>. QED  BY <1>1, <2>1, <2>2, KeyFacts DEF Precedes, Lower
<1>2. CASE Table[r] # "window_aggregates"
  <2>1. DOMAIN Key(q) \cap DOMAIN Key(r) = {1, 2}
    BY <1>2, KeyFacts
  <2>2. 1..(1 - 1) = {} /\ 1..(2 - 1) = {1}
    OBVIOUS
  <2>. QED  BY <1>2, <2>1, <2>2, KeyFacts DEF Precedes, Lower
<1>. QED  BY <1>1, <1>2

\* Lower is a strict order, and total on the rows an endpoint selects.
LEMMA LowerIsStrict ==
    /\ \A r \in Rows : ~Lower(r, r)
    /\ \A p, q, r \in Rows :
          Table[p] = Table[q] /\ Table[q] = Table[r]
          /\ Lower(p, q) /\ Lower(q, r) => Lower(p, r)
BY KeyFacts DEF Lower

\* Two rows an endpoint selects with the same key are one.
LEMMA LowerIsTotal ==
    ASSUME NEW e \in Endpoints, NEW q \in Selected[e], NEW r \in Selected[e]
    PROVE  q = r \/ Lower(q, r) \/ Lower(r, q)
<1>0. q \in Rows /\ r \in Rows /\ Table[q] = Table[r]
  BY RowsAssumption
<1>. SUFFICES ASSUME ~Lower(q, r), ~Lower(r, q) PROVE q = r
  OBVIOUS
<1>1. Time[q] = Time[r] /\ (Table[r] = "window_aggregates" \/ Id[q] = Id[r])
  BY <1>0, KeyFacts DEF Lower
<1>2. Key(q) = Key(r)
  BY <1>0, <1>1 DEF Key
<1>. QED  BY <1>2, KeysAssumption

-----------------------------------------------------------------------------
(* Cursors *)

\* Endpoints of one table write and read cursors alike, others do not.
LEMMA FormFacts ==
    ASSUME NEW e \in Endpoints
    PROVE  /\ DOMAIN TextForm(e) = IF TableOf(e) = "window_aggregates" THEN {1} ELSE {1, 2}
           /\ Len(TextForm(e)) = IF TableOf(e) = "window_aggregates" THEN 1 ELSE 2
           /\ TableOf(e) = "events" => TextForm(e)[2] = "uuid"
           /\ TableOf(e) = "anomalies" => TextForm(e)[2] = "digits"
           /\ \A f \in Endpoints : TableOf(f) = TableOf(e) => TextForm(f) = TextForm(e)
           /\ TableOf(e) \in Tables
BY DEF TextForm, TableOf, Endpoints, Tables

\* What an endpoint serves is in its table.
LEMMA ServedFacts ==
    ASSUME NEW e \in Endpoints
    PROVE  /\ Selected[e] \subseteq RowsOf(e) /\ RowsOf(e) \subseteq Rows
           /\ \A r \in RowsOf(e) : Table[r] = TableOf(e)
           /\ \A f \in Endpoints : TableOf(f) = TableOf(e) => RowsOf(f) = RowsOf(e)
BY RowsAssumption DEF RowsOf

\* The cursor made of a row leads back to its key.
LEMMA CursorFacts ==
    ASSUME NEW e \in Endpoints, NEW r \in RowsOf(e)
    PROVE  /\ EncodeCursor(e, r) # NoCursor
           /\ DecodedKey(EncodeCursor(e, r)) = Key(r)
           /\ EncodeCursor(e, r) \in Cursors
           /\ \A f \in Endpoints : TableOf(f) = TableOf(e) => EncodeCursor(f, r) = EncodeCursor(e, r)
<1>0. r \in Rows
  BY ServedFacts
<1>1. DOMAIN EncodeCursor(e, r) = DOMAIN Key(r) /\ DOMAIN Key(r) # {}
  BY <1>0, KeyFacts DEF EncodeCursor
<1>2. DOMAIN NoCursor = {}
  BY DEF NoCursor
<1>3. \A i \in DOMAIN Key(r) : EncodeCursor(e, r)[i].value = Key(r)[i]
  BY DEF EncodeCursor
<1>4. DecodedKey(EncodeCursor(e, r)) = [i \in DOMAIN Key(r) |-> Key(r)[i]]
  BY <1>1, <1>3 DEF DecodedKey
<1>5. Key(r) = [i \in DOMAIN Key(r) |-> Key(r)[i]]
  BY DEF Key
<1>6. \A f \in Endpoints : TableOf(f) = TableOf(e) => EncodeCursor(f, r) = EncodeCursor(e, r)
  BY FormFacts DEF EncodeCursor
<1>7. EncodeCursor(e, r) \in Cursors
  <2>1. PICK f \in Endpoints : TableOf(f) = TableOf(e) /\ r \in Selected[f]
    BY DEF RowsOf
  <2>. QED  BY <1>6, <2>1 DEF Cursors
<1>. QED  BY <1>1, <1>2, <1>4, <1>5, <1>6, <1>7

\* An endpoint takes a row's cursor if it reads the row's table, and only then.
LEMMA AcceptedInTable ==
    ASSUME NEW e \in Endpoints, NEW r \in RowsOf(e), NEW f \in Endpoints
    PROVE  CursorAccepted(f, EncodeCursor(e, r)) <=> TableOf(f) = TableOf(e)
<1>. DEFINE c == EncodeCursor(e, r)
<1>0. r \in Rows /\ Table[r] = TableOf(e)
  BY ServedFacts
<1>1. DOMAIN c = DOMAIN Key(r)
  BY DEF EncodeCursor
<1>2. \A i \in DOMAIN c : c[i].form = TextForm(e)[i]
  BY DEF EncodeCursor
<1>3. /\ DOMAIN c = (IF TableOf(e) = "window_aggregates" THEN {1} ELSE {1, 2})
      /\ Len(c) = IF TableOf(e) = "window_aggregates" THEN 1 ELSE 2
  BY <1>0, <1>1, KeyFacts
<1>. HIDE DEF c
<1>4. ASSUME TableOf(f) = TableOf(e) PROVE CursorAccepted(f, c)
  BY <1>2, <1>3, <1>4, FormFacts DEF CursorAccepted
<1>5. ASSUME TableOf(f) # TableOf(e) PROVE ~CursorAccepted(f, c)
  <2>1. CASE TableOf(f) = "window_aggregates" \/ TableOf(e) = "window_aggregates"
    BY <1>3, <1>5, <2>1, FormFacts DEF CursorAccepted
  <2>2. CASE TableOf(f) # "window_aggregates" /\ TableOf(e) # "window_aggregates"
    <3>1. TextForm(f)[2] # TextForm(e)[2] /\ 2 \in DOMAIN c
      BY <1>3, <1>5, <2>2, FormFacts DEF Tables
    <3>. QED  BY <1>2, <3>1 DEF CursorAccepted
  <2>. QED  BY <2>1, <2>2
<1>. QED  BY <1>4, <1>5 DEF c

-----------------------------------------------------------------------------
(* Pages *)

\* How a page cuts S: a page without next_cursor is all of S; with one, it ends
\* in its lowest row, and what is not on it is lower still.
LEMMA PageFacts ==
    ASSUME NEW e \in Endpoints, NEW S \in SUBSET Selected[e], IsFiniteSet(S)
    PROVE  /\ TopOf(S) \subseteq S
           /\ NextCursor(e, TopOf(S)) = NoCursor => TopOf(S) = S
           /\ NextCursor(e, TopOf(S)) # NoCursor =>
                 \E last \in TopOf(S) :
                    /\ NextCursor(e, TopOf(S)) = EncodeCursor(e, last)
                    /\ \A q \in TopOf(S) : ~Lower(q, last)
                    /\ \A q \in S \ TopOf(S) : Lower(q, last)
<1>. DEFINE R == {p \in S \X S : Lower(p[2], p[1])}
            top == {x \in S : Cardinality(Below(S, R, x)) < Limit}
<1>0. S \subseteq Rows /\ S \subseteq RowsOf(e) /\ \A r \in S : Table[r] = TableOf(e)
  BY ServedFacts
<1>1. \A x, y \in S : <<x, y>> \in R <=> Lower(y, x)
  OBVIOUS
<1>2. ASSUME NEW x \in S PROVE {q \in S : Precedes(Key(x), Key(q))} = Below(S, R, x)
  BY <1>0, <1>1, PrecedesIsLower DEF Below
<1>3. TopOf(S) = top
  BY <1>2 DEF TopOf
<1>. HIDE DEF R
<1>4. \A x \in S : <<x, x>> \notin R
  BY <1>0, <1>1, LowerIsStrict
<1>5. \A x, y, z \in S : <<x, y>> \in R /\ <<y, z>> \in R => <<x, z>> \in R
  BY <1>0, <1>1, LowerIsStrict
<1>6. \A x, y \in S : x = y \/ <<x, y>> \in R \/ <<y, x>> \in R
  BY <1>0, <1>1, LowerIsTotal
<1>7. Limit \in Nat \ {0}
  BY RowsAssumption
<1>8. /\ IsFiniteSet(top)
      /\ Cardinality(top) = Limit \/ (top = S /\ Cardinality(S) < Limit)
  BY <1>4, <1>5, <1>6, <1>7, FirstOnes
<1>9. \A x \in S : IsFiniteSet(Below(S, R, x)) /\ Cardinality(Below(S, R, x)) \in Nat
  BY FS_Subset, FS_CardinalityType DEF Below
<1>10. top \subseteq S
  OBVIOUS
<1>11. ASSUME NEW x \in top, NEW y \in S, <<y, x>> \in R PROVE y \in top
  <2>1. Below(S, R, y) \subseteq Below(S, R, x)
    BY <1>5, <1>11 DEF Below
  <2>2. Cardinality(Below(S, R, y)) <= Cardinality(Below(S, R, x))
    BY <1>9, <2>1, FS_Subset
  <2>. QED  BY <1>7, <1>9, <2>2
<1>. HIDE DEF top
<1>12. CASE Cardinality(top) # Limit
  BY <1>3, <1>8, <1>10, <1>12 DEF NextCursor
<1>13. CASE Cardinality(top) = Limit
  <2>1. top # {}
    BY <1>7, <1>13, FS_EmptySet
  <2>. DEFINE U == {p \in top \X top : Lower(p[1], p[2])}
  <2>2. \A x, y \in top : <<x, y>> \in U <=> Lower(x, y)
    OBVIOUS
  <2>. HIDE DEF U
  <2>3. \A x \in top : <<x, x>> \notin U
    BY <1>0, <1>10, <2>2, LowerIsStrict
  <2>4. \A x, y, z \in top : <<x, y>> \in U /\ <<y, z>> \in U => <<x, z>> \in U
    BY <1>0, <1>10, <2>2, LowerIsStrict
  <2>5. PICK low \in top : \A q \in top : <<q, low>> \notin U
    BY <1>8, <2>1, <2>3, <2>4, MinimalElement
  <2>6. \A q \in top : ~Precedes(Key(q), Key(low))
    BY <1>0, <1>10, <2>2, <2>5, PrecedesIsLower
  <2>. DEFINE last == LastOf(top)
  <2>7. last \in top /\ \A q \in top : ~Precedes(Key(q), Key(last))
    BY <2>6 DEF LastOf
  <2>8. NextCursor(e, top) = EncodeCursor(e, last)
    BY <1>13 DEF NextCursor
  <2>. HIDE DEF last
  <2>9. \A q \in top : ~Lower(q, last)
    BY <1>0, <1>10, <2>7, PrecedesIsLower
  <2>10. ASSUME NEW q \in S \ top PROVE Lower(q, last)
    <3>1. last \in S /\ q # last
      BY <1>10, <2>7
    <3>2. <<q, last>> \notin R
      BY <1>11, <2>7
    <3>. QED  BY <1>1, <1>6, <3>1, <3>2
  <2>11. NextCursor(e, top) # NoCursor
    BY <1>0, <1>10, <2>7, <2>8, CursorFacts
  <2>. QED  BY <1>3, <1>10, <2>7, <2>8, <2>9, <2>10, <2>11
<1>. QED  BY <1>12, <1>13

-----------------------------------------------------------------------------
(* The inductive invariant *)

\* Before a walk nothing is returned and no cursor is known; a walk that goes on
\* has the cursor of a row of its table, and no returned row is below it.
WalkWellFormed(e) ==
    /\ walk[e] = "none" => cursor[e] = NoCursor /\ returned[e] = {}
    /\ walk[e] = "ended" => cursor[e] = NoCursor
    /\ walk[e] = "walking" =>
          \E last \in RowsOf(e) :
             /\ cursor[e] = EncodeCursor(e, last)
             /\ \A r \in returned[e] : ~Lower(r, last)

IInv == TypeOK /\ WalkIsComplete /\ \A e \in Endpoints : WalkWellFormed(e)

\* What is below a row's cursor, in its table.
LEMMA BelowFacts ==
    ASSUME NEW e \in Endpoints, NEW last \in RowsOf(e), NEW r \in RowsOf(e)
    PROVE  BelowCursor(EncodeCursor(e, last), r) <=> Lower(r, last)
<1>1. /\ r \in Rows /\ last \in Rows /\ Table[r] = Table[last]
  BY ServedFacts
<1>2. EncodeCursor(e, last) # NoCursor /\ DecodedKey(EncodeCursor(e, last)) = Key(last)
  BY CursorFacts
<1>. QED  BY <1>1, <1>2, PrecedesIsLower DEF BelowCursor

\* What a page is taken from.
LEMMA CandidatesFacts ==
    ASSUME NEW f \in Endpoints, NEW c
    PROVE  /\ Candidates(f, c) \in SUBSET Selected[f]
           /\ IsFiniteSet(Candidates(f, c))
           /\ c = NoCursor => Candidates(f, c) = Visible(f)
<1>1. Candidates(f, c) \subseteq Selected[f]
  BY DEF Visible, Candidates
<1>2. Candidates(f, c) \subseteq Rows /\ IsFiniteSet(Rows)
  BY <1>1, RowsAssumption
<1>3. IsFiniteSet(Candidates(f, c))
  BY <1>2, FS_Subset
<1>. QED  BY <1>1, <1>3 DEF Candidates, BelowCursor

\* No walk has begun.
LEMMA InvInit == Init => IInv
<1>. SUFFICES ASSUME Init PROVE IInv
  OBVIOUS
<1>1. /\ table = {} /\ walk = [e \in Endpoints |-> "none"] /\ cursor = [e \in Endpoints |-> NoCursor]
      /\ returned = [e \in Endpoints |-> {}] /\ base = [e \in Endpoints |-> {}]
  BY DEF Init
<1>2. NoCursor \in Cursors
  BY DEF Cursors
<1>3. TypeOK
  BY <1>1, <1>2 DEF TypeOK
<1>. QED  BY <1>1, <1>3 DEF IInv, WalkIsComplete, WalkWellFormed

\* An insertion changes no walk.
LEMMA InsertStep ==
    ASSUME IInv, NEW r \in Rows, Insert(r)
    PROVE  IInv'
<1>1. TypeOK'
  BY DEF IInv, TypeOK, Insert
<1>2. WalkIsComplete'
  BY DEF IInv, WalkIsComplete, Insert
<1>3. \A e \in Endpoints : WalkWellFormed(e)'
  BY DEF IInv, WalkWellFormed, Insert
<1>. QED  BY <1>1, <1>2, <1>3 DEF IInv

\* Endpoint f answers a page of the walk begun at e: its first or a later one.
Page(e, f) ==
    /\ \/ walk[e] = "none" /\ f = e /\ base' = [base EXCEPT ![e] = Visible(e)]
       \/ /\ walk[e] = "walking" /\ CursorAccepted(f, cursor[e])
          /\ base' = [base EXCEPT ![e] = @ \cap Selected[f]]
    /\ Answer(e, f)

\* Nothing changes for the other walks.
LEMMA OtherWalks ==
    ASSUME IInv, NEW e \in Endpoints, NEW f \in Endpoints, Page(e, f),
           NEW g \in Endpoints, g # e
    PROVE  /\ WalkWellFormed(g)'
           /\ walk'[g] = "ended" => base'[g] \subseteq returned'[g]
           /\ walk'[g] = "walking" =>
                 \A r \in base'[g] \ returned'[g] : r \in table' /\ BelowCursor(cursor'[g], r)
<1>1. TypeOK
  BY DEF IInv
<1>2. /\ walk'[g] = walk[g] /\ cursor'[g] = cursor[g] /\ table' = table
      /\ returned'[g] = returned[g] /\ base'[g] = base[g]
  BY <1>1 DEF TypeOK, Page, Answer
<1>3. WalkWellFormed(g) /\ WalkIsComplete
  BY DEF IInv
<1>. QED  BY <1>2, <1>3 DEF WalkWellFormed, WalkIsComplete

\* The endpoint that answers reads the walk's table; nothing already returned is
\* below a candidate, and a candidate has not been returned; what the walk will
\* owe is returned or among the candidates.
LEMMA BeforePage ==
    ASSUME IInv, NEW e \in Endpoints, NEW f \in Endpoints, Page(e, f)
    PROVE  /\ TableOf(f) = TableOf(e)
           /\ \A r \in returned[e], q \in Candidates(f, cursor[e]) : r # q /\ ~Lower(r, q)
           /\ base'[e] \subseteq returned[e] \cup Candidates(f, cursor[e])
           /\ base' \in [Endpoints -> SUBSET Rows] /\ base'[e] \subseteq Selected[e]
<1>1. TypeOK /\ WalkWellFormed(e) /\ WalkIsComplete
  BY DEF IInv
<1>2. Selected[e] \subseteq Rows /\ base \in [Endpoints -> SUBSET Rows] /\ base[e] \subseteq Selected[e]
  BY <1>1, RowsAssumption DEF TypeOK
<1>3. CASE walk[e] = "none"
  <2>1. cursor[e] = NoCursor /\ returned[e] = {} /\ f = e
    BY <1>1, <1>3 DEF WalkWellFormed, Page
  <2>2. base' = [base EXCEPT ![e] = Visible(e)] /\ Visible(e) \subseteq Selected[e]
    BY <1>3 DEF Page, Visible
  <2>3. Candidates(f, cursor[e]) = Visible(e)
    BY <2>1, CandidatesFacts
  <2>. QED  BY <1>2, <2>1, <2>2, <2>3
<1>4. CASE walk[e] # "none"
  <2>1. /\ walk[e] = "walking" /\ CursorAccepted(f, cursor[e])
        /\ base' = [base EXCEPT ![e] = @ \cap Selected[f]]
    BY <1>4 DEF Page
  <2>2. PICK last \in RowsOf(e) :
           cursor[e] = EncodeCursor(e, last) /\ \A r \in returned[e] : ~Lower(r, last)
    BY <1>1, <2>1 DEF WalkWellFormed
  <2>3. TableOf(f) = TableOf(e)
    BY <2>1, <2>2, AcceptedInTable
  <2>4. Selected[f] \subseteq RowsOf(e) /\ Selected[e] \subseteq RowsOf(e)
    BY <2>3, ServedFacts
  <2>5. \A q \in Candidates(f, cursor[e]) : q \in RowsOf(e) /\ Lower(q, last)
    BY <2>2, <2>4, BelowFacts DEF Candidates, Visible
  <2>6. returned[e] \subseteq RowsOf(e)
    BY <1>1 DEF TypeOK
  <2>7. \A r \in RowsOf(e) : r \in Rows /\ Table[r] = TableOf(e)
    BY ServedFacts
  <2>8. \A r \in returned[e], q \in Candidates(f, cursor[e]) : r # q /\ ~Lower(r, q)
    BY <2>2, <2>5, <2>6, <2>7, LowerIsStrict
  <2>9. base'[e] = base[e] \cap Selected[f]
    BY <1>2, <2>1
  <2>10. base'[e] \subseteq returned[e] \cup Candidates(f, cursor[e])
    BY <1>1, <2>1, <2>9 DEF WalkIsComplete, Candidates, Visible
  <2>11. base' \in [Endpoints -> SUBSET Rows]
    BY <1>2, <2>1
  <2>. QED  BY <1>2, <2>3, <2>8, <2>9, <2>10, <2>11
<1>. QED  BY <1>3, <1>4

\* A page takes the top of what is left and moves the cursor below it.
LEMMA PageStep ==
    ASSUME IInv, NEW e \in Endpoints, NEW f \in Endpoints, Page(e, f)
    PROVE  IInv'
<1>. DEFINE C == Candidates(f, cursor[e])
            top == TopOf(C)
<1>0. TypeOK
  BY DEF IInv
<1>1. /\ TableOf(f) = TableOf(e)
      /\ \A r \in returned[e], q \in C : r # q /\ ~Lower(r, q)
      /\ base'[e] \subseteq returned[e] \cup C
      /\ base' \in [Endpoints -> SUBSET Rows] /\ base'[e] \subseteq Selected[e]
  BY BeforePage
<1>2. C \in SUBSET Selected[f] /\ IsFiniteSet(C)
  BY CandidatesFacts
<1>3. /\ top \subseteq C
      /\ NextCursor(f, top) = NoCursor => top = C
      /\ NextCursor(f, top) # NoCursor =>
            \E last \in top :
               /\ NextCursor(f, top) = EncodeCursor(f, last)
               /\ \A q \in top : ~Lower(q, last)
               /\ \A q \in C \ top : Lower(q, last)
  BY <1>2, PageFacts
<1>4. /\ returned' = [returned EXCEPT ![e] = @ \cup top]
      /\ cursor' = [cursor EXCEPT ![e] = NextCursor(f, top)]
      /\ walk' = [walk EXCEPT ![e] = IF NextCursor(f, top) = NoCursor THEN "ended" ELSE "walking"]
      /\ table' = table
  BY DEF Page, Answer
<1>5. C \subseteq table
  BY DEF Candidates, Visible
<1>6. C \subseteq RowsOf(e) /\ RowsOf(e) \subseteq Rows
  BY <1>1, <1>2, ServedFacts
<1>. HIDE DEF C, top
<1>7. \A last \in top : EncodeCursor(f, last) = EncodeCursor(e, last) /\ EncodeCursor(f, last) \in Cursors
  BY <1>1, <1>3, <1>6, CursorFacts
<1>8. NextCursor(f, top) \in Cursors
  BY <1>3, <1>7 DEF Cursors
<1>9. /\ returned'[e] = returned[e] \cup top /\ cursor'[e] = NextCursor(f, top)
      /\ walk'[e] = IF NextCursor(f, top) = NoCursor THEN "ended" ELSE "walking"
  BY <1>0, <1>4 DEF TypeOK
<1>10. TypeOK'
  <2>1. /\ table' \subseteq Rows /\ walk' \in [Endpoints -> {"none", "walking", "ended"}]
        /\ cursor' \in [Endpoints -> Cursors]
    BY <1>0, <1>4, <1>8 DEF TypeOK
  <2>2. returned' \in [Endpoints -> SUBSET Rows]
    BY <1>0, <1>3, <1>4, <1>6 DEF TypeOK
  <2>3. \A g \in Endpoints : returned'[g] \subseteq RowsOf(g)
    <3>. TAKE g \in Endpoints
    <3>1. CASE g = e
      BY <1>0, <1>3, <1>6, <1>9, <3>1 DEF TypeOK
    <3>2. CASE g # e
      BY <1>0, <1>4, <3>2 DEF TypeOK
    <3>. QED  BY <3>1, <3>2
  <2>4. \A g \in Endpoints : base'[g] \subseteq Selected[g]
    <3>. TAKE g \in Endpoints
    <3>1. CASE g = e
      BY <1>1, <3>1
    <3>2. CASE g # e
      BY <1>0, <3>2 DEF Page, TypeOK
    <3>. QED  BY <3>1, <3>2
  <2>. QED  BY <1>1, <2>1, <2>2, <2>3, <2>4 DEF TypeOK
<1>11. CASE NextCursor(f, top) = NoCursor
  <2>1. walk'[e] = "ended" /\ base'[e] \subseteq returned'[e] /\ cursor'[e] = NoCursor
    BY <1>1, <1>3, <1>9, <1>11
  <2>2. WalkWellFormed(e)'
    BY <2>1 DEF WalkWellFormed
  <2>3. WalkIsComplete'
    BY <2>1, OtherWalks DEF WalkIsComplete
  <2>. QED  BY <1>10, <2>2, <2>3, OtherWalks DEF IInv
<1>12. CASE NextCursor(f, top) # NoCursor
  <2>1. PICK last \in top :
               /\ NextCursor(f, top) = EncodeCursor(f, last)
               /\ \A q \in top : ~Lower(q, last)
               /\ \A q \in C \ top : Lower(q, last)
    BY <1>3, <1>12
  <2>2. last \in RowsOf(e) /\ last \in C
    BY <1>3, <1>6
  <2>3. \A r \in returned'[e] : ~Lower(r, last)
    BY <1>1, <1>9, <2>1, <2>2
  <2>4. walk'[e] = "walking" /\ cursor'[e] = EncodeCursor(e, last)
    BY <1>7, <1>9, <1>12, <2>1
  <2>5. WalkWellFormed(e)'
    BY <2>2, <2>3, <2>4 DEF WalkWellFormed, RowsOf
  <2>6. ASSUME NEW q \in base'[e] \ returned'[e] PROVE q \in table' /\ BelowCursor(cursor'[e], q)
    <3>1. q \in C \ top
      BY <1>1, <1>9, <2>6
    <3>2. q \in table' /\ q \in RowsOf(e) /\ Lower(q, last)
      BY <1>4, <1>5, <1>6, <2>1, <3>1
    <3>. QED  BY <2>2, <2>4, <3>2, BelowFacts
  <2>7. WalkIsComplete'
    BY <2>4, <2>6, OtherWalks DEF WalkIsComplete
  <2>. QED  BY <1>10, <2>5, <2>7, OtherWalks DEF IInv
<1>. QED  BY <1>11, <1>12

\* Every step keeps the invariant.
LEMMA InvStep == IInv /\ [Next]_vars => IInv'
<1>. SUFFICES ASSUME IInv, [Next]_vars PROVE IInv'
  OBVIOUS
<1>1. ASSUME NEW r \in Rows, Insert(r) PROVE IInv'
  BY <1>1, InsertStep
<1>2. ASSUME NEW e \in Endpoints, FirstPage(e) PROVE IInv'
  <2>1. Page(e, e)
    BY <1>2 DEF FirstPage, Page
  <2>. QED  BY <2>1, PageStep
<1>3. ASSUME NEW e \in Endpoints, NEW f \in Endpoints, NextPage(e, f) PROVE IInv'
  <2>1. Page(e, f)
    BY <1>3 DEF NextPage, Page
  <2>. QED  BY <2>1, PageStep
<1>4. CASE UNCHANGED vars
  <2>1. TypeOK'
    BY <1>4 DEF vars, IInv, TypeOK
  <2>2. WalkIsComplete'
    BY <1>4 DEF vars, IInv, WalkIsComplete
  <2>. QED  BY <1>4, <2>1, <2>2 DEF vars, IInv, WalkWellFormed
<1>. QED  BY <1>1, <1>2, <1>3, <1>4 DEF Next

-----------------------------------------------------------------------------
(* What follows *)

\* The inductive invariant holds in every reachable state.
THEOREM Invariance == Spec => []IInv
BY InvInit, InvStep, PTL DEF Spec

\* Type correctness: a next_cursor is always the cursor of a row, and a walk
\* returns rows of one table, whatever endpoints its cursors are sent to.
THEOREM TypeCorrect == Spec => []TypeOK
<1>1. IInv => TypeOK
  BY DEF IInv
<1>. QED  BY <1>1, Invariance, PTL

\* A walk skips none of the rows that were there when it began and that the
\* endpoints it asked select, whatever the sinks insert meanwhile.
THEOREM NothingSkipped == Spec => []WalkIsComplete
<1>1. IInv => WalkIsComplete
  BY DEF IInv
<1>. QED  BY <1>1, Invariance, PTL

\* No row comes twice in a walk, also when it changes its endpoint.
THEOREM NothingTwice == Spec => PagesDoNotOverlap
<1>1. IInv /\ [Next]_vars =>
        \A e, f \in Endpoints :
            NextPage(e, f) => returned[e] \cap TopOf(Candidates(f, cursor[e])) = {}
  <2>. SUFFICES ASSUME IInv, NEW e \in Endpoints, NEW f \in Endpoints, NextPage(e, f)
                PROVE  returned[e] \cap TopOf(Candidates(f, cursor[e])) = {}
    OBVIOUS
  <2>1. Page(e, f)
    BY DEF NextPage, Page
  <2>2. \A r \in returned[e], q \in Candidates(f, cursor[e]) : r # q
    BY <2>1, BeforePage
  <2>3. TopOf(Candidates(f, cursor[e])) \subseteq Candidates(f, cursor[e])
    BY DEF TopOf
  <2>. QED  BY <2>2, <2>3
<1>. QED  BY <1>1, Invariance, PTL DEF Spec, PagesDoNotOverlap

\* A walk is never stuck: the endpoint it began at takes its cursor back.
THEOREM WalkGoesOn ==
    Spec => [](\A e \in Endpoints : walk[e] = "walking" => CursorAccepted(e, cursor[e]))
<1>1. IInv => \A e \in Endpoints : walk[e] = "walking" => CursorAccepted(e, cursor[e])
  BY AcceptedInTable DEF IInv, WalkWellFormed
<1>. QED  BY <1>1, Invariance, PTL
=============================================================================
