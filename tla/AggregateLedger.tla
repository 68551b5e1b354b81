-------------------------- MODULE AggregateLedger --------------------------
(***************************************************************************)
(* What the job promises about a deduplicated event and the rows of        *)
(* transactions.window_aggregates: it ends in transactions.late, in the    *)
(* row of its own window, or is dropped.  Until a task fails it has one of *)
(* these fates and a row is written once; a restore may let an event have  *)
(* another fate and a window fire again, but takes no row away and mixes   *)
(* no windows.  Watermarks, channels and subtasks are not visible here.    *)
(***************************************************************************)

CONSTANTS EventIds,
          Windows,     \* <<user, start>>, the key of a row
          Home         \* Home[id]: the window of an event

VARIABLES aggregates,  \* aggregates[k]: events the row of k is computed from
          late,        \* ids in transactions.late
          dropped,     \* ids a window was closed to
          recovered    \* the job has been restored

vars == <<aggregates, late, dropped, recovered>>

Aggregated == UNION {aggregates[k] : k \in Windows}

Init ==
    /\ aggregates = [k \in Windows |-> {}]
    /\ late = {} /\ dropped = {}
    /\ recovered = FALSE

Undecided(id) == recovered \/ id \notin late \cup dropped \cup Aggregated

Divert(id) ==
    /\ Undecided(id)
    /\ late' = late \cup {id}
    /\ UNCHANGED <<aggregates, dropped, recovered>>

Drop(id) ==
    /\ Undecided(id)
    /\ dropped' = dropped \cup {id}
    /\ UNCHANGED <<aggregates, late, recovered>>

\* What a firing may make of a row.
Writable(k, ids) ==
    /\ ids # {} /\ \A id \in ids : Home[id] = k
    /\ recovered \/ (aggregates[k] = {} /\ ids \cap (late \cup dropped) = {})

\* Windows fire, some of them at once.
Fire ==
    /\ aggregates' \in [Windows -> SUBSET EventIds]
    /\ \A k \in Windows : aggregates'[k] = aggregates[k] \/ Writable(k, aggregates'[k])
    /\ UNCHANGED <<late, dropped, recovered>>

Recover ==
    /\ recovered' = TRUE
    /\ UNCHANGED <<aggregates, late, dropped>>

Next == (\E id \in EventIds : Divert(id) \/ Drop(id)) \/ Fire \/ Recover

Spec == Init /\ [][Next]_vars
=============================================================================
