---------------------------- MODULE EventLedger ----------------------------
(***************************************************************************)
(* What the pipeline promises about one event_id, whatever the job, Kafka  *)
(* and Postgres go through: every record the producer put in               *)
(* transactions.raw is settled, a structurally valid one as a row of       *)
(* transactions.events and any other as a record of                        *)
(* transactions.deadletter, and nothing else ever appears in either.       *)
(* Crashes, replays and duplicates are not visible at this level.          *)
(***************************************************************************)

CONSTANTS EventIds,     \* event_id values the producer draws from
          Valid         \* those whose payload passes structural validation

VARIABLES produced,     \* ids with at least one record in transactions.raw
          events,       \* primary keys present in transactions.events
          deadletters   \* ids present in transactions.deadletter

vars == <<produced, events, deadletters>>

Init ==
    /\ produced = {}
    /\ events = {}
    /\ deadletters = {}

Publish(id) ==
    /\ produced' = produced \cup {id}
    /\ UNCHANGED <<events, deadletters>>

Land(id) ==
    /\ id \in produced \cap Valid
    /\ events' = events \cup {id}
    /\ UNCHANGED <<produced, deadletters>>

DeadLetter(id) ==
    /\ id \in produced \ Valid
    /\ deadletters' = deadletters \cup {id}
    /\ UNCHANGED <<produced, events>>

Settle(id) == Land(id) \/ DeadLetter(id)

Next == \E id \in EventIds : Publish(id) \/ Settle(id)

Spec == Init /\ [][Next]_vars

\* A supervised pipeline also settles everything it was given.
Liveness == \A id \in EventIds : WF_vars(Settle(id))
=============================================================================
