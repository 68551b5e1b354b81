------------------------- MODULE MCValidationDedup -------------------------
(***************************************************************************)
(* Instances of ValidationDedup for TLC.  In the first layout two          *)
(* partitions feed one dedup subtask, so that a barrier has two channels   *)
(* to align; in the second one partition feeds two subtasks and holds a    *)
(* structurally invalid record between valid ones.                         *)
(***************************************************************************)
EXTENDS ValidationDedup

CONSTANTS p1, p2, s1, s2, a, b, x, y

JoinPartitionOf == [id \in EventIds |-> IF id = b THEN p2 ELSE p1]
JoinSubtaskOf   == [id \in EventIds |-> s1]

SplitPartitionOf == [id \in EventIds |-> p1]
SplitSubtaskOf   == [id \in EventIds |-> IF id = b THEN s2 ELSE s1]
=============================================================================
