\* Two channels into one dedup subtask, duplicates and an invalid record, every fault.
CONSTANTS
    p1 = p1  p2 = p2  s1 = s1  s2 = s2  a = a  b = b  x = x  y = y
    Partitions = {p1, p2}
    Subtasks = {s1}
    EventIds = {a, b, x}
    Valid = {a, b}
    Unstorable = {}
    PartitionOf <- JoinPartitionOf
    SubtaskOf <- JoinSubtaskOf
    RestartAttempts = 1
    MaxLen = 2
SPECIFICATION Spec
INVARIANTS
    TypeOK
    CheckpointCovered
    RecordsConserved
    CheckpointConsistent
    NoRewriteAfterCheckpoint
