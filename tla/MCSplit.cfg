\* One partition into two subtasks, with an invalid record and one that no attempt
\* can store; progress of one submission, and of a supervised job.
CONSTANTS
    p1 = p1  p2 = p2  s1 = s1  s2 = s2  a = a  b = b  x = x  y = y
    Partitions = {p1}
    Subtasks = {s1, s2}
    EventIds = {a, b, x, y}
    Valid = {a, b, y}
    Unstorable = {y}
    PartitionOf <- SplitPartitionOf
    SubtaskOf <- SplitSubtaskOf
    RestartAttempts = 1
    MaxLen = 2
SPECIFICATION FairSpec
INVARIANTS
    CheckpointCovered
PROPERTIES
    LedgerSpec
    EventuallyAccounted
    SettlesUnderSupervision
