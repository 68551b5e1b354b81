\* A resubmission in the same consumer group.
CONSTANTS
    p1 = p1  p2 = p2  s1 = s1  s2 = s2  a = a  b = b  x = x  y = y
    Partitions = {p1}
    Subtasks = {s1}
    EventIds = {a}
    Valid = {a}
    Unstorable = {}
    PartitionOf <- JoinPartitionOf
    SubtaskOf <- JoinSubtaskOf
    RestartAttempts = 1
    MaxLen = 1
SPECIFICATION Spec
PROPERTIES
    ResumesFromGroupOffset
