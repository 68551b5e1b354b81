\* Events late but within the allowance.
CONSTANTS
    p1 = p1  p2 = p2  s1 = s1  s2 = s2
    a = a  b = b  c = c  d = d  u = u  v = v
    Partitions = {p1, p2}
    Subtasks = {s1, s2}
    EventIds = {a, b, c, d}
    Topic <- MCTopic
    SubtaskOf <- MCSubtaskOf
    UserOf <- MCUserOf
    EventTime <- MCEventTime
    WindowSize = 2
    OutOfOrderness = 1
    AllowedLateness = 3
    MaxRestarts = 0
SPECIFICATION Spec
CHECK_DEADLOCK FALSE
INVARIANTS
    AllowedLateIsCounted
