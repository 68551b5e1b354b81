\* Windows with and without a recovery. The topic is finite: the job ends idle.
CONSTANTS
    p1 = p1  p2 = p2  s1 = s1  s2 = s2
    a = a  b = b  c = c  d = d  u = u  v = v
    Partitions = {p1, p2}
    Subtasks = {s1, s2}
    EventIds = {a, b, c, d}
    Topic <- MCTopic
    SubtaskOf <- MCSubtaskOf
    UserOf <- MCUserOf
    EventTime <- MCEventTime
    WindowSize = 2
    OutOfOrderness = 1
    AllowedLateness = 3
    MaxRestarts = 1
SPECIFICATION FairSpec
CHECK_DEADLOCK FALSE
INVARIANTS
    TypeOK
    EventsConserved
    FatesExclusive
    NoDoubleCount
PROPERTIES
    DropsAreJustified
    AggregateSpec
    QuietSubtaskDoesNotBlock
