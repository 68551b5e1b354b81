\* Counters, topic and deadline, through errors and kills. A run of the generator ends.
CONSTANTS
    w1 = w1  w2 = w2
    Workers = {w1, w2}
    MaxSent = 2
    Delays = {0, 2}
    MaxEvents = 3
    MaxRecords = 3
SPECIFICATION FairSpec
CHECK_DEADLOCK FALSE
INVARIANTS
    TypeOK
    CleanReportReconciles
    CounterTracksTopic
PROPERTIES
    DeadlineEnds
