\* The three harnesses beside every pace of the pipeline.
CONSTANTS
    a = a  b = b  x = x  z = z
    EventIds = {a, b, x, z}
    DamageOf <- SomeDamage
    Backlog <- SomeBacklog
    StableRounds = 3
    MaxPolls = 5
    MaxRecords = 3
SPECIFICATION Spec
INVARIANTS
    TypeOK
    UnaccountedIsReal
    NothingListedMeansSettled
    DamageDecidesFate
PROPERTIES
    SteadyMeansQuiet
CHECK_DEADLOCK FALSE
