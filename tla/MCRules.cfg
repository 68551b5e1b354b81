\* Both rules and their rows under disorder, copies, recoveries and submissions.
CONSTANTS
    Payloads <- SomePayloads
    VelocityWindow = 1
    VelocityThreshold = 2
    Percent = 60
    MinHistory = 2
    HistoryLimit = 2
    MaxEvents = 4
    MaxRestarts = 2
SPECIFICATION Spec
INVARIANTS
    TypeOK
    VelocityStateIsExact
    AlertsHaveRows
PROPERTIES
    BurstsFoundInOrder
    AmountAlertsAreExtreme
    RowsFinalAfterCheckpoint
CHECK_DEADLOCK FALSE
