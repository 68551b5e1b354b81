\* The velocity rule on events that arrive out of order.
CONSTANTS
    Payloads <- SomePayloads
    VelocityWindow = 1
    VelocityThreshold = 2
    Percent = 60
    MinHistory = 2
    HistoryLimit = 3
    MaxEvents = 4
    MaxRestarts = 0
SPECIFICATION Spec
INVARIANT VelocityAlertIsABurst
CHECK_DEADLOCK FALSE
