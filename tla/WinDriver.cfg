SPECIFICATION DriverFairSpec
CONSTANTS
    Key = {1, 2, 3}
    ForkCode = {7, 8}
    RepeatLimit = {80}
    DefaultRepeat = 0
    Absent = absent
    MAX_FORKS = 2
    MaxRequests = 4
INVARIANTS
    DriverTypeOK
    AcknowledgedForksSurvive
    ReportsHaveReceiver
PROPERTIES
    RequestsComplete
