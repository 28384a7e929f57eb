SPECIFICATION WinFairSpec
CONSTANTS
    f = f  g = g  m = m  n = n  none = none  c1 = c1
    Keys <- MCKeys
    NoKey = none
    VERIFICATION_INTERVAL = 2
    OVERLAP_TOLERANCE = 1
    Callers = {c1}
    Nobody = nobody
    SingleThread = TRUE
    OutOfBound = {}
    InitialConfig <- MCConfig
    Typed = {f, g}
    ForkTargets = {}
    RepeatLimits = {}
    Environment = {"repeat"}
    MaxEvents = 4
    LastEventTime = 4
    MaxTime = 13
    MaxDisturbances = 0
    DueTimeWidth = 9
INVARIANTS
    TimerRunsForSuspect
PROPERTIES
    PromiseToDeliver
CHECK_DEADLOCK FALSE
