SPECIFICATION WinSpec
CONSTANTS
    f = f  g = g  m = m  n = n  none = none  c1 = c1
    Keys <- MCKeys
    NoKey = none
    VERIFICATION_INTERVAL = 2
    OVERLAP_TOLERANCE = 1
    Callers = {c1}
    Nobody = nobody
    SingleThread = TRUE
    OutOfBound = {}
    InitialConfig <- MCConfig
    Typed = {f, g}
    ForkTargets = {}
    RepeatLimits = {}
    Environment = {}
    MaxEvents = 3
    LastEventTime = 3
    MaxTime = 11
    MaxDisturbances = 0
    DueTimeWidth = 400
INVARIANTS
    TimerInTime
CHECK_DEADLOCK FALSE
