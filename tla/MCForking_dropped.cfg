SPECIFICATION Spec
CONSTANTS
    f = f  g = g  x = x  m = m  n = n  none = none  c1 = c1  c2 = c2  oob = oob
    Keys <- MCKeys
    NoKey = none
    VERIFICATION_INTERVAL = 3
    OVERLAP_TOLERANCE = 1
    Callers = {c1}
    Nobody = nobody
    SingleThread = TRUE
    OutOfBound = {}
    InitialConfig <- MCConfig
    Typed = {f, g}
    ForkTargets = {}
    RepeatLimits = {}
    Environment = {}
    MaxEvents = 4
    LastEventTime = 4
    MaxTime = 5
    MaxDisturbances = 1
PROPERTIES
    OnlyRepeatsDropped
