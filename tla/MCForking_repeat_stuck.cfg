SPECIFICATION FairSpec
CONSTANTS
    f = f  g = g  x = x  m = m  n = n  none = none  c1 = c1  c2 = c2  oob = oob
    Keys <- MCKeys
    NoKey = none
    VERIFICATION_INTERVAL = 2
    OVERLAP_TOLERANCE = 1
    Callers = {c1}
    Nobody = nobody
    SingleThread = TRUE
    OutOfBound = {}
    InitialConfig <- MCConfig
    Typed = {f}
    ForkTargets = {}
    RepeatLimits = {}
    Environment = {"repeat"}
    MaxEvents = 2
    LastEventTime = 2
    MaxTime = 4
    MaxDisturbances = 1
PROPERTIES
    PromiseToDeliver
