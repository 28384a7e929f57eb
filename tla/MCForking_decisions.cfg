SPECIFICATION Spec
CONSTANTS
    f = f  g = g  x = x  m = m  n = n  none = none  c1 = c1  c2 = c2  oob = oob
    Keys <- MCKeys
    NoKey = none
    VERIFICATION_INTERVAL = 3
    OVERLAP_TOLERANCE = 2
    Callers = {c1}
    Nobody = nobody
    SingleThread = TRUE
    OutOfBound = {oob}
    InitialConfig <- MCConfig
    Typed = {f, g, oob}
    ForkTargets = {}
    RepeatLimits = {}
    Environment = {"freeze"}
    MaxEvents = 4
    LastEventTime = 4
    MaxTime = 5
    MaxDisturbances = 1
INVARIANTS
    DecidedByTheEvents
