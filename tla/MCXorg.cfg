SPECIFICATION XorgFairSpec
CONSTANTS
    f = f  g = g  m = m  n = n  none = none  c1 = c1  c2 = c2
    Keys <- MCKeys
    NoKey = none
    VERIFICATION_INTERVAL = 2
    OVERLAP_TOLERANCE = 1
    Callers = {c1}
    Nobody = nobody
    SingleThread = TRUE
    OutOfBound = {}
    InitialConfig <- MCConfig
    Typed = {f, g}
    ForkTargets = {}
    RepeatLimits = {}
    Environment = {"freeze", "confirm"}
    MaxEvents = 2
    LastEventTime = 2
    MaxTime = 4
    MaxDisturbances = 1
    PrevHasNotifyThaw = TRUE
    NextDelays = {2}
INVARIANTS
    WakesForTheMachine
PROPERTIES
    PromiseToDeliver
    NextGetsItsTime
