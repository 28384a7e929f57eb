SPECIFICATION Spec
CONSTANTS
    f = f  g = g  x = x  m = m  n = n  none = none  c1 = c1  c2 = c2  oob = oob
    Keys <- MCKeys
    NoKey = none
    VERIFICATION_INTERVAL = 2
    OVERLAP_TOLERANCE = 1
    Callers = {c1}
    Nobody = nobody
    SingleThread = TRUE
    OutOfBound = {}
    InitialConfig <- MCConfig
    Typed = {f, g}
    ForkTargets = {f, n}
    RepeatLimits = {2}
    Environment = {"configure", "repeat"}
    MaxEvents = 4
    LastEventTime = 3
    MaxTime = 4
    MaxDisturbances = 2
INVARIANTS
    SameCodeWhileHeld
    ForkActiveIsTrue
