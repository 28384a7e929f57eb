SPECIFICATION Spec
CONSTANTS
    f = f  g = g  x = x  m = m  n = n  none = none  c1 = c1  c2 = c2  oob = oob
    Keys <- MCKeys
    NoKey = none
    VERIFICATION_INTERVAL = 2
    OVERLAP_TOLERANCE = 1
    Callers = {c1, c2}
    Nobody = nobody
    SingleThread = TRUE
    OutOfBound = {}
    InitialConfig <- MCConfig
    Typed = {f, g}
    ForkTargets = {}
    RepeatLimits = {}
    Environment = {"freeze", "confirm", "mousekeys"}
    MaxEvents = 3
    LastEventTime = 3
    MaxTime = 4
    MaxDisturbances = 1
SYMMETRY MCSymmetry
INVARIANTS
    TypeOK
    SuspectHeadsMiddle
    Conserved
    AtRest
PROPERTIES
    DownstreamTimeMonotone
    FrozenGetsNothing
