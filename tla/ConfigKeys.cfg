SPECIFICATION Spec
CONSTANTS
    Keyboards = {k1}
    Keys = {a, b}
    PAUSE = pause
    DebugKeys = {l}
    NoKey = none
    MINIMUM_DURATION_MSEC = 1
    MaxTyped = 7
    MaxTime = 2
INVARIANTS
    TypeOK
    ConfigModeMeansPause
    ForksAsTyped
    OnlyPauseIsKept
CHECK_DEADLOCK FALSE
