\* Four axes, each of which may be rotary, at two rates.
SPECIFICATION Spec
CONSTANTS
    Travel <- MCTravel
    UserOrigin <- MCUserOrigin
    Unit = 2
    Rates = {0, 1, 2}
    MaxInt32 = 1
    MaxDwell = 2
    QueueCap = 3
    NoAxis = NoAxis
    Command <- MCCommand
    Jogs <- MCJogs
    MaxCommands = 3
    MaxEvents = 2
    MaxDt = 3
    MaxJog = 6
INVARIANTS
    ExactForAnyDt
    InBounds
    EndsWhereAsked
CHECK_DEADLOCK FALSE
