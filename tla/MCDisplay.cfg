\* A worker that falls behind by up to two ticks, and the thread that draws.
SPECIFICATION Spec
CONSTANTS
    StepLen = 2
    MaxTick = 5
    MaxGap = 7
    MaxClock = 10
INVARIANTS
    PointsOnce
    TimeKept
PROPERTY EventuallyDrawn
