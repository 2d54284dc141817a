\* Two connections that break, a serial line that drops, and an operator.
SPECIFICATION Spec
CONSTANTS
    Conn = {c1, c2, line}
    Line = line
    None = None
    OutCap = 8
    Effectless <- MCEffectless
    RequestOf <- MCRequestOf
    MaxRequests = 2
    MaxEvents = 3
    MaxInFlight = 3
    MaxUnread = 0
    Kinds = {"Tcp", "Serial", "None"}
INVARIANTS
    OneHost
    AnswersGoHome
    OnceAcrossConnections
PROPERTY EventuallyAnswered
CHECK_DEADLOCK FALSE
