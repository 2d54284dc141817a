\* A job and an operator who pauses, jogs, stops and restarts it.
SPECIFICATION HostSpec
CONSTANTS
    OutCap = 1
    FileParserCap = 3
    DiskMayFail = FALSE
    QueueCap = 2
    MaxPos = 2
    MaxDwell = 2
    MaxTicks = 2
    UserOrigin = 1
    Request <- JobRequests
    LeftFiles <- JobFiles
    MaxRequests = 4
    MaxSends = 4
    AnonymousOps = {}
INVARIANTS
    TypeOK
    PausedLaserOff
    FaultSafe
    JogStaysOff
    FaultDark
PROPERTIES
    JobInOrder
    CompletionJustified
    PauseTransparent
    PauseHolds
    TransferEndsAnnounced
