\* Retries, rejections and file transfer, with a disk that may fail.
SPECIFICATION HostSpec
CONSTANTS
    OutCap = 8
    FileParserCap = 2
    DiskMayFail = TRUE
    QueueCap = 1
    MaxPos = 1
    MaxDwell = 1
    MaxTicks = 1
    UserOrigin = 1
    Request <- TransferRequests
    LeftFiles <- TransferFiles
    MaxRequests = 4
    MaxSends = 5
    AnonymousOps = {"move_rel"}
INVARIANTS
    AtMostOnce
    TransferExact
PROPERTIES
    AnswersTheRequest
    NackHarmless
    ImplementsService
