\* Refutes NackMeansNoAction.
SPECIFICATION HostSpec
CONSTANTS
    OutCap = 8
    FileParserCap = 3
    DiskMayFail = FALSE
    QueueCap = 2
    MaxPos = 3
    MaxDwell = 1
    MaxTicks = 2
    UserOrigin = 1
    Request <- TransferClaimRequests
    LeftFiles <- JobFiles
    MaxRequests = 4
    MaxSends = 5
    AnonymousOps = {}
PROPERTY NackMeansNoAction
