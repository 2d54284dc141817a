\* A job, and the same operator, under the fairness of the worker thread.
SPECIFICATION FairHostSpec
CONSTANTS
    OutCap = 8
    FileParserCap = 3
    DiskMayFail = FALSE
    QueueCap = 2
    MaxPos = 2
    MaxDwell = 2
    MaxTicks = 2
    UserOrigin = 1
    Request <- JobRequests
    LeftFiles <- JobFiles
    MaxRequests = 3
    MaxSends = 3
    AnonymousOps = {}
PROPERTIES
    CallsReturn
    JobTerminates
    PauseIsReported
