\* Messages built, queued, decoded, read and answered, with the real layout.
SPECIFICATION Spec
CONSTANTS
    Magic <- MCMagic
    SizeTxid = 2
    SizeCmd = 2
    SizeLen = 2
    SizeCrc = 2
    MaxArgs = 8
    LenOf <- Unsigned
    Crc <- crc16
    Capacity = 20
    NackCmd = 2989
    CmdCapacity = 8
    QueueCapacity = 2
    IndexMod = 4
    Vacant <- Empty
    Commands = {24577}
    TxIds = {258}
    ArgSizes = {0, 2}
    Values <- MCValues
    Chunks <- MCChunks
INVARIANTS
    CompleteIsSound
    ReadsWhatWasWritten
    ChecksumIsRemainder
PROPERTY ImplementsQueue
