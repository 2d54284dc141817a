SPECIFICATION FairSpec
CONSTANTS
  Byte <- MCByte
  Garbage = Garbage
  Capacity = 8
  Magic <- MCMagic
  SizeTxid = 1
  SizeCmd = 1
  SizeLen = 1
  SizeCrc = 1
  MaxArgs = 2
  LenOf <- MCLenOf
  Crc <- MCCrc
  Piece <- MCPiece
  MaxPiece = 8
  MaxItems = 3
INVARIANTS ParserInv NeverWedged DrainedIsComplete
PROPERTIES ImplementsFrameStream ParseNextReturns
