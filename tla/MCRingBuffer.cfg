SPECIFICATION MCSpec
CONSTANTS
  Byte = {b0, b1}
  Garbage = Garbage
  Capacity = 4
  MaxIndex = 9
  MaxChunk = 3
PROPERTY ImplementsFifo
