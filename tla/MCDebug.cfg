CONSTANTS
  NarrowBits = 4
  WideBits = 8
  Calls <- MCCalls
SPECIFICATION Spec
INVARIANTS
  TypeOK
  PrintsAsWritten
  ReadsInFormat
  StaysInBuffer
PROPERTY EveryCallEnds
