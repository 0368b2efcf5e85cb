SPECIFICATION Spec
CONSTANTS
  r1 = r1
  r2 = r2
  r3 = r3
  w1 = w1
  w2 = w2
  w3 = w3
  Request <- MCRequest
  Writer <- MCWriter
  NoWriter = NoWriter
  NoRequest = NoRequest
  MaxChunks = 2
SYMMETRY Alike
INVARIANTS
  TypeOK
  WriterIsExclusive
  StreamIsWhole
PROPERTIES
  ImplementsStreams
