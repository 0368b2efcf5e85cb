SPECIFICATION Spec
CONSTANTS
  r1 = r1
  r2 = r2
  r3 = r3
  Request <- ThreeRequests
  MaxConns = 2
INVARIANTS
  TypeOK
  NoRequestIsCut
  PoolOutlivesHandlers
  HoldersQuery
  NothingIsLost
PROPERTIES
  SignalEndsProcess
  ListenErrorEndsProcess
