SPECIFICATION Spec
CONSTANTS
  Low = Low
  High = High
  Conn = {c1, c2, c3}
  NoConn = NoConn
  RgId <- SameRg
  SockBuf = 2
  MaxFaults = 3
SYMMETRY ConnSymmetry
INVARIANTS
  TypeOK
  NoOrphanState
  NoStaleCapability
  OperationalTogether
  SameConnection
  SessionInv
  AgreementInv
PROPERTY ImplementsSession
