SPECIFICATION FairSpec
CONSTANTS
  Low = Low
  High = High
  Conn = {c1, c2, c3}
  NoConn = NoConn
  RgId <- SameRg
  SockBuf = 2
  MaxFaults = 2
INVARIANTS
  TypeOK
  NoOrphanState
  NoStaleCapability
  OperationalTogether
  SameConnection
  SessionInv
  AgreementInv
PROPERTIES
  ImplementsSession
  SessionRecovers
