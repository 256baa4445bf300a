SPECIFICATION Spec
CONSTANTS
  Low = Low
  High = High
  Conn = {c1}
  NoConn = NoConn
  RgId <- SameRg
  SockBuf = 2
  MaxFaults = 0
INVARIANT RoleByAddress
