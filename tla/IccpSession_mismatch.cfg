SPECIFICATION Spec
CONSTANTS
  Low = Low
  High = High
  Conn = {c1, c2}
  NoConn = NoConn
  RgId <- OtherRg
  SockBuf = 2
  MaxFaults = 3
SYMMETRY ConnSymmetry
INVARIANTS
  RgAgreement
  SessionInv
