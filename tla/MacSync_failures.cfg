SPECIFICATION Spec
CONSTANTS
  Active = Active
  Standby = Standby
  PeerLinks = {TRUE, FALSE}
  Types = {"dynamic"}
  Ops = {"po", "eth", "age", "polink", "ethlink", "peerlink", "leave", "crash", "warm"}
  MaxEvents = 4
INVARIANTS
  TypeOK
  NotBothAged
  PortUp
  Installed
  MacInv
