SPECIFICATION Spec
CONSTANTS
  Active = Active
  Standby = Standby
  PeerLinks = {TRUE}
  Types = {"dynamic"}
  Ops = {"po","age","leave"}
  MaxEvents = 4
INVARIANT NoFreed
