SPECIFICATION Spec
CONSTANTS
  Active = Active
  Standby = Standby
  PeerLinks = {TRUE}
  Types = {"dynamic"}
  Ops = {"po", "polink", "leave"}
  MaxEvents = 8
INVARIANT PortUpAlone
