SPECIFICATION Spec
CONSTANTS
  Active = Active
  Standby = Standby
  PeerLinks = {TRUE}
  Types = {"dynamic", "static"}
  Ops = {"po", "eth", "age", "ethlink", "peerlink", "leave", "crash"}
  MaxEvents = 4
INVARIANTS
  PeerHasIt
  LinkRemote
  AgreeInv
