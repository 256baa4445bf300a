SPECIFICATION Spec
CONSTANTS
  Active = Active
  Standby = Standby
  NPo = 1
  Ops = {"attach", "detach"}
  MaxEvents = 3
INVARIANT
  InterfacesKnown
