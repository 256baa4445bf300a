SPECIFICATION Spec
CONSTANTS
  Active = Active
  Standby = Standby
  NPo = 2
  Ops = {"link", "config", "attach", "leave"}
  MaxEvents = 4
INVARIANTS
  InterfacesKnown
  StatesKnown
  IsolationRight
  TrafficRestored
  IsolatedInSession
  SyncInv
