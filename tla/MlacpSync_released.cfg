SPECIFICATION Spec
CONSTANTS
  Active = Active
  Standby = Standby
  NPo = 1
  Ops = {"attach", "detach", "link"}
  MaxEvents = 3
INVARIANT
  TrafficReleased
