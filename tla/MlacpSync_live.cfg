SPECIFICATION FairSpec
CONSTANTS
  Active = Active
  Standby = Standby
  NPo = 1
  Ops = {"link", "attach", "leave"}
  MaxEvents = 4
PROPERTY
  Converges
