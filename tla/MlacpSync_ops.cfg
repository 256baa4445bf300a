SPECIFICATION Spec
CONSTANTS
  Active = Active
  Standby = Standby
  NPo = 1
  Ops = {"link", "config", "attach", "detach", "destroy", "leave"}
  MaxEvents = 4
INVARIANTS
  TypeOK
  StagesInStep
  PurgesCurrent
  StageInv
  PurgedOnce
