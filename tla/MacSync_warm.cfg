SPECIFICATION FairSpec
CONSTANTS
  Active = Active
  Standby = Standby
  PeerLinks = {TRUE}
  Types = {"dynamic"}
  Ops = {"po","warm"}
  MaxEvents = 2
PROPERTY WarmRebootEnds
