SPECIFICATION FairSpec
CONSTANTS
  Active = Active
  Standby = Standby
  Mac = {m1}
  Families = {"arp", "nd"}
  Kinds = {"vlan", "l3"}
  Ops = {"learn", "refresh", "reply", "age", "polink", "leave"}
  MaxEvents = 3
PROPERTY Settles
