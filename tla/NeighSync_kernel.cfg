SPECIFICATION Spec
CONSTANTS
  Active = Active
  Standby = Standby
  Mac = {m1, m2}
  Families = {"arp", "nd"}
  Kinds = {"vlan", "l3"}
  Ops = {"learn", "refresh", "reply", "age", "polink", "leave"}
  MaxEvents = 3
SYMMETRY MacSymmetry
INVARIANTS
  TypeOK
  KernelFollowed
  PeerKnows
  NeighInv
