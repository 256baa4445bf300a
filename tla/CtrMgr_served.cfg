SPECIFICATION FairSpec
CONSTANTS
  Version <- OnePod
  Fallbacks = {TRUE, FALSE}
  Ops = {"owner", "stop", "kill", "crash", "mgr"}
  MaxEvents = 3
CHECK_DEADLOCK FALSE
INVARIANTS TypeOK CtrInv
PROPERTY Served
