SPECIFICATION FairSpec
CONSTANTS
  Version <- TwoPods
  Fallbacks = {TRUE}
  Ops = {"owner", "stop", "kill", "crash", "mgr"}
  MaxEvents = 1
CHECK_DEADLOCK FALSE
INVARIANT TypeOK
PROPERTY Served
