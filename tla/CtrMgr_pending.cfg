SPECIFICATION FairSpec
CONSTANTS
  Version <- OnePod
  Fallbacks = {TRUE}
  Ops = {"stop"}
  MaxEvents = 1
CHECK_DEADLOCK FALSE
PROPERTY PendingServed
