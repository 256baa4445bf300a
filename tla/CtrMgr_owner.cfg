SPECIFICATION FairSpec
CONSTANTS
  Version <- OnePod
  Fallbacks = {TRUE}
  Ops = {"owner", "crash"}
  MaxEvents = 2
CHECK_DEADLOCK FALSE
PROPERTY LocalServed
