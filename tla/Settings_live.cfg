SPECIFICATION FairSpec
CONSTANTS
  Launch = {l1, l2}
  Main = Main
  Clicker = {}
  None = None
  Setting = {on}
  MaxQueue = 1
PROPERTIES MainReturns ClosedWindowIsForgotten
CHECK_DEADLOCK FALSE
