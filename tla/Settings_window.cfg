SPECIFICATION Spec
CONSTANTS
  Launch = {l1, l2}
  Main = Main
  Clicker = {c}
  None = None
  Setting = {on}
  MaxQueue = 1
INVARIANTS TypeOK AnswersLiveIpc Reopenable
CHECK_DEADLOCK FALSE
