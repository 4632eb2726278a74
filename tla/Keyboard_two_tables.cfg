SPECIFICATION Spec
CONSTANTS
  A = A
  B = B
  edge = edge
  other = other
  ActionKey = {A, B}
  NoKey = NoKey
  DUMMY_KEY = DUMMY_KEY
  OSLevel = OSLevel
  App = {edge, other}
  NoActivatedApp = NoActivatedApp
  VK_DISABLED = VK_DISABLED
  Config <- MCTwoTables
  PhysicalKey <- MCPhysicalKey
INVARIANT OneRemapInvoked
CHECK_DEADLOCK FALSE
