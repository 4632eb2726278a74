SPECIFICATION Spec
CONSTANTS
  A = A
  B = B
  edge = edge
  other = other
  ActionKey = {A, B}
  NoKey = NoKey
  DUMMY_KEY = DUMMY_KEY
  OSLevel = OSLevel
  App = {edge, other}
  NoActivatedApp = NoActivatedApp
  VK_DISABLED = VK_DISABLED
  Config <- MCConfig
  PhysicalKey <- MCPhysicalKey
INVARIANTS TypeOK OnlyActionKeyStuck NoRemapLeft OneRemapAtATime EventsFit EveryKeyExplained
CHECK_DEADLOCK FALSE
PROPERTIES MenuOnlyWhenTapped Settles
