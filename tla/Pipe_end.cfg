SPECIFICATION MCFairSpec
CONSTANTS
  Runner = Runner
  Settings = Settings
  Blank = Blank
  NoMessage = NoMessage
  Message = {Blank, a}
  ToRunner = {a}
  ToSettings = {}
  Ending = {Runner}
  Exiting = {Settings}
  Faults = FALSE
PROPERTY EndReturns
CHECK_DEADLOCK FALSE
