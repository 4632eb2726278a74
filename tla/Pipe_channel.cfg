SPECIFICATION MCFairSpec
CONSTANTS
  Runner = Runner
  Settings = Settings
  Blank = Blank
  NoMessage = NoMessage
  Message = {Blank, a}
  ToRunner = {a}
  ToSettings = {}
  Ending = {Runner}
  Exiting = {Settings}
  Faults = TRUE
INVARIANT TypeOK
PROPERTIES ImplementsChannel ReceivedGetsDispatched EndPassesQueues
CHECK_DEADLOCK FALSE
