SPECIFICATION FairSpec
CONSTANTS
  Proc = {m, q, u}
  NoProc = NoProc
  Abandoned = Abandoned
  Periodic = {}
  Manual = {m}
  Cleaner = {}
  Query = {q}
  Updaters = {u}
  MaxVersion = 2
  MaxDownloadAttempts = 2
PROPERTY ManualCheckEnds
CHECK_DEADLOCK FALSE
