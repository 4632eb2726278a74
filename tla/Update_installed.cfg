SPECIFICATION FairSpec
CONSTANTS
  Proc = {w, c, u}
  NoProc = NoProc
  Abandoned = Abandoned
  Periodic = {w}
  Manual = {}
  Cleaner = {c}
  Query = {}
  Updaters = {u}
  MaxVersion = 2
  MaxDownloadAttempts = 2
INVARIANT CleanupRemovesOnlyOld
PROPERTY UpdateGetsInstalled
CHECK_DEADLOCK FALSE
