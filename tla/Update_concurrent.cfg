SPECIFICATION Spec
CONSTANTS
  Proc = {w, m, u}
  NoProc = NoProc
  Abandoned = Abandoned
  Periodic = {w}
  Manual = {m}
  Cleaner = {}
  Query = {}
  Updaters = {u}
  MaxVersion = 2
  MaxDownloadAttempts = 1
INVARIANTS TypeOK WritersHoldMutex RecordedStateIsSound HandedInstallerIsNewer
PROPERTY ResetsOnlyWhatIsLost
CHECK_DEADLOCK FALSE
