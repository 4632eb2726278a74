SPECIFICATION Spec
CONSTANTS
  Module = {a, b}
  Shortcut = {s}
  NoShortcut = NoShortcut
  Hotkey = {h}
  Key = {lwin, x}
  WinKey = {lwin}
  VK_DISABLED = VK_DISABLED
  Trackers = {a}
  DefaultOn = {a}
  GpoOn = {b}
  GpoOff = {}
  Gpo <- MCGpo
  SettingsThread = {t1, t2}
  MaxDescriptors = 2
  MaxHotkeys = 1
INVARIANTS TypeOK RegistryFollowsModules NothingLeaked HookFollowsConfig RunsAsSaved
PROPERTY LongPressMeansHeld SharedShortcutKept
CONSTRAINT SettingsAlone
CHECK_DEADLOCK FALSE
