CONSTANTS
  d1 = d1
  t1 = t1
  Users = {u1}
  NoUser = nobody
  Ids = {1, 2, 3, 4}
  KindOf <- MCNotes
  Bodies <- MCBodies
  NoBody = {}
  Handlers = {h1}
  Limits = {1}
  MaxSeq = 0
  Devices = {d1}
  Tabs = {t1}
  DeviceOf <- MCDevice
  NoHandler = nohandler
  BatchSize = 1
  PageSize = 1
  MaxPages = 2
  CoarseClock = FALSE
  MaxEdits = 5
  MaxFaults = 1
  Seeds = {1, 2}
SPECIFICATION SessionSpec
INVARIANTS EditorTypeOK TypingReachesServer NotesKeepTheirText DirtyIsOurs
