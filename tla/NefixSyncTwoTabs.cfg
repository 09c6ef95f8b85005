CONSTANTS
  d1 = d1
  d2 = d2
  t1 = t1
  t2 = t2
  Users = {u1}
  NoUser = nobody
  Ids = {1, 2, 3}
  KindOf <- MCNotes
  Bodies <- MCBodies
  NoBody = {}
  Handlers = {h1, h2}
  Limits = {1}
  MaxSeq = 0
  Devices = {d1}
  Tabs = {t1, t2}
  DeviceOf <- MCSameDevice
  NoHandler = nohandler
  BatchSize = 1
  PageSize = 1
  MaxPages = 2
  CoarseClock = FALSE
  MaxEdits = 2
  MaxFaults = 0
SPECIFICATION Spec
SYMMETRY MCSymmetry
INVARIANTS ConflictIsForeign
