CONSTANTS
  d1 = d1
  d2 = d2
  t1 = t1
  t2 = t2
  Users = {u1, u2}
  NoUser = nobody
  Ids = {1, 2, 3}
  KindOf <- MCClassAndNotes
  Bodies <- MCBodies
  NoBody = {}
  Handlers = {h1, h2}
  Limits = {1}
  MaxSeq = 0
  Devices = {d1, d2}
  Tabs = {t1, t2}
  DeviceOf <- MCOneTabEach
  NoHandler = nohandler
  BatchSize = 1
  PageSize = 1
  MaxPages = 2
  CoarseClock = FALSE
  MaxEdits = 3
  MaxFaults = 0
SPECIFICATION Spec
SYMMETRY MCFullSymmetry
INVARIANTS TypeOK NoNoteEditLost CleanRowMatchesServer ConflictIsForeign SeqsDistinct AcceptedIsStored PageMissesOnlyConcurrentWrites LastPageIsLast
PROPERTIES WritesAdvance RowsHaveOneHistory
