CONSTANTS
  d1 = d1
  d2 = d2
  t1 = t1
  t2 = t2
  Users = {u1}
  NoUser = nobody
  Ids = {1, 2, 3, 4}
  KindOf <- MCNotes
  Bodies <- MCBodies
  NoBody = {}
  Handlers = {h1, h2}
  Limits = {2}
  MaxSeq = 0
  Devices = {d1, d2}
  Tabs = {t1, t2}
  DeviceOf <- MCOneTabEach
  NoHandler = nohandler
  BatchSize = 1
  PageSize = 2
  MaxPages = 1
  CoarseClock = FALSE
  MaxEdits = 2
  MaxFaults = 1
SPECIFICATION FairSpec
INVARIANTS NoNoteEditLost CleanRowMatchesServer CursorCovers
PROPERTIES Convergence NothingAcceptedIsUndone
