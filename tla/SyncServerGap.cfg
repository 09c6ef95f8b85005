CONSTANTS
  Users = {u1}
  NoUser = nobody
  Ids = {1, 2, 3}
  KindOf <- MCTwoTables
  Bodies = {a}
  NoBody = none
  Handlers = {h1, h2}
  Limits = {1, 2}
  MaxSeq = 3
SPECIFICATION ServerSpec
INVARIANTS PageComplete
