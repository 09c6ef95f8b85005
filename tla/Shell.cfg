CONSTANTS
  Accounts = {ana, bea}
  NoOne = none
  Holder = ana
  Ids = {1, 2, 3, 4, 5}
  Containers = {1}
  Held = {2}
  BatchSize = 1
  MaxEdits = 2
  MaxFaults = 1
  MaxSignOuts = 1
SPECIFICATION ShellSpec
CHECK_DEADLOCK FALSE
INVARIANTS ShellTypeOK IdleMeansSent NothingUnsentOutlivesSignOut
PROPERTIES OnlyABodyHoldsTheGuard OnlyRefusedHoldUp
