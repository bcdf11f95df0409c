CONSTANTS
  Table <- McTables
  Keep = 2
  MaxNow = 3
  MaxNo = 2
  MaxCrash = 1
  MaxLoss = 1
  MaxRestore = 1
  DiskFull = FALSE
SPECIFICATION Spec
INVARIANTS BackupsKept NumbersFresh
CHECK_DEADLOCK FALSE
