SPECIFICATION Spec
CONSTANTS
  p1 = p1
  k1 = k1
  Absent = Absent
  Off = Off
  Unset = Unset
  Nowhere = Nowhere
  Asked <- EveryPart
  Paths = {p1}
  Contents = {k1}
  MaxSize = 2
  MaxOps = 2
  MaxFaults = 2
  SameSecond = TRUE
INVARIANTS
  TypeOK
PROPERTIES
  ListedFilesExist
  ActiveUntouched
  RestoreIsExact
  NoFileLost
  UserFilesKept
  RestoreRunsThrough
