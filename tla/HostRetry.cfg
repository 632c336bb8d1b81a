SPECIFICATION Spec
CONSTANTS
  p1 = p1
  k1 = k1
  Absent = Absent
  Off = Off
  Unset = Unset
  Nowhere = Nowhere
  Asked <- SwapAndSysctl
  Paths = {p1}
  Contents = {k1}
  MaxSize = 2
  MaxOps = 1
  MaxFaults = 1
  SameSecond = FALSE
INVARIANTS
  RetryAccepted
