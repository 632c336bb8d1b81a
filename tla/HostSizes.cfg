SPECIFICATION Spec
CONSTANTS
  p1 = p1
  k1 = k1
  Absent = Absent
  Off = Off
  Unset = Unset
  Nowhere = Nowhere
  Asked <- SwapOnly
  Paths = {p1}
  Contents = {k1}
  MaxSize = 2
  MaxOps = 2
  MaxFaults = 0
  SameSecond = FALSE
PROPERTIES
  SizesComeBack
