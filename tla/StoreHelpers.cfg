SPECIFICATION Spec
CONSTANTS
  s1 = s1
  v2 = v2
  v1 = v1
  p1 = p1
  p2 = p2
  l1 = l1
  Unset = Unset
  NoRun = NoRun
  Slots = {s1}
  Values = {v1, v2}
  Pkexec = {p1, p2}
  Launched = {l1}
  Calls = {}
  MaxSnapshots = 6
  MaxKeep = 1
  MaxRestarts = 1
SYMMETRY Symmetry
INVARIANTS
  OneHelperAtWork
  RollbackTargetKept
  SuccessfulRestoreIsWhole
PROPERTIES
  NoStagedChangeDropped
