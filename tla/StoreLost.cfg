SPECIFICATION Spec
CONSTANTS
  s1 = s1
  s2 = s2
  v1 = v1
  p1 = p1
  c1 = c1
  Unset = Unset
  NoRun = NoRun
  Slots = {s1, s2}
  Values = {v1}
  Pkexec = {p1}
  Launched = {}
  Calls = {c1}
  MaxSnapshots = 3
  MaxKeep = 1
  MaxRestarts = 0
PROPERTIES
  NoStagedChangeDropped
