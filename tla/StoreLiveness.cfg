SPECIFICATION FairSpec
CONSTANTS
  s1 = s1
  v1 = v1
  p1 = p1
  l1 = l1
  c1 = c1
  Unset = Unset
  NoRun = NoRun
  Slots = {s1}
  Values = {v1}
  Pkexec = {p1}
  Launched = {l1}
  Calls = {c1}
  MaxSnapshots = 6
  MaxKeep = 1
  MaxRestarts = 0
PROPERTIES
  EveryRunEnds
