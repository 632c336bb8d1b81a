SPECIFICATION Spec
CONSTANTS
  a1 = a1
  a2 = a2
  Nobody = Nobody
  Clients = {a1, a2}
  MaxRestarts = 0
INVARIANTS
  PkexecBlamesOwnRun
