SPECIFICATION Spec
CONSTANTS
  d1 = d1
  f1 = f1
  Unset = Unset
  Flag = Flag
  Off = Off
  Devices = {d1}
  Swapfiles = {f1}
  MaxBytes = 2
INVARIANTS
  StagedIsConsistent
  DropInIsValid
  StageIsOverlay
