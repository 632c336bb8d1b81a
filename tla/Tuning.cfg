SPECIFICATION Spec
CONSTANTS
  Unset = Unset
  AllowedPaths <- MCAllowed
  OtherPaths <- MCOther
  Starts <- MCStarts
  Asked <- MCAsked
  Seeds <- MCSeeds
  Directs <- MCDirects
  MaxOps = 3
INVARIANTS
  TypeOK
  AdviceConverges
  AdviceFits
  DoctorHealed
  LinkedKeeps
  LinkedStageable
  LinkedTiers
PROPERTIES
  AdviceNeverShrinks
  RollbackUndoes
