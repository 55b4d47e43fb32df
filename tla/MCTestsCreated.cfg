SPECIFICATION Spec
CONSTANTS
  A = A
  B = B
  Packages = {A, B}
  TempKeys <- MCTempKeys
  Configs <- DefaultConfigs
  MaxVersion = 2
  MaxCrashes = 0
INVARIANT TestsCreated
