SPECIFICATION Spec
CONSTANTS
  A = A
  B = B
  Packages = {A, B}
  TempKeys <- MCTempKeys
  Configs <- MCConfigs
  MaxVersion = 2
  MaxCrashes = 1
INVARIANTS
  TypeOK
  TempRemoved
  UpToDate
  AllReady
  MissingExplained
PROPERTY
  PublishedWhole
