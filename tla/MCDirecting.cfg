SPECIFICATION Spec
CONSTANTS
  Packages <- MCPackages
  Types <- MCTypes
  PackageName <- MCPackageName
  Base <- MCBase
  Inputs <- MCInputs
  MaxLines = 2
\* The run ends, well or not.
CHECK_DEADLOCK FALSE
INVARIANTS
  TypeOK
  WrittenAsMeant
  WarningsExpected
  NoFalseAlarm
