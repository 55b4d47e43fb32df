SPECIFICATION DSpec
CONSTANTS
  S1 = S1
  S2 = S2
  P1 = P1
  C1 = C1
  I1 = I1
  I2 = I2
  D1 = D1
  U1 = U1
  A = A
  B = B
  V = V
  NoItem = NoItem
  Types <- MCDTypes
  Packages <- MCPackages
  Jobs <- MCDJobs
  Flags <- MCFlags
  Scanned <- MCScanned
  MaxRuns = 3
\* The user stops calling the program.
CHECK_DEADLOCK FALSE
INVARIANTS
  DriverTypeOK
  RootsRight
  RerunKeeps
  Settles
