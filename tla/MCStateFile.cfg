SPECIFICATION Spec
CONSTANTS
  S1 = S1
  S2 = S2
  S3 = S3
  A = A
  B = B
  Types = {S1, S2, S3}
  Packages = {A, B}
  MaxEdits = 2
SYMMETRY Symmetry
INVARIANTS
  TypeOK
  WireStableUnlessLost
  PackagesAgree
