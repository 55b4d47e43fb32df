SPECIFICATION Spec
CONSTANTS
  S1 = S1
  S2 = S2
  P1 = P1
  C1 = C1
  I1 = I1
  D1 = D1
  U1 = U1
  A = A
  B = B
  V = V
  NoItem = NoItem
  Types <- MCTypes
  Packages <- MCPackages
  Jobs <- MCJobs
INVARIANT ShimIsOfTheUser
