SPECIFICATION Spec
CONSTANTS
  c1 = c1
  c2 = c2
  g1 = g1
  Callers = {c1, c2}
  Others = {g1}
  Terminal = Terminal
  Nobody = Nobody
  Nothing = Nothing
  Capacity = 1
  MaxFailures = 1
  MaxPrints <- MCMaxPrints
INVARIANTS
  TypeOK
  Restored
  CapturedAll
PROPERTIES
  CallsEnd
  PrintsEnd
