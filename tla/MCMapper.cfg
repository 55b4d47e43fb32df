SPECIFICATION Spec
CONSTANTS
  Implementers <- MCImplementers
  Boxes = {"Box", "ValBox"}
  Values = {"Val", "ValBox"}
  ID <- MCID
  BodyOf <- MCBodyOf
  Shapes <- MCShapes
  Generations <- MCGenerations
  MaxMessages = 3
  MaxErrors = 4
  NotANumber = NotANumber
\* The sender has a last message to send.
CHECK_DEADLOCK FALSE
INVARIANTS
  TypeOK
  InOrder
  ErrorsExplained
  NewerReads
PROPERTIES
  AllDelivered
