SPECIFICATION FairSpec
CONSTANTS
  Connector <- TwoConnectors
  Kind <- Kinds
  None = None
  Place = {"left", "right"}
  Offered <- TwoModes
  Plans <- SomePlans
  MaxCalls = 2
  MaxChanges = 1
  Happens = {"go", "quit"}
  Legacy = {FALSE}
  Mute = FALSE
INVARIANTS
  TypeOK
  VerdictOurs
  AppliedIsPlan
  RestoreInOrder
PROPERTIES
  CallsReturn
