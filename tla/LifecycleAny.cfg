SPECIFICATION FairSpec
CONSTANTS
  Proc = {p1, p2}
  Slot <- TwoSlots
  Conn = {c1, c2}
  Real = {r1, r2}
  None = None
  Commands <- MixedCommands
  MaxRunning = 2
  Faults <- AllFaults
  Desktop = "kde"
INVARIANTS
  TypeOK
  OnlyUserOutputs
PROPERTIES
  RealOffOnlyByRequest
  CommandsEnd
