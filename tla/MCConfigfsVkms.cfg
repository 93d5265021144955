SPECIFICATION Spec
CONSTANTS
  Slot <- TwoSlots
  None = None
  MaxCalls = 3
  MaxFaults = 2
INVARIANTS
  TypeOK
  LowestName
  CreateComplete
  CreateRollsBack
  RemoveClears
PROPERTIES
  GracefulRemoval
  QuietRemoval
