SPECIFICATION Spec
CONSTANTS
  Connector <- Replugged
  Kind <- Kinds
  None = None
  Place = {"left", "right"}
  Offered <- TwoModes
  Plans <- NoPlans
  MaxCalls = 1
  MaxChanges = 2
  Happens = {"come", "go", "rearrange", "modes"}
  Legacy = {TRUE, FALSE}
  Mute = FALSE
INVARIANTS
  CaughtUp
  SnapshotFresh
