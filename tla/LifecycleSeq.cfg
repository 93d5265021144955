SPECIFICATION Spec
CONSTANTS
  Proc = {p1, p2, p3}
  Slot <- ThreeSlots
  Conn = {c1, c2, c3}
  Real = {r1, r2}
  None = None
  Commands <- AllCommands
  MaxRunning = 1
  Faults <- ButHang
  Desktop = "gnome"
SYMMETRY Alike
INVARIANTS
  LiveDevicesFound
  ResetCleans
  RestorePlanValid
  DownRestores
PROPERTIES
  UnplugConsumed
