SPECIFICATION Spec
CONSTANTS
  Proc = {p1, p2}
  Slot <- TwoSlots
  Conn = {c1, c2}
  Real = {r1}
  None = None
  Commands <- DeskCommands
  MaxRunning = 2
  Faults <- NoFaults
  Desktop = "gnome"
SYMMETRY Alike
PROPERTY RecordsActedOn
