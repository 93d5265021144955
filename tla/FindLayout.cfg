SPECIFICATION Spec
CONSTANTS
  None = None
  Conn <- Heads
  Desks <- SomeDesks
  Attribute = {TRUE}
  Common <- CommonLines
  Rare = {}
  MaxCommands = 2
  MaxChanges = 0
INVARIANT LayoutGivenBack
