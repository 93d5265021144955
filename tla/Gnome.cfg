SPECIFICATION Spec
CONSTANTS
  None = None
  Conn <- Heads
  Desks <- AllDesks
  Attribute <- Both
  Common <- CommonLines
  Rare <- RareLines
  MaxCommands = 3
  MaxChanges = 1
INVARIANTS
  TypeOK
  HeadAsAsked
  OthersKept
  StaleOnlyIfChanged
  UpRefusedOnlyIf
  ApartOnlyIf
  RestoreRefusedOnlyIf
  LayoutRestored
  EdidFaithful
PROPERTY
  OthersUntouched
