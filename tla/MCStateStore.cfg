SPECIFICATION FairSpec
CONSTANTS
  Proc = {p1, p2}
  Id = {d0, d1}
  Tag = {none, head}
  NoTag = none
  NoProc = NoProc
  MaxCalls = 2
INVARIANTS
  TypeOK
  NoLostUpdate
PROPERTIES
  NeverTorn
  ImplementsLog
  EveryCallReturns
