CONSTANTS
  Callers = {rec, main, h1}
  Rec = rec
  Main = main
  Types = {s1}
  Ids = {i1}
  Configs = {f1, f2}
  NoExecutable = {}
  DTasks = {}
  MaxStarts = 10
  MaxChanges = 2
  MaxFaults = 1
  MaxTroubles = 3
  Null = Null
SPECIFICATION RSpec
CHECK_DEADLOCK FALSE
SYMMETRY Symmetry
INVARIANTS
  RTypeOK
  ShutdownLeavesNothing
  NoChurn
PROPERTY RemovesOnlyKnown
