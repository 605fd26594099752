CONSTANTS
  Callers = {rec, main, h1}
  Rec = rec
  Main = main
  Types = {s1}
  Ids = {i1}
  Configs = {f1}
  NoExecutable = {}
  DTasks = {d1}
  MaxStarts = 10
  MaxChanges = 2
  MaxFaults = 1
  MaxTroubles = 2
  Null = Null
SPECIFICATION RFairSpec
CHECK_DEADLOCK FALSE
PROPERTIES
  Converges
  ShutdownEnds
