CONSTANTS
  Callers = {c1, c2}
  Types = {s1, s2}
  Ids = {i1}
  Configs = {f1, f2, f0}
  NoExecutable = {f0}
  DTasks = {d1}
  MaxStarts = 3
  Null = Null
  OneType = s1
  OneConfig = f1
  FewStarts = 2
SPECIFICATION MCSpec
CHECK_DEADLOCK FALSE
INVARIANTS
  NoOrphan
  OneProcessPerType
  EntryDescribesProcess
PROPERTY OperationReturns
