CONSTANTS
  Callers = {c1, c2}
  Types = {s1}
  Ids = {i1}
  Configs = {f1, f2}
  NoExecutable = {}
  DTasks = {}
  MaxStarts = 2
  Null = Null
SPECIFICATION Spec
SYMMETRY Symmetry
CHECK_DEADLOCK FALSE
INVARIANT AllRemoved
