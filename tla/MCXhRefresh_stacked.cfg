\* Two hooks on one symbol of one file.
SPECIFICATION Spec
CONSTANTS
  p = p  q = q  s = s  t = t  f = f  g = g
  All = All  Original = Original  NoPath = NoPath  NoFunc = NoFunc
  Paths = {p}
  Bases = {1, 2}
  Syms = {s}
  Hooks <- Stacked
  Ignores = {}
  MaxRefreshes = 3
  MaxLoads = 3
INVARIANTS NoOldFuncCycle
