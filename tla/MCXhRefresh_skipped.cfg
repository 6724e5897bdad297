\* An ignore of one symbol of a file that two hooks name.
SPECIFICATION Spec
CONSTANTS
  p = p  q = q  s = s  t = t  f = f  g = g
  All = All  Original = Original  NoPath = NoPath  NoFunc = NoFunc
  Paths = {p, q}
  Bases = {1}
  Syms = {s, t}
  Hooks <- Apart
  Ignores <- OneSymbol
  MaxRefreshes = 1
  MaxLoads = 1
PROPERTIES PassesOverOnlyUnwanted
