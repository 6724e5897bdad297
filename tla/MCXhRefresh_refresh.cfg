\* Files come and go at any time, at any address; hooks on different symbols.
SPECIFICATION Spec
CONSTANTS
  p = p  q = q  s = s  t = t  f = f  g = g
  All = All  Original = Original  NoPath = NoPath  NoFunc = NoFunc
  Paths = {p, q}
  Bases = {1, 2}
  Syms = {s, t}
  Hooks <- Apart
  Ignores <- OneIgnoreEach
  MaxRefreshes = 2
  MaxLoads = 3
INVARIANTS TypeOK OneItemPerPath NoLeak  NoOldFuncCycle
PROPERTIES OnlyAsked
